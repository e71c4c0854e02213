-------------------------- MODULE Outside_proofs --------------------------
(***************************************************************************)
(* Proofs about what is said of packets outside the packet list: which     *)
(* process they belong to (Owners), for any processes and connections and  *)
(* any size of the map of flows; the lines of the command line mode (Cli), *)
(* for any packets, limits and sizes of its lists; and the paths that      *)
(* packets took through the kernel (PathTrace), for any traffic, number of *)
(* CPUs and sizes of buffers.                                              *)
(***************************************************************************)
EXTENDS Owners, Cli, PathTrace, SequenceTheorems, FiniteSetTheorems, WellFoundedInduction, TLAPS

(* An entry of the map is one of a process that has had a socket of the    *)
(* flow; a process that has one now is such a process.                     *)
EntryOfUser == \A f \in DOMAIN flowMap : flowMap[f] \in users[f]
SocketOfUser == \A p \in Processes : socket[p] # Nobody => p \in users[socket[p]]

(* What is left of the map's entries, or was dropped from it.              *)
Noted == DOMAIN flowMap \union evicted

(* A packet from a send call has been noted before it was captured.        *)
SentIsNoted == \A n \in DOMAIN air : air[n].sent => air[n].flow \in Noted

MapInv ==
  /\ DOMAIN flowMap \subseteq Flows /\ Range(flowMap) \subseteq Processes
  /\ IsFiniteSet(DOMAIN flowMap) /\ Cardinality(DOMAIN flowMap) <= FlowMax
  /\ EntryOfUser

SocketInv ==
  /\ socket \in [Processes -> Connections \union {Nobody}]
  /\ users \in [Flows -> SUBSET Processes]
  /\ evicted \subseteq Flows
  /\ SocketOfUser

AirInv == air \in Seq(Captured) /\ SentIsNoted

(* What is said of a packet, when it is taken and ever after.              *)
SaidRightly(o) ==
  /\ o.packet.sent /\ FlowKeyFromSummary(o.packet.flow) = o.packet.flow /\ o.packet.flow \notin evicted
       => o.by \in users[o.packet.flow]
  /\ LET f == FlowKeyFromSummary(o.packet.flow)
     IN o.by # Nobody => o.by \in users[f] \union users[Reversed(f)]

Owned == [packet : Captured, by : Processes \union {Nobody}]

OwnedInv ==
  /\ owned \in Seq(Owned)
  /\ \A n \in DOMAIN owned : SaidRightly(owned[n])

OwnersInv == MapInv /\ SocketInv /\ AirInv /\ OwnedInv

-----------------------------------------------------------------------------
(* Flows.                                                                  *)

LEMMA ConnectionsAreFlows == Connections \subseteq Flows
<1> SUFFICES ASSUME NEW f \in Connections PROVE f \in Flows
  OBVIOUS
<1>1. f \in [src : STRING, dst : STRING, protocol : {"tcp", "udp"}]
  BY OwnersAssumption
<1>2. f.src \in Ends /\ f.dst \in Ends
  <2>1. {f.src, f.dst} \in {{g.src, g.dst} : g \in Connections}
    OBVIOUS
  <2> QED
    BY <2>1, Zenon DEF Ends
<1> QED
  BY <1>1, <1>2 DEF Flows

LEMMA FlowForms ==
  ASSUME NEW f \in Flows
  PROVE  Reversed(f) \in Flows /\ FlowKeyFromSummary(f) \in Flows
  BY DEF Flows, Reversed, FlowKeyFromSummary

(* The flow map finds a user of the flow, or of the reverse one.           *)
LEMMA LookupFinds ==
  ASSUME MapInv, NEW f \in Flows
  PROVE  /\ Lookup(f) \in Processes \union {Nobody}
         /\ f \in DOMAIN flowMap => Lookup(f) \in users[f]
         /\ Lookup(f) # Nobody => Lookup(f) \in users[f] \union users[Reversed(f)]
<1>1. \A g \in DOMAIN flowMap : flowMap[g] \in Processes /\ flowMap[g] \in users[g]
  BY DEF MapInv, EntryOfUser, Range
<1> QED
  BY <1>1 DEF Lookup

-----------------------------------------------------------------------------
(* The kernel.                                                             *)

(* FLOW_MAP.insert, for a socket's process.                                *)
LEMMA HandleSockStep ==
  ASSUME MapInv, SocketInv, NEW p \in Processes, socket[p] # Nobody, HandleSock(p), users' = users
  PROVE  MapInv' /\ evicted' \subseteq Flows /\ evicted \subseteq evicted' /\ Noted \subseteq Noted' /\ socket[p] \in Noted'
<1> DEFINE f == socket[p]  D == DOMAIN flowMap
<1>0. FlowMax \in Nat
  BY OwnersAssumption
<1>1. f \in Flows /\ p \in users[f]
  <2>1. f \in Connections
    BY DEF SocketInv
  <2> QED
    BY <2>1, ConnectionsAreFlows DEF SocketInv, SocketOfUser
<1>2. D \subseteq Flows /\ IsFiniteSet(D) /\ Cardinality(D) \in Nat /\ Cardinality(D) <= FlowMax
  BY FS_CardinalityType DEF MapInv
<1>3. \A g \in D : flowMap[g] \in Processes /\ flowMap[g] \in users[g]
  BY DEF MapInv, EntryOfUser, Range
<1>4. evicted' = evicted \union (D \ DOMAIN flowMap')
  BY DEF HandleSock
<1>5. PICK k : /\ flowMap' = [g \in k \union {f} |-> IF g = f THEN p ELSE flowMap[g]]
               /\ \/ k = D /\ (f \in D \/ Cardinality(D) < FlowMax)
                  \/ \E e \in D : k = D \ {e}
  BY DEF HandleSock, Inserted
<1> HIDE DEF f, D
<1>6. k \subseteq D /\ DOMAIN flowMap' = k \union {f}
  BY <1>5
<1>7. IsFiniteSet(k \union {f}) /\ Cardinality(k \union {f}) <= FlowMax
  <2>1. CASE k = D /\ (f \in D \/ Cardinality(D) < FlowMax)
    <3>1. IsFiniteSet(D \union {f}) /\ Cardinality(D \union {f}) = IF f \in D THEN Cardinality(D) ELSE Cardinality(D) + 1
      BY <1>2, FS_AddElement
    <3> QED
      BY <1>0, <1>2, <2>1, <3>1
  <2>2. ASSUME NEW e \in D, k = D \ {e} PROVE IsFiniteSet(k \union {f}) /\ Cardinality(k \union {f}) <= FlowMax
    <3>1. IsFiniteSet(k) /\ Cardinality(k) = Cardinality(D) - 1
      BY <1>2, <2>2, FS_RemoveElement
    <3>2. IsFiniteSet(k \union {f}) /\ Cardinality(k \union {f}) = IF f \in k THEN Cardinality(k) ELSE Cardinality(k) + 1
      BY <3>1, FS_AddElement
    <3> QED
      BY <1>0, <1>2, <3>1, <3>2
  <2> QED
    BY <1>5, <2>1, <2>2
<1>8. \A g \in DOMAIN flowMap' : flowMap'[g] \in Processes /\ flowMap'[g] \in users'[g]
  BY <1>1, <1>3, <1>5, <1>6
<1>9. Range(flowMap') \subseteq Processes
  BY <1>8 DEF Range
<1>10. EntryOfUser'
  BY <1>8 DEF EntryOfUser
<1>11. MapInv'
  BY <1>1, <1>2, <1>6, <1>7, <1>9, <1>10 DEF MapInv
<1>12. evicted' \subseteq Flows /\ evicted \subseteq evicted'
  BY <1>2, <1>4 DEF SocketInv
<1>13. Noted \subseteq Noted' /\ f \in Noted'
  BY <1>4, <1>6 DEF Noted, D
<1> QED
  BY <1>11, <1>12, <1>13 DEF f

(* A packet appears in the capture.                                        *)
LEMMA AppearsStep ==
  ASSUME AirInv, Noted \subseteq Noted', NEW f \in Flows, NEW sent \in BOOLEAN, Appears(f, sent),
         sent => f \in Noted'
  PROVE  AirInv'
<1> DEFINE x == [flow |-> f, sent |-> sent]
<1>1. x \in Captured /\ air' = Append(air, x) /\ x.sent = sent /\ x.flow = f
  BY DEF Captured, Appears
<1> HIDE DEF x
<1>2. /\ air' \in Seq(Captured) /\ Len(air') = Len(air) + 1
      /\ \A i \in 1..Len(air) : air'[i] = air[i]
      /\ air'[Len(air) + 1] = x
  BY <1>1, AppendProperties DEF AirInv
<1>3. DOMAIN air = 1..Len(air) /\ DOMAIN air' = 1..(Len(air) + 1) /\ Len(air) \in Nat
  BY <1>2, LenProperties DEF AirInv
<1>4. \A n \in DOMAIN air' : n \in DOMAIN air \/ n = Len(air) + 1
  BY <1>3
<1>5. SentIsNoted'
  BY <1>1, <1>2, <1>3, <1>4 DEF AirInv, SentIsNoted
<1> QED
  BY <1>2, <1>5 DEF AirInv

LEMMA AirStays ==
  ASSUME AirInv, Noted \subseteq Noted', UNCHANGED air
  PROVE  AirInv'
  BY DEF AirInv, SentIsNoted

(* What was said stays right: users are never forgotten, nor is that a     *)
(* flow was dropped.                                                       *)
LEMMA OwnedStays ==
  ASSUME OwnedInv, UNCHANGED owned, evicted \subseteq evicted', \A f \in Flows : users[f] \subseteq users'[f]
  PROVE  OwnedInv'
<1>1. ASSUME NEW n \in DOMAIN owned PROVE SaidRightly(owned[n])'
  <2> DEFINE f == owned[n].packet.flow
  <2>1. owned[n] \in Owned
    BY ElementOfSeq, LenProperties DEF OwnedInv
  <2>2. f \in Flows
    BY <2>1 DEF Owned, Captured
  <2>3. FlowKeyFromSummary(f) \in Flows /\ Reversed(FlowKeyFromSummary(f)) \in Flows
    BY <2>2, FlowForms
  <2> QED
    BY <2>2, <2>3 DEF OwnedInv, SaidRightly
<1> QED
  BY <1>1 DEF OwnedInv

-----------------------------------------------------------------------------
(* The steps.                                                              *)

LEMMA TakeStep ==
  ASSUME OwnersInv, TakeCaptured
  PROVE  OwnersInv'
<1> DEFINE x == Head(air)
           o == [packet |-> x, by |-> Lookup(FlowKeyFromSummary(x.flow))]
<1>1. /\ air # <<>> /\ air' = Tail(air) /\ owned' = Append(owned, o)
      /\ UNCHANGED <<socket, users, flowMap, evicted>>
  BY DEF TakeCaptured
<1>2. air \in Seq(Captured) /\ DOMAIN air = 1..Len(air) /\ Len(air) \in Nat
  BY LenProperties DEF OwnersInv, AirInv
<1>3. /\ x \in Captured /\ x = air[1] /\ 1 \in DOMAIN air
      /\ Tail(air) \in Seq(Captured) /\ Len(Tail(air)) = Len(air) - 1
      /\ \A i \in 1..Len(Tail(air)) : Tail(air)[i] = air[i + 1]
  BY <1>1, <1>2, EmptySeq, HeadTailProperties
<1>4. MapInv' /\ SocketInv' /\ Noted' = Noted
  BY <1>1 DEF OwnersInv, MapInv, EntryOfUser, SocketInv, SocketOfUser, Noted
<1>5. AirInv'
  <2>1. DOMAIN Tail(air) = 1..Len(Tail(air))
    BY <1>3, LenProperties
  <2>2. ASSUME NEW n \in DOMAIN Tail(air), Tail(air)[n].sent PROVE Tail(air)[n].flow \in Noted
    <3>1. Tail(air)[n] = air[n + 1] /\ n + 1 \in DOMAIN air
      BY <1>2, <1>3, <2>1
    <3> QED
      BY <2>2, <3>1 DEF OwnersInv, AirInv, SentIsNoted
  <2> QED
    BY <1>1, <1>3, <1>4, <2>2 DEF AirInv, SentIsNoted
<1>6. x.flow \in Flows /\ (x.sent => x.flow \in Noted)
  <2>1. x.flow \in Flows
    BY <1>3 DEF Captured
  <2> QED
    BY <1>3, <2>1 DEF OwnersInv, AirInv, SentIsNoted
<1> HIDE DEF x
<1>7. FlowKeyFromSummary(x.flow) \in Flows /\ o.packet = x /\ o.by = Lookup(FlowKeyFromSummary(x.flow))
  BY <1>6, FlowForms
<1>8. o \in Owned
  BY <1>3, <1>7, LookupFinds DEF OwnersInv, Owned
<1> HIDE DEF o
<1>9. SaidRightly(o)
  <2>1. ASSUME x.sent, FlowKeyFromSummary(x.flow) = x.flow, x.flow \notin evicted PROVE o.by \in users[x.flow]
    BY <1>6, <1>7, <2>1, LookupFinds DEF OwnersInv, Noted
  <2> QED
    BY <1>7, <2>1, LookupFinds DEF OwnersInv, SaidRightly
<1>10. /\ owned \in Seq(Owned) /\ owned' \in Seq(Owned) /\ Len(owned') = Len(owned) + 1
       /\ \A i \in 1..Len(owned) : owned'[i] = owned[i]
       /\ owned'[Len(owned) + 1] = o
  BY <1>1, <1>8, AppendProperties DEF OwnersInv, OwnedInv
<1>11. DOMAIN owned = 1..Len(owned) /\ DOMAIN owned' = 1..(Len(owned) + 1) /\ Len(owned) \in Nat
  BY <1>10, LenProperties
<1>12. \A n \in DOMAIN owned' : n \in DOMAIN owned \/ n = Len(owned) + 1
  BY <1>11
<1>13. \A n \in DOMAIN owned' : SaidRightly(owned'[n])
  BY <1>9, <1>10, <1>11, <1>12 DEF OwnersInv, OwnedInv
<1>14. OwnedInv'
  BY <1>1, <1>10, <1>13 DEF OwnedInv, SaidRightly
<1> QED
  BY <1>4, <1>5, <1>14 DEF OwnersInv

LEMMA ConnectStep ==
  ASSUME OwnersInv, NEW p \in Processes, NEW f \in Connections, Connect(p, f)
  PROVE  OwnersInv'
<1>1. /\ socket' = [socket EXCEPT ![p] = f] /\ users' = [users EXCEPT ![f] = @ \union {p}]
      /\ UNCHANGED <<flowMap, evicted, owned>>
      /\ IF f.protocol = "tcp" THEN Appears(f, FALSE) ELSE UNCHANGED air
  BY DEF Connect
<1>2. f \in Flows
  BY ConnectionsAreFlows
<1>3. /\ users \in [Flows -> SUBSET Processes] /\ users' \in [Flows -> SUBSET Processes]
      /\ \A g \in Flows : users[g] \subseteq users'[g]
      /\ p \in users'[f]
  BY <1>1, <1>2 DEF OwnersInv, SocketInv
<1>4. MapInv'
  BY <1>1, <1>3 DEF OwnersInv, MapInv, EntryOfUser
<1>5. SocketInv'
  <2>1. socket' \in [Processes -> Connections \union {Nobody}]
    BY <1>1 DEF OwnersInv, SocketInv
  <2>2. ASSUME NEW q \in Processes, socket'[q] # Nobody PROVE q \in users'[socket'[q]]
    <3>1. CASE q = p
      BY <1>1, <1>3, <3>1 DEF OwnersInv, SocketInv
    <3>2. CASE q # p
      <4>1. socket'[q] = socket[q] /\ socket[q] \in Connections
        BY <1>1, <2>2, <3>2 DEF OwnersInv, SocketInv
      <4> QED
        BY <1>3, <2>2, <4>1, ConnectionsAreFlows DEF OwnersInv, SocketInv, SocketOfUser
    <3> QED
      BY <3>1, <3>2
  <2> QED
    BY <1>1, <1>3, <2>1, <2>2 DEF OwnersInv, SocketInv, SocketOfUser
<1>6. Noted' = Noted
  BY <1>1 DEF Noted
<1>7. AirInv'
  BY <1>1, <1>2, <1>6, AppearsStep, AirStays DEF OwnersInv
<1>8. OwnedInv'
  BY <1>1, <1>3, OwnedStays DEF OwnersInv
<1> QED
  BY <1>4, <1>5, <1>7, <1>8 DEF OwnersInv

LEMMA OwnersStep == OwnersInv /\ [OwnersNext]_ownerVars => OwnersInv'
<1> SUFFICES ASSUME OwnersInv, [OwnersNext]_ownerVars PROVE OwnersInv'
  OBVIOUS
<1>1. ASSUME NEW p \in Processes, Close(p) PROVE OwnersInv'
  <2>1. socket' = [socket EXCEPT ![p] = Nobody] /\ UNCHANGED <<users, flowMap, evicted, air, owned>>
    BY <1>1 DEF Close
  <2>2. socket' \in [Processes -> Connections \union {Nobody}]
    BY <2>1 DEF OwnersInv, SocketInv
  <2>3. SocketOfUser'
    BY <2>1 DEF OwnersInv, SocketInv, SocketOfUser
  <2>4. SocketInv' /\ MapInv' /\ Noted' = Noted
    BY <2>1, <2>2, <2>3 DEF OwnersInv, SocketInv, MapInv, EntryOfUser, Noted
  <2>5. AirInv' /\ OwnedInv'
    BY <2>1, <2>4, AirStays, OwnedStays DEF OwnersInv
  <2> QED
    BY <2>4, <2>5 DEF OwnersInv
<1>2. ASSUME NEW p \in Processes, SendMsg(p) \/ RecvMsg(p) PROVE OwnersInv'
  <2>1. socket[p] # Nobody /\ HandleSock(p) /\ UNCHANGED <<socket, users, owned>>
        /\ (Appears(socket[p], TRUE) \/ UNCHANGED air)
    BY <1>2 DEF SendMsg, RecvMsg
  <2>2. MapInv' /\ evicted' \subseteq Flows /\ evicted \subseteq evicted' /\ Noted \subseteq Noted'
        /\ socket[p] \in Noted'
    BY <2>1, HandleSockStep DEF OwnersInv
  <2>3. SocketInv'
    BY <2>1, <2>2 DEF OwnersInv, SocketInv, SocketOfUser
  <2>4. socket[p] \in Flows
    BY <2>1, ConnectionsAreFlows DEF OwnersInv, SocketInv
  <2>5. AirInv'
    BY <2>1, <2>2, <2>4, AppearsStep, AirStays DEF OwnersInv
  <2>6. OwnedInv'
    BY <2>1, <2>2, OwnedStays DEF OwnersInv
  <2> QED
    BY <2>2, <2>3, <2>5, <2>6 DEF OwnersInv
<1>3. ASSUME NEW f \in Connections, Arrive(f) PROVE OwnersInv'
  <2>1. Appears(Reversed(f), FALSE) /\ UNCHANGED <<socket, users, flowMap, evicted, owned>>
    BY <1>3 DEF Arrive
  <2>2. Reversed(f) \in Flows
    BY ConnectionsAreFlows, FlowForms
  <2>3. SocketInv' /\ MapInv' /\ Noted' = Noted
    BY <2>1 DEF OwnersInv, SocketInv, SocketOfUser, MapInv, EntryOfUser, Noted
  <2>4. AirInv' /\ OwnedInv'
    BY <2>1, <2>2, <2>3, AppearsStep, OwnedStays DEF OwnersInv
  <2> QED
    BY <2>3, <2>4 DEF OwnersInv
<1>4. CASE UNCHANGED ownerVars
  <2>1. UNCHANGED <<socket, users, flowMap, evicted, air, owned>>
    BY <1>4 DEF ownerVars
  <2>2. SocketInv' /\ MapInv' /\ Noted' = Noted
    BY <2>1 DEF OwnersInv, SocketInv, SocketOfUser, MapInv, EntryOfUser, Noted
  <2>3. AirInv' /\ OwnedInv'
    BY <2>1, <2>2, AirStays, OwnedStays DEF OwnersInv
  <2> QED
    BY <2>2, <2>3 DEF OwnersInv
<1> QED
  BY <1>1, <1>2, <1>3, <1>4, ConnectStep, TakeStep DEF OwnersNext

LEMMA OwnersInitially == OwnersInit => OwnersInv
<1> SUFFICES ASSUME OwnersInit PROVE OwnersInv
  OBVIOUS
<1>1. DOMAIN flowMap = {} /\ DOMAIN air = {} /\ DOMAIN owned = {}
  BY DEF OwnersInit
<1>2. IsFiniteSet(DOMAIN flowMap) /\ Cardinality(DOMAIN flowMap) <= FlowMax
  BY <1>1, FS_EmptySet, OwnersAssumption
<1>3. MapInv
  BY <1>1, <1>2 DEF MapInv, Range, EntryOfUser
<1>4. SocketInv
  BY DEF OwnersInit, SocketInv, SocketOfUser
<1>5. AirInv /\ OwnedInv
  BY <1>1, EmptySeq DEF OwnersInit, AirInv, SentIsNoted, OwnedInv
<1> QED
  BY <1>3, <1>4, <1>5 DEF OwnersInv

(* While the map had room for a flow, what a process sent is said to be    *)
(* that of a process with the flow, and a packet whose flow nobody here    *)
(* has had is nobody's, whichever entries the kernel dropped before        *)
(* (handle_sock, TraceEngine::lookup, drain_capture_packets).              *)
THEOREM NamesTheOwner == OwnersSpec => []OwnerSound
<1>1. OwnersInv => OwnerSound
  <2> SUFFICES ASSUME OwnersInv PROVE OwnerSound
    OBVIOUS
  <2>1. OwnersTypeOK
    BY DEF OwnersInv, MapInv, SocketInv, AirInv, OwnedInv, Owned, OwnersTypeOK
  <2>2. SenderIsNamed
    BY DEF OwnersInv, OwnedInv, SaidRightly, SenderIsNamed
  <2>3. StrangersAreNobodys
    BY DEF OwnersInv, OwnedInv, SaidRightly, StrangersAreNobodys
  <2> QED
    BY <2>1, <2>2, <2>3 DEF OwnerSound
<1> QED
  BY <1>1, OwnersInitially, OwnersStep, PTL DEF OwnersSpec

-----------------------------------------------------------------------------
(* The command line mode.                                                  *)

(* The numbers in the channel rise, and are above those that were printed. *)
Rising(s) == \A m, n \in DOMAIN s : m < n => s[m] < s[n]

QueueInv ==
  /\ Rising(queue)
  /\ \A n \in DOMAIN queue : queue[n] <= caught /\ queue[n] \notin refused
  /\ \A i \in refused : i <= caught

(* A packet that the loop has had.                                         *)
Had(i) == i \in Numbers /\ Passed(i) /\ kind[i].wanted

LinesInv ==
  /\ \A m, n \in DOMAIN output : m < n => output[m].index < output[n].index
  /\ \A n \in DOMAIN output : output[n].index <= caught
  /\ \A n \in DOMAIN output, m \in DOMAIN queue : output[n].index < queue[m]
  /\ \A i \in Numbers : Had(i) => i \in Printed \/ ~pipe

CountInv ==
  /\ Len(output) <= limit
  /\ loop = "receive" => Len(output) < limit

(* Only a packet that the loop has had can be matched.                     *)
MatchInv ==
  /\ \A n \in DOMAIN window : Had(window[n])
  /\ \A i \in Numbers : matched[i] # NoPath => Had(i)

(* A path that was printed is over.                                        *)
PathsInv ==
  \A n \in DOMAIN output : output[n].path # NoPath =>
    /\ output[n].path \in Numbers /\ stage[output[n].path] = "ended"
    /\ FlowOf(output[n].path) \in {FlowOf(output[n].index), -FlowOf(output[n].index)}
    /\ \A m \in DOMAIN output : output[m].path = output[n].path => m = n

CliInv == CliTypeOK /\ QueueInv /\ LinesInv /\ CountInv /\ MatchInv /\ PathsInv /\ KeptBounded

-----------------------------------------------------------------------------

(* A set of numbers with a bound has a greatest one.                       *)
LEMMA GreatestExists ==
  ASSUME NEW b \in Nat, NEW S \in SUBSET (1..b), S # {}
  PROVE  \E x \in S : \A y \in S : y <= x
<1> DEFINE R == OpToRel(<, Nat)
           T == {b - x : x \in S}
<1>1. IsWellFoundedOn(R, Nat)
  BY NatLessThanWellFounded
<1>2. \A x, y \in Nat : x < y => <<x, y>> \in R
  BY DEF OpToRel
<1>3. T \subseteq Nat /\ T # {}
  <2>1. \A x \in S : b - x \in Nat
    OBVIOUS
  <2> QED
    BY <2>1
<1> HIDE DEF R
<1>4. PICK t \in T : \A u \in T : ~ (<<u, t>> \in R)
  <2> HIDE DEF T
  <2> QED
    BY <1>1, <1>3, WFMin, Zenon
<1>5. PICK x \in S : t = b - x
  OBVIOUS
<1>6. ASSUME NEW y \in S PROVE y <= x
  <2>1. b - y \in T /\ b - y \in Nat /\ t \in Nat
    BY <1>3
  <2>2. ~(b - y < t)
    BY <1>2, <1>4, <2>1
  <2>3. x \in Nat /\ y \in Nat /\ t = b - x
    BY <1>5
  <2> HIDE DEF T
  <2> QED
    BY <2>2, <2>3
<1> QED
  BY <1>6

LEMMA CliInitially == CliInit => CliInv
<1> SUFFICES ASSUME CliInit PROVE CliInv
  OBVIOUS
<1>1. /\ CliPackets \in Nat \ {0} /\ RecentMax \in Nat \ {0} /\ MatchedMax \in Nat \ {0}
      /\ limit \in Nat /\ NoPath \notin Numbers
  BY CliAssumption DEF CliInit, Numbers
<1>2. /\ output = <<>> /\ window = <<>> /\ DOMAIN output = {} /\ DOMAIN window = {}
      /\ Len(output) = 0 /\ Len(window) = 0 /\ refused = {} /\ loop = "top" /\ pipe = TRUE
      /\ stage = [i \in Numbers |-> "none"] /\ matched = [i \in Numbers |-> NoPath]
  BY EmptySeq DEF CliInit
<1>3. /\ caught \in 0..CliPackets /\ queue \in Seq(Numbers) /\ Rising(queue)
      /\ \A n \in DOMAIN queue : queue[n] <= caught
      /\ \A i \in Numbers : ~Passed(i)
  <2>1. CASE live
    <3>1. caught = 0 /\ queue = <<>>
      BY <2>1, Zenon DEF CliInit
    <3> QED
      BY <1>1, <3>1, EmptySeq DEF Rising, Passed, Numbers
  <2>2. CASE ~live
    <3>1. caught = CliPackets /\ queue = [i \in Numbers |-> i]
      BY <2>2, Zenon DEF CliInit
    <3>2. queue \in Seq(Numbers) /\ DOMAIN queue = Numbers
      BY <1>1, <3>1 DEF Numbers
    <3> QED
      BY <1>1, <3>1, <3>2 DEF Rising, Passed, Numbers, Range
  <2> QED
    BY <2>1, <2>2
<1>4. CliTypeOK
  <2>1. live \in BOOLEAN /\ tracing \in BOOLEAN /\ on \in BOOLEAN /\ catching \in BOOLEAN
    BY DEF CliInit
  <2> QED
    BY <1>2, <1>3, <2>1, EmptySeq DEF CliInit, CliTypeOK
<1>5. QueueInv /\ LinesInv /\ MatchInv /\ PathsInv
  BY <1>2, <1>3 DEF QueueInv, LinesInv, MatchInv, PathsInv, Had
<1>6. CountInv
  BY <1>1, <1>2 DEF CountInv
<1>7. KeptBounded
  <2>1. {i \in Numbers : matched[i] # NoPath} = {}
    BY <1>2
  <2> QED
    BY <1>1, <1>2, <2>1, FS_EmptySet DEF KeptBounded
<1> QED
  BY <1>4, <1>5, <1>6, <1>7 DEF CliInv

LEMMA LineTyped ==
  ASSUME CliInv, NEW n \in DOMAIN output
  PROVE  output[n].index \in Numbers /\ output[n].path \in Numbers \union {NoPath}
<1> DEFINE Line == [index : Numbers, path : Numbers \union {NoPath}]
<1>1. output[n] \in Line
  <2>1. output \in Seq(Line)
    BY DEF CliInv, CliTypeOK
  <2> HIDE DEF Line
  <2>2. n \in 1..Len(output)
    BY <2>1, LenProperties
  <2> QED
    BY <2>1, <2>2, ElementOfSeq
<1> QED
  BY <1>1

-----------------------------------------------------------------------------
(* What a step leaves alone.                                               *)

LEMMA CountKept ==
  ASSUME CliInv, UNCHANGED <<limit, output>>, loop' = "receive" => loop = "receive" \/ ~Reached
  PROVE  CountInv'
<1>1. limit \in Nat /\ Len(output) \in Nat
  BY CliAssumption, LenProperties DEF CliInv, CliTypeOK
<1> QED
  BY <1>1 DEF CliInv, CountInv, Reached

LEMMA MatchKept ==
  ASSUME CliInv, UNCHANGED <<window, matched>>, \A i \in Numbers : Had(i) => Had(i)'
  PROVE  MatchInv' /\ KeptBounded'
<1>1. \A n \in DOMAIN window : window[n] \in Numbers
  BY ElementOfSeq, LenProperties DEF CliInv, CliTypeOK
<1> QED
  BY <1>1 DEF CliInv, MatchInv, KeptBounded

LEMMA PathsKept ==
  ASSUME CliInv, UNCHANGED <<output, kind>>, \A p \in Numbers : stage[p] = "ended" => stage'[p] = "ended"
  PROVE  PathsInv'
  BY DEF CliInv, PathsInv, FlowOf

LEMMA HadKept ==
  ASSUME UNCHANGED <<kind, caught, queue, refused>>
  PROVE  \A i \in Numbers : Had(i)' <=> Had(i)
  BY DEF Had, Passed

LEMMA LinesKept ==
  ASSUME CliInv, UNCHANGED <<kind, caught, queue, refused, output>>, pipe' => pipe
  PROVE  QueueInv' /\ LinesInv'
<1>1. QueueInv'
  BY DEF CliInv, QueueInv, Rising
<1>2. \A i \in Numbers : Had(i)' => i \in Printed' \/ ~pipe'
  BY HadKept DEF CliInv, LinesInv, Printed
<1> QED
  BY <1>1, <1>2 DEF CliInv, LinesInv

-----------------------------------------------------------------------------
(* The steps.                                                              *)

LEMMA CatchStep == CliInv /\ Catch => CliInv'
<1> SUFFICES ASSUME CliInv, Catch PROVE CliInv'
  OBVIOUS
<1> DEFINE c == caught + 1
<1>1. /\ caught' = c /\ caught < CliPackets
      /\ UNCHANGED <<inputs, on, pipe, loop, catching, pathParts, output>>
      /\ \/ queue' = Append(queue, c) /\ refused' = refused
         \/ refused' = refused \union {c} /\ queue' = queue
  BY DEF Catch, NextNumber
<1>2. /\ caught \in 0..CliPackets /\ CliPackets \in Nat
      /\ queue \in Seq(Numbers) /\ DOMAIN queue = 1..Len(queue) /\ Len(queue) \in Nat
      /\ refused \subseteq Numbers
  BY LenProperties, CliAssumption DEF CliInv, CliTypeOK
<1>3. c \in Numbers /\ c \in 0..CliPackets /\ caught < c
  BY <1>1, <1>2 DEF Numbers
<1>4. \A n \in DOMAIN queue : queue[n] \in Numbers /\ queue[n] < c /\ queue[n] # c
  <2>1. \A n \in DOMAIN queue : queue[n] \in Numbers /\ queue[n] <= caught
    BY <1>2, ElementOfSeq DEF CliInv, QueueInv
  <2> QED
    BY <1>2, <1>3, <2>1 DEF Numbers
<1>5. /\ Append(queue, c) \in Seq(Numbers) /\ Len(Append(queue, c)) = Len(queue) + 1
      /\ \A i \in 1..Len(queue) : Append(queue, c)[i] = queue[i]
      /\ Append(queue, c)[Len(queue) + 1] = c
  BY <1>2, <1>3, AppendProperties
<1>6. DOMAIN Append(queue, c) = 1..(Len(queue) + 1)
  BY <1>5, LenProperties
<1>7. \A i \in refused : i <= c /\ i # c
  BY <1>2, <1>3 DEF CliInv, QueueInv, Numbers
<1>8. \A i \in Numbers : i <= c <=> i <= caught \/ i = c
  BY <1>2 DEF Numbers
<1>9. ASSUME NEW i \in Numbers PROVE i \in Range(queue) => i <= caught
  BY <1>2 DEF Range, CliInv, QueueInv
<1> HIDE DEF c
<1>10. CliTypeOK'
  BY <1>1, <1>2, <1>3, <1>5 DEF CliInv, CliTypeOK, inputs, pathParts
<1>11. QueueInv' /\ (\A i \in Numbers : Passed(i)' <=> Passed(i))
       /\ (\A n \in DOMAIN queue' : (n \in DOMAIN queue /\ queue'[n] = queue[n]) \/ queue'[n] = c)
  <2>1. CASE queue' = Append(queue, c) /\ refused' = refused
    <3>1. \A n \in 1..(Len(queue) + 1) : n \in 1..Len(queue) \/ n = Len(queue) + 1
      BY <1>2
    <3>2. Rising(queue')
      <4> SUFFICES ASSUME NEW m \in 1..(Len(queue) + 1), NEW n \in 1..(Len(queue) + 1), m < n
                   PROVE  queue'[m] < queue'[n]
        BY <1>6, <2>1 DEF Rising
      <4>1. m \in 1..Len(queue)
        BY <1>2
      <4>2. CASE n \in 1..Len(queue)
        BY <1>2, <1>5, <2>1, <4>1, <4>2 DEF CliInv, QueueInv, Rising
      <4>3. CASE n = Len(queue) + 1
        BY <1>2, <1>4, <1>5, <2>1, <4>1, <4>3
      <4> QED
        BY <3>1, <4>2, <4>3
    <3>3. \A n \in DOMAIN queue' : (n \in DOMAIN queue /\ queue'[n] = queue[n]) \/ queue'[n] = c
      BY <1>2, <1>5, <1>6, <2>1, <3>1
    <3>4. c <= c /\ c \notin refused
      BY <1>3, <1>7
    <3>5. \A n \in DOMAIN queue : queue[n] <= c
      BY <1>2, <1>3, <1>4 DEF Numbers
    <3>6. QueueInv'
      BY <1>1, <1>7, <2>1, <3>2, <3>3, <3>4, <3>5 DEF CliInv, QueueInv
    <3>7. Range(queue') = Range(queue) \union {c}
      <4>1. \A n \in DOMAIN queue : n \in DOMAIN queue' /\ queue'[n] = queue[n]
        BY <1>2, <1>5, <1>6, <2>1
      <4>2. Len(queue) + 1 \in DOMAIN queue' /\ queue'[Len(queue) + 1] = c
        BY <1>2, <1>5, <1>6, <2>1
      <4> QED
        BY <3>3, <4>1, <4>2 DEF Range
    <3>8. \A i \in Numbers : Passed(i)' <=> Passed(i)
      <4>1. caught' = c /\ refused' = refused /\ ~(c <= caught)
        BY <1>1, <1>2, <1>3, <2>1
      <4> QED
        BY <1>8, <3>7, <4>1 DEF Passed
    <3> QED
      BY <3>3, <3>6, <3>8
  <2>2. CASE refused' = refused \union {c} /\ queue' = queue
    <3>1. \A n \in DOMAIN queue : queue[n] <= c
      BY <1>2, <1>3, <1>4 DEF Numbers
    <3>2. c <= c
      BY <1>3
    <3>3. QueueInv'
      BY <1>1, <1>4, <1>7, <2>2, <3>1, <3>2 DEF CliInv, QueueInv, Rising
    <3>4. \A i \in Numbers : Passed(i)' <=> Passed(i)
      <4>1. caught' = c /\ ~(c <= caught)
        BY <1>1, <1>2, <1>3
      <4> QED
        BY <1>8, <2>2, <4>1 DEF Passed
    <3> QED
      BY <2>2, <3>3, <3>4
  <2> QED
    BY <1>1, <2>1, <2>2
<1>12. \A i \in Numbers : Had(i)' <=> Had(i)
  BY <1>1, <1>11 DEF Had, inputs
<1>13. LinesInv'
  <2>1. output' = output /\ pipe' = pipe
    BY <1>1
  <2>2. \A n \in DOMAIN output : output[n].index \in Numbers
    BY LineTyped
  <2>3. \A n \in DOMAIN output : output[n].index <= c /\ output[n].index < c
    BY <1>2, <1>3, <2>2 DEF CliInv, LinesInv, Numbers
  <2> QED
    BY <1>1, <1>11, <1>12, <2>1, <2>3 DEF CliInv, LinesInv, Printed
<1>14. CountInv'
  BY <1>1, CountKept DEF inputs
<1>15. MatchInv' /\ KeptBounded' /\ PathsInv'
  BY <1>1, <1>12, MatchKept, PathsKept DEF inputs, pathParts
<1> QED
  BY <1>10, <1>11, <1>13, <1>14, <1>15 DEF CliInv

(* Steps of the world, and of the loop when it takes no packet.            *)
LEMMA OutsideStep == CliInv /\ (Die \/ Signal \/ ClosePipe \/ FindNothing \/ AskThread \/ LeaveLoop) => CliInv'
<1> SUFFICES ASSUME CliInv, Die \/ Signal \/ ClosePipe \/ FindNothing \/ AskThread \/ LeaveLoop PROVE CliInv'
  OBVIOUS
<1>1. /\ UNCHANGED <<kind, limit, live, tracing, caught, queue, refused, stage, window, matched, output>>
      /\ pipe' \in {pipe, FALSE} /\ on' \in {on, FALSE} /\ catching' \in {catching, FALSE}
      /\ loop' \in {loop, "empty", "top", "stopping"}
  BY DEF Die, Signal, ClosePipe, FindNothing, AskThread, LeaveLoop, inputs, pathParts
<1>2. CliTypeOK'
  BY <1>1 DEF CliInv, CliTypeOK, FlowOf
<1>3. QueueInv' /\ LinesInv'
  <2>1. pipe' => pipe
    BY <1>1
  <2> QED
    BY <1>1, <2>1, LinesKept
<1>4. CountInv'
  BY <1>1, CountKept
<1>5. MatchInv' /\ KeptBounded' /\ PathsInv'
  BY <1>1, HadKept, MatchKept, PathsKept
<1> QED
  BY <1>2, <1>3, <1>4, <1>5 DEF CliInv

LEMMA StageStep ==
  ASSUME CliInv, (\E i \in Numbers : Emit(i)) \/ Finished
  PROVE  CliInv'
<1>1. /\ UNCHANGED <<kind, limit, live, tracing, on, pipe, caught, queue, refused, window, matched, output>>
      /\ loop' \in {loop, "done"} /\ catching' \in {catching, FALSE}
  BY DEF Emit, Finished, inputs
<1>2. /\ stage' \in [Numbers -> {"none", "perf", "pending", "ended"}]
      /\ \A p \in Numbers : stage[p] = "ended" => stage'[p] = "ended"
  <2>1. stage \in [Numbers -> {"none", "perf", "pending", "ended"}]
    BY DEF CliInv, CliTypeOK
  <2>2. CASE Finished
    BY <2>1, <2>2 DEF Finished
  <2>3. ASSUME NEW i \in Numbers, Emit(i)
        PROVE  /\ stage' \in [Numbers -> {"none", "perf", "pending", "ended"}]
               /\ \A p \in Numbers : stage[p] = "ended" => stage'[p] = "ended"
    BY <2>1, <2>3 DEF Emit
  <2> QED
    BY <2>2, <2>3
<1>3. CliTypeOK'
  BY <1>1, <1>2 DEF CliInv, CliTypeOK
<1>4. QueueInv' /\ LinesInv'
  BY <1>1, LinesKept
<1>5. CountInv'
  BY <1>1, CountKept
<1>6. MatchInv' /\ KeptBounded' /\ PathsInv'
  BY <1>1, <1>2, HadKept, MatchKept, PathsKept
<1> QED
  BY <1>3, <1>4, <1>5, <1>6 DEF CliInv

(* match_to_packets finds one of the packets that are remembered.          *)
LEMMA NewestIsRemembered ==
  ASSUME CliInv, NEW f, NewestOf(f) # NoPath
  PROVE  \E n \in DOMAIN window : NewestOf(f) = window[n]
<1> DEFINE same == {n \in DOMAIN window : FlowOf(window[n]) = f}
<1>1. same # {} /\ NewestOf(f) = window[CHOOSE n \in same : \A m \in same : m <= n]
  BY DEF NewestOf
<1>2. DOMAIN window = 1..Len(window) /\ Len(window) \in Nat
  BY LenProperties DEF CliInv, CliTypeOK
<1>3. \E n \in same : \A m \in same : m <= n
  BY <1>1, <1>2, GreatestExists
<1>4. (CHOOSE n \in same : \A m \in same : m <= n) \in same
  BY <1>3
<1> QED
  BY <1>1, <1>4

LEMMA MatchIsHad ==
  ASSUME CliInv, NEW p \in Numbers, NEW i \in Numbers, MatchOf(p) = i
  PROVE  Had(i)
<1>1. i # NoPath
  BY CliAssumption DEF Numbers
<1>2. \E f : NewestOf(f) = i
  BY DEF MatchOf
<1> QED
  BY <1>1, <1>2, NewestIsRemembered DEF CliInv, MatchInv

LEMMA PollStep == CliInv /\ Poll => CliInv'
<1> SUFFICES ASSUME CliInv, Poll PROVE CliInv'
  OBVIOUS
<1> DEFINE read == {p \in Numbers : stage[p] = "perf"}
           found(ended, i) == {p \in ended : MatchOf(p) = i}
           Matches(ended, m) ==
             \A i \in Numbers : IF found(ended, i) = {} THEN m[i] = matched[i] ELSE m[i] \in found(ended, i)
<1>1. /\ loop' = "receive" /\ ~Reached
      /\ UNCHANGED <<kind, limit, live, tracing, on, pipe, caught, catching, queue, refused, window, output>>
  BY DEF Poll, Halts, inputs
<1>2. PICK ended \in SUBSET {p \in Numbers : stage[p] \in {"perf", "pending"}} :
        /\ stage' = [p \in Numbers |-> IF p \in ended THEN "ended"
                                       ELSE IF p \in read THEN "pending" ELSE stage[p]]
        /\ \/ UNCHANGED matched
           \/ \E m \in [Numbers -> Numbers \union {NoPath}] : Matches(ended, m) /\ matched' = Capped(m)
  BY DEF Poll
<1>3. stage \in [Numbers -> {"none", "perf", "pending", "ended"}]
  BY DEF CliInv, CliTypeOK
<1>4. /\ stage' \in [Numbers -> {"none", "perf", "pending", "ended"}]
      /\ \A p \in Numbers : stage[p] = "ended" => stage'[p] = "ended"
  BY <1>2, <1>3
<1>5. /\ matched' \in [Numbers -> Numbers \union {NoPath}]
      /\ \A i \in Numbers : matched'[i] # NoPath => Had(i)
      /\ Cardinality({i \in Numbers : matched'[i] # NoPath}) <= MatchedMax
  <2>0. MatchedMax \in Nat
    BY CliAssumption
  <2>1. CASE UNCHANGED matched
    BY <2>1 DEF CliInv, CliTypeOK, MatchInv, KeptBounded
  <2>2. ASSUME NEW m \in [Numbers -> Numbers \union {NoPath}], Matches(ended, m), matched' = Capped(m)
        PROVE  /\ matched' \in [Numbers -> Numbers \union {NoPath}]
               /\ \A i \in Numbers : matched'[i] # NoPath => Had(i)
               /\ Cardinality({i \in Numbers : matched'[i] # NoPath}) <= MatchedMax
    <3>1. \A i \in Numbers : m[i] # NoPath => Had(i)
      <4> SUFFICES ASSUME NEW i \in Numbers, m[i] # NoPath PROVE Had(i)
        OBVIOUS
      <4>1. CASE found(ended, i) = {}
        BY <2>2, <4>1 DEF CliInv, MatchInv
      <4>2. CASE found(ended, i) # {}
        <5>1. PICK p \in ended : MatchOf(p) = i
          BY <4>2
        <5> QED
          BY <5>1, MatchIsHad
      <4> QED
        BY <4>1, <4>2
    <3>2. CASE matched' = m /\ ~(Cardinality({i \in Numbers : m[i] # NoPath}) > MatchedMax)
      <4>1. IsFiniteSet(Numbers)
        BY CliAssumption, FS_Interval DEF Numbers
      <4>2. Cardinality({i \in Numbers : m[i] # NoPath}) \in Nat
        BY <4>1, FS_Subset, FS_CardinalityType
      <4> QED
        BY <2>0, <3>1, <3>2, <4>2
    <3>3. CASE matched' = [i \in Numbers |-> NoPath]
      <4>1. {i \in Numbers : matched'[i] # NoPath} = {}
        BY <3>3
      <4> QED
        BY <2>0, <3>3, <4>1, FS_EmptySet
    <3> QED
      BY <2>2, <3>2, <3>3 DEF Capped
  <2> HIDE DEF Matches
  <2> QED
    BY <1>2, <2>1, <2>2
<1>6. CliTypeOK'
  BY <1>1, <1>4, <1>5 DEF CliInv, CliTypeOK
<1>7. QueueInv' /\ LinesInv'
  BY <1>1, LinesKept
<1>8. CountInv'
  BY <1>1, CountKept
<1>9. MatchInv'
  BY <1>1, <1>5, HadKept, MatchKept DEF CliInv, MatchInv, Had, Passed
<1>10. KeptBounded'
  BY <1>1, <1>5 DEF CliInv, KeptBounded
<1>11. PathsInv'
  BY <1>1, <1>4, PathsKept
<1> QED
  BY <1>6, <1>7, <1>8, <1>9, <1>10, <1>11 DEF CliInv

-----------------------------------------------------------------------------
(* A packet is taken.                                                      *)

LEMMA TakenFromQueue ==
  ASSUME CliInv, queue # <<>>, queue' = Tail(queue), UNCHANGED <<kind, caught, refused>>
  PROVE  /\ Head(queue) \in Numbers /\ queue' \in Seq(Numbers) /\ QueueInv'
         /\ \A n \in DOMAIN queue' : Head(queue) < queue'[n]
         /\ \A n \in DOMAIN output : output[n].index < Head(queue)
         /\ \A n \in DOMAIN queue' : \E m \in DOMAIN queue : queue'[n] = queue[m]
         /\ Head(queue) <= caught /\ Head(queue) \notin refused
         /\ ~Passed(Head(queue))
         /\ \A i \in Numbers : Passed(i)' <=> Passed(i) \/ i = Head(queue)
<1>1. queue \in Seq(Numbers) /\ Len(queue) \in Nat /\ DOMAIN queue = 1..Len(queue)
  BY LenProperties DEF CliInv, CliTypeOK
<1>2. /\ Head(queue) = queue[1] /\ Head(queue) \in Numbers /\ Len(queue) # 0
      /\ queue' \in Seq(Numbers) /\ Len(queue') = Len(queue) - 1
      /\ \A n \in 1..Len(queue') : queue'[n] = queue[n + 1]
  BY <1>1, EmptySeq, HeadTailProperties
<1>3. DOMAIN queue' = 1..(Len(queue) - 1)
  BY <1>2, LenProperties
<1>4. 1 \in DOMAIN queue /\ \A n \in DOMAIN queue' : n + 1 \in DOMAIN queue /\ queue'[n] = queue[n + 1] /\ 1 < n + 1
  BY <1>1, <1>2, <1>3
<1>5. \A n \in DOMAIN queue' : Head(queue) < queue'[n]
  BY <1>2, <1>4 DEF CliInv, QueueInv, Rising
<1>6. QueueInv'
  <2>1. ASSUME NEW m \in DOMAIN queue', NEW n \in DOMAIN queue', m < n PROVE queue'[m] < queue'[n]
    <3>1. m + 1 < n + 1
      BY <1>1, <1>3, <2>1
    <3> QED
      BY <1>4, <3>1 DEF CliInv, QueueInv, Rising
  <2> QED
    BY <1>4, <2>1 DEF CliInv, QueueInv, Rising
<1>7. Range(queue) = Range(queue') \union {Head(queue)} /\ Head(queue) \notin Range(queue')
  <2>1. ASSUME NEW n \in DOMAIN queue, n # 1 PROVE \E m \in DOMAIN queue' : queue[n] = queue'[m]
    <3>1. n - 1 \in DOMAIN queue' /\ (n - 1) + 1 = n
      BY <1>1, <1>3, <2>1
    <3> QED
      BY <1>4, <3>1
  <2>2. \A n \in DOMAIN queue' : queue'[n] # Head(queue)
    <3>1. \A n \in DOMAIN queue' : queue'[n] \in Numbers
      BY <1>2, <1>3, ElementOfSeq
    <3> QED
      BY <1>2, <1>5, <3>1 DEF Numbers
  <2> QED
    BY <1>2, <1>4, <2>1, <2>2 DEF Range
<1>8. Head(queue) <= caught /\ Head(queue) \notin refused
  BY <1>2, <1>4 DEF CliInv, QueueInv
<1>9. \A i \in Numbers : Passed(i)' <=> Passed(i) \/ i = Head(queue)
  BY <1>7, <1>8 DEF Passed
<1>10. ~Passed(Head(queue))
  BY <1>7 DEF Passed
<1>11. \A n \in DOMAIN output : output[n].index < Head(queue)
  BY <1>2, <1>4 DEF CliInv, LinesInv
<1> QED
  BY <1>2, <1>4, <1>5, <1>6, <1>8, <1>9, <1>10, <1>11

(* The path for it is one that is pending, which is over then.             *)
LEMMA PathTaken ==
  ASSUME CliInv, NEW i \in Numbers, ~Passed(i), NEW path, PathFor(i, path)
  PROVE  /\ matched' = matched
         /\ stage' \in [Numbers -> {"none", "perf", "pending", "ended"}]
         /\ \A p \in Numbers : stage[p] = "ended" => stage'[p] = "ended"
         /\ path \in Numbers \union {NoPath}
         /\ path # NoPath => /\ path \in Numbers
                             /\ stage[path] = "pending" /\ stage'[path] = "ended"
                             /\ FlowOf(path) \in {FlowOf(i), -FlowOf(i)}
         /\ window' \in {window, Remembered(i)}
<1>1. matched[i] = NoPath
  BY DEF CliInv, MatchInv, Had
<1>2. /\ matched \in [Numbers -> Numbers \union {NoPath}]
      /\ stage \in [Numbers -> {"none", "perf", "pending", "ended"}]
  BY DEF CliInv, CliTypeOK
<1>3. matched' = matched
  <2>1. matched' = [matched EXCEPT ![i] = NoPath]
    BY DEF PathFor
  <2> QED
    BY <1>1, <1>2, <2>1
<1>4. CASE path \in Extractable(i) /\ stage' = Spent(path)
  <2>1. path \in Numbers /\ stage[path] = "pending" /\ FlowOf(path) \in {FlowOf(i), -FlowOf(i)}
    BY <1>4 DEF Extractable
  <2>2. stage' = [stage EXCEPT ![path] = "ended"]
    BY <1>4 DEF Spent
  <2> QED
    BY <1>2, <1>3, <2>1, <2>2 DEF PathFor
<1>5. CASE path = NoPath /\ stage' = stage
  BY <1>2, <1>3, <1>5 DEF PathFor
<1> QED
  BY <1>1, <1>4, <1>5 DEF PathFor

(* The window after a packet was remembered.                               *)
LEMMA RememberedStep ==
  ASSUME CliInv, NEW i \in Numbers
  PROVE  /\ Remembered(i) \in Seq(Numbers) /\ Len(Remembered(i)) <= RecentMax
         /\ \A n \in DOMAIN Remembered(i) :
              Remembered(i)[n] = i \/ \E m \in DOMAIN window : Remembered(i)[n] = window[m]
<1> DEFINE all == Append(window, i)
<1>1. /\ window \in Seq(Numbers) /\ Len(window) \in Nat /\ DOMAIN window = 1..Len(window)
      /\ Len(window) <= RecentMax
  BY LenProperties DEF CliInv, CliTypeOK, KeptBounded
<1>2. RecentMax \in Nat /\ RecentDropped \in 1..RecentMax
  BY CliAssumption
<1>3. /\ all \in Seq(Numbers) /\ Len(all) = Len(window) + 1
      /\ \A n \in 1..Len(window) : all[n] = window[n]
      /\ all[Len(window) + 1] = i
  BY <1>1, AppendProperties
<1>4. Remembered(i) = IF Len(all) > RecentMax THEN SubSeq(all, RecentDropped + 1, Len(all)) ELSE all
  BY DEF Remembered
<1> HIDE DEF all
<1>5. \A n \in 1..Len(all) : all[n] = i \/ \E m \in DOMAIN window : all[n] = window[m]
  <2>1. \A n \in 1..Len(all) : n \in 1..Len(window) \/ n = Len(window) + 1
    BY <1>1, <1>3
  <2> QED
    BY <1>1, <1>3, <2>1
<1>6. CASE ~(Len(all) > RecentMax)
  <2>1. Remembered(i) = all /\ DOMAIN all = 1..Len(all) /\ Len(all) <= RecentMax
    BY <1>1, <1>2, <1>3, <1>4, <1>6, LenProperties
  <2> QED
    BY <1>3, <1>5, <2>1
<1>7. CASE Len(all) > RecentMax
  <2> DEFINE cut == SubSeq(all, RecentDropped + 1, Len(all))
  <2>1. \A n \in (RecentDropped + 1)..Len(all) : n \in 1..Len(all) /\ all[n] \in Numbers
    <3>1. \A n \in (RecentDropped + 1)..Len(all) : n \in 1..Len(all)
      BY <1>1, <1>2, <1>3
    <3> QED
      BY <1>3, <3>1, ElementOfSeq
  <2>2. RecentDropped + 1 \in Int /\ Len(all) \in Int
    BY <1>1, <1>2, <1>3
  <2>3. /\ cut \in Seq(Numbers)
        /\ Len(cut) = IF RecentDropped + 1 <= Len(all) THEN Len(all) - (RecentDropped + 1) + 1 ELSE 0
        /\ \A n \in 1..(Len(all) - (RecentDropped + 1) + 1) : cut[n] = all[RecentDropped + 1 + n - 1]
    BY <2>1, <2>2, SubSeqProperties
  <2> HIDE DEF cut
  <2>4. RecentDropped + 1 <= Len(all) /\ Len(cut) <= RecentMax /\ Len(cut) = Len(all) - RecentDropped
    BY <1>1, <1>2, <1>3, <1>7, <2>3
  <2>5. DOMAIN cut = 1..Len(cut)
    BY <2>3, LenProperties
  <2>6. \A n \in DOMAIN cut : cut[n] = all[RecentDropped + n] /\ RecentDropped + n \in 1..Len(all)
    <3>1. \A n \in DOMAIN cut : /\ n \in 1..(Len(all) - (RecentDropped + 1) + 1)
                                /\ RecentDropped + 1 + n - 1 = RecentDropped + n
                                /\ RecentDropped + n \in 1..Len(all)
      BY <1>1, <1>2, <1>3, <2>4, <2>5
    <3> QED
      BY <2>3, <3>1
  <2>7. Remembered(i) = cut
    BY <1>4, <1>7 DEF cut
  <2> QED
    BY <1>5, <2>3, <2>4, <2>6, <2>7
<1> QED
  BY <1>6, <1>7

(* A packet that the filter does not want.                                 *)
LEMMA UnwantedStep ==
  ASSUME CliInv, queue # <<>>, queue' = Tail(queue), ~kind[Head(queue)].wanted, loop' = "top",
         UNCHANGED <<kind, limit, live, tracing, on, pipe, caught, catching, refused, stage, window,
                     matched, output>>
  PROVE  CliInv'
<1>1. /\ Head(queue) \in Numbers /\ queue' \in Seq(Numbers) /\ QueueInv'
      /\ \A n \in DOMAIN queue' : \E m \in DOMAIN queue : queue'[n] = queue[m]
      /\ \A i \in Numbers : Passed(i)' <=> Passed(i) \/ i = Head(queue)
  BY TakenFromQueue
<1>2. CliTypeOK'
  BY <1>1 DEF CliInv, CliTypeOK
<1>3. \A i \in Numbers : Had(i)' <=> Had(i)
  BY <1>1 DEF Had
<1>4. LinesInv'
  BY <1>1, <1>3 DEF CliInv, LinesInv, Printed
<1>5. CountInv'
  BY CountKept
<1>6. MatchInv' /\ KeptBounded' /\ PathsInv'
  BY <1>3, MatchKept, PathsKept
<1> QED
  BY <1>1, <1>2, <1>4, <1>5, <1>6 DEF CliInv

(* One that it wants, printed or lost with the reader.                     *)
LEMMA WantedStep ==
  ASSUME CliInv, queue # <<>>, queue' = Tail(queue), kind[Head(queue)].wanted,
         Len(output) < limit,
         NEW path, PathFor(Head(queue), path),
         \/ output' = Append(output, [index |-> Head(queue), path |-> path]) /\ loop' = "top"
         \/ ~pipe /\ loop' = "stopping" /\ output' = output,
         UNCHANGED <<kind, limit, live, tracing, on, pipe, caught, catching, refused>>
  PROVE  CliInv'
<1> DEFINE i == Head(queue)  line == [index |-> i, path |-> path]
<1>1. /\ i \in Numbers /\ queue' \in Seq(Numbers) /\ QueueInv'
      /\ \A n \in DOMAIN queue' : i < queue'[n]
      /\ \A n \in DOMAIN output : output[n].index < i
      /\ \A n \in DOMAIN queue' : \E m \in DOMAIN queue : queue'[n] = queue[m]
      /\ i <= caught
      /\ ~Passed(i)
      /\ \A j \in Numbers : Passed(j)' <=> Passed(j) \/ j = i
  BY TakenFromQueue
<1>2. /\ matched' = matched
      /\ stage' \in [Numbers -> {"none", "perf", "pending", "ended"}]
      /\ \A p \in Numbers : stage[p] = "ended" => stage'[p] = "ended"
      /\ path \in Numbers \union {NoPath}
      /\ path # NoPath => /\ path \in Numbers
                          /\ stage[path] = "pending" /\ stage'[path] = "ended"
                          /\ FlowOf(path) \in {FlowOf(i), -FlowOf(i)}
      /\ window' \in {window, Remembered(i)}
  BY <1>1, PathTaken
<1>3. /\ window' \in Seq(Numbers) /\ Len(window') <= RecentMax
      /\ \A n \in DOMAIN window' : window'[n] = i \/ \E m \in DOMAIN window : window'[n] = window[m]
  <2>1. CASE window' = window
    BY <2>1 DEF CliInv, CliTypeOK, KeptBounded
  <2>2. CASE window' = Remembered(i)
    BY <1>1, <2>2, RememberedStep
  <2> QED
    BY <1>2, <2>1, <2>2
<1>4. \A j \in Numbers : Had(j)' <=> Had(j) \/ j = i
  BY <1>1 DEF Had
<1>5. /\ line.index = i /\ line.path = path
      /\ line \in [index : Numbers, path : Numbers \union {NoPath}]
      /\ kind' = kind /\ pipe' = pipe /\ caught' = caught
      /\ \/ output' = Append(output, line) /\ loop' = "top"
         \/ ~pipe /\ loop' = "stopping" /\ output' = output
  BY <1>1, <1>2
<1> HIDE DEF line, i
<1>6. \A n \in DOMAIN window' : window'[n] \in Numbers
  BY <1>3, ElementOfSeq, LenProperties
<1>7. MatchInv'
  <2>1. \A n \in DOMAIN window' : Had(window[n])'
    <3> SUFFICES ASSUME NEW n \in DOMAIN window' PROVE Had(window[n])'
      OBVIOUS
    <3>1. window'[n] \in Numbers /\ (window'[n] = i \/ Had(window'[n]))
      BY <1>3, <1>6 DEF CliInv, MatchInv
    <3>2. PICK j \in Numbers : j = window'[n]
      BY <3>1
    <3>3. Had(j)'
      BY <1>4, <3>1, <3>2
    <3> QED
      BY <3>2, <3>3 DEF Had, Passed
  <2> QED
    BY <1>2, <1>4, <2>1 DEF CliInv, MatchInv
<1>8. KeptBounded'
  BY <1>2, <1>3 DEF CliInv, KeptBounded
<1>9. limit \in Nat /\ Len(output) \in Nat /\ DOMAIN output = 1..Len(output)
  BY CliAssumption, LenProperties DEF CliInv, CliTypeOK
<1>10. /\ output' \in Seq([index : Numbers, path : Numbers \union {NoPath}])
       /\ Len(output') <= limit
       /\ \A n \in DOMAIN output : n \in DOMAIN output' /\ output'[n] = output[n]
       /\ output' # output => \E n \in DOMAIN output' : output'[n] = line
       /\ \A n \in DOMAIN output' :
            n \in DOMAIN output \/ (output'[n] = line /\ \A m \in DOMAIN output' : m <= n /\ (m # n => m \in DOMAIN output))
       /\ output' = output => ~pipe
  <2> DEFINE Line == [index : Numbers, path : Numbers \union {NoPath}]
  <2>1. output \in Seq(Line) /\ line \in Line
    BY <1>5 DEF CliInv, CliTypeOK
  <2> HIDE DEF Line
  <2>2. CASE output' = Append(output, line)
    <3>1. /\ output' \in Seq(Line) /\ Len(output') = Len(output) + 1
          /\ \A n \in 1..Len(output) : output'[n] = output[n]
          /\ output'[Len(output) + 1] = line
      BY <2>1, <2>2, AppendProperties
    <3>2. DOMAIN output' = 1..(Len(output) + 1)
      BY <3>1, LenProperties
    <3>3. output' # output
      BY <1>9, <3>1
    <3>4. \A n \in 1..(Len(output) + 1) : n \in 1..Len(output) \/ n = Len(output) + 1
      BY <1>9
    <3>5. Len(output) + 1 \in DOMAIN output' /\ Len(output') <= limit
      BY <1>9, <3>1, <3>2
    <3>6. \A n \in DOMAIN output : n \in DOMAIN output'
      BY <1>9, <3>2
    <3>7. \A n \in DOMAIN output' :
            n \in DOMAIN output \/ (n = Len(output) + 1 /\ \A m \in DOMAIN output' : m <= n /\ (m # n => m \in DOMAIN output))
      BY <1>9, <3>2
    <3> QED
      BY <1>9, <3>1, <3>3, <3>5, <3>6, <3>7 DEF Line
  <2>3. CASE output' = output /\ ~pipe
    <3>1. Len(output') <= limit
      <4>1. Len(output) <= limit
        BY DEF CliInv, CountInv
      <4> QED
        BY <2>3, <4>1
    <3> QED
      BY <2>1, <2>3, <3>1 DEF Line
  <2> QED
    BY <1>5, <2>2, <2>3
<1>11. CliTypeOK'
  BY <1>1, <1>2, <1>3, <1>5, <1>10 DEF CliInv, CliTypeOK
<1>12. CountInv'
  BY <1>5, <1>10 DEF CountInv
<1>13. LinesInv'
  <2>1. \A m, n \in DOMAIN output' : m < n => output'[m].index < output'[n].index
    <3> SUFFICES ASSUME NEW m \in DOMAIN output', NEW n \in DOMAIN output', m < n
                 PROVE  output'[m].index < output'[n].index
      OBVIOUS
    <3>1. DOMAIN output' \subseteq Int
      BY <1>10, LenProperties
    <3>2. m \in DOMAIN output
      BY <1>10, <3>1
    <3> QED
      BY <1>1, <1>5, <1>10, <3>2 DEF CliInv, LinesInv
  <2>2. \A n \in DOMAIN output' : output'[n].index <= caught'
    BY <1>1, <1>5, <1>10 DEF CliInv, LinesInv
  <2>3. \A n \in DOMAIN output', m \in DOMAIN queue' : output'[n].index < queue'[m]
    BY <1>1, <1>5, <1>10 DEF CliInv, LinesInv
  <2>4. ASSUME NEW j \in Numbers, Had(j)' PROVE (j \in Printed \/ ~pipe)'
    <3>1. CASE j = i
      BY <1>5, <1>10, <3>1 DEF Printed
    <3>2. CASE j # i
      <4>1. j \in Printed \/ ~pipe
        BY <1>4, <2>4, <3>2 DEF CliInv, LinesInv
      <4> QED
        BY <1>5, <1>10, <4>1 DEF Printed
    <3> QED
      BY <3>1, <3>2
  <2> QED
    BY <2>1, <2>2, <2>3, <2>4 DEF LinesInv
<1>14. PathsInv'
  <2> SUFFICES ASSUME NEW n \in DOMAIN output', output'[n].path # NoPath
               PROVE  /\ output'[n].path \in Numbers /\ stage'[output'[n].path] = "ended"
                      /\ FlowOf(output'[n].path) \in {FlowOf(output'[n].index), -FlowOf(output'[n].index)}
                      /\ \A m \in DOMAIN output' : output'[m].path = output'[n].path => m = n
    BY <1>5 DEF PathsInv, FlowOf
  <2>1. CASE n \in DOMAIN output
    <3>1. /\ output'[n] = output[n] /\ output[n].path \in Numbers /\ stage[output[n].path] = "ended"
          /\ FlowOf(output[n].path) \in {FlowOf(output[n].index), -FlowOf(output[n].index)}
          /\ \A m \in DOMAIN output : output[m].path = output[n].path => m = n
      BY <1>10, <2>1 DEF CliInv, PathsInv
    <3>2. output[n].path # path
      BY <1>2, <3>1
    <3>3. \A m \in DOMAIN output' : output'[m].path = output[n].path => m = n
      BY <1>5, <1>10, <3>1, <3>2
    <3> QED
      BY <1>2, <1>5, <3>1, <3>3 DEF FlowOf
  <2>2. CASE n \notin DOMAIN output
    <3>1. output'[n] = line /\ \A m \in DOMAIN output' : m # n => m \in DOMAIN output
      BY <1>10, <2>2
    <3>2. path # NoPath /\ path \in Numbers /\ stage[path] = "pending" /\ stage'[path] = "ended"
          /\ FlowOf(path) \in {FlowOf(i), -FlowOf(i)}
      BY <1>2, <1>5, <3>1
    <3>3. \A m \in DOMAIN output : output[m].path # path
      BY <3>2 DEF CliInv, PathsInv
    <3>4. \A m \in DOMAIN output' : output'[m].path = path => m = n
      BY <1>10, <3>1, <3>3
    <3> QED
      BY <1>5, <3>1, <3>2, <3>4 DEF FlowOf
  <2> QED
    BY <2>1, <2>2
<1> QED
  BY <1>1, <1>7, <1>8, <1>11, <1>12, <1>13, <1>14 DEF CliInv

LEMMA PrintStep == CliInv /\ PrintNext => CliInv'
<1> SUFFICES ASSUME CliInv, PrintNext PROVE CliInv'
  OBVIOUS
<1>1. /\ queue # <<>> /\ queue' = Tail(queue)
      /\ UNCHANGED <<kind, limit, live, tracing, on, pipe, caught, catching, refused>>
  BY DEF PrintNext, inputs
<1>2. CASE ~kind[Head(queue)].wanted
  BY <1>1, <1>2, UnwantedStep DEF PrintNext, pathParts
<1>3. CASE kind[Head(queue)].wanted
  <2>1. Len(output) < limit
    <3>1. limit \in Nat /\ Len(output) \in Nat
      BY CliAssumption, LenProperties DEF CliInv, CliTypeOK
    <3>2. loop = "receive" \/ ~Reached
      BY DEF PrintNext, Halts
    <3> QED
      BY <3>1, <3>2 DEF CliInv, CountInv, Reached
  <2>2. PICK path : /\ PathFor(Head(queue), path)
                    /\ \/ output' = Append(output, [index |-> Head(queue), path |-> path]) /\ loop' = "top"
                       \/ ~pipe /\ loop' = "stopping" /\ output' = output
    BY <1>3 DEF PrintNext
  <2> QED
    BY <1>1, <1>3, <2>1, <2>2, WantedStep
<1> QED
  BY <1>2, <1>3

LEMMA CliStep == CliInv /\ [CliNext]_cliVars => CliInv'
<1>1. CliInv /\ UNCHANGED cliVars => CliInv'
  <2> SUFFICES ASSUME CliInv, UNCHANGED cliVars PROVE CliInv'
    OBVIOUS
  <2>1. UNCHANGED <<kind, limit, live, tracing, on, pipe, loop, caught, catching, queue, refused,
                    stage, window, matched, output>>
    BY DEF cliVars
  <2>2. CliTypeOK'
    BY <2>1 DEF CliInv, CliTypeOK
  <2>3. QueueInv' /\ LinesInv' /\ CountInv'
    BY <2>1, LinesKept, CountKept
  <2>4. MatchInv' /\ KeptBounded' /\ PathsInv'
    BY <2>1, HadKept, MatchKept, PathsKept
  <2> QED
    BY <2>2, <2>3, <2>4 DEF CliInv
<1> QED
  BY <1>1, CatchStep, OutsideStep, StageStep, PollStep, PrintStep DEF CliNext, CliLoop

(* The lines of the command line mode: in order, complete up to the count, *)
(* each path with one packet and of its flow, and never a path that ended  *)
(* too late; what is kept for matching is bounded (run_live, run_file).    *)
THEOREM LinesInOrder == CliSpec => []CliOutput
<1>1. CliInv => CliOutput
  <2> SUFFICES ASSUME CliInv PROVE CliOutput
    OBVIOUS
  <2>1. PrintsInOrder
    <3>1. DOMAIN output = 1..Len(output) /\ Len(output) \in Nat
      BY LenProperties DEF CliInv, CliTypeOK
    <3>2. \A n \in 2..Len(output) : n - 1 \in DOMAIN output /\ n \in DOMAIN output /\ n - 1 < n
      BY <3>1
    <3> QED
      BY <3>2 DEF CliInv, CountInv, LinesInv, Had, PrintsInOrder
  <2>2. LateIsTooLate
    BY DEF CliInv, MatchInv, LinesInv, LateIsTooLate
  <2>3. PathPrintedOnce
    BY DEF CliInv, PathsInv, PathPrintedOnce
  <2> QED
    BY <2>1, <2>2, <2>3 DEF CliInv, CliOutput
<1> QED
  BY <1>1, CliInitially, CliStep, PTL DEF CliSpec

-----------------------------------------------------------------------------
(* Paths through the kernel.  First what loops over sequences compute: the *)
(* models write them as functions of the number of steps.                  *)

(* Induction on numbers, from a well founded relation.                     *)
LEMMA SetInduction ==
  ASSUME NEW S \in SUBSET Nat, 0 \in S, \A k \in S : k + 1 \in S
  PROVE  S = Nat
<1> DEFINE R == OpToRel(<, Nat)
           T == Nat \ S
<1>1. IsWellFoundedOn(R, Nat)
  BY NatLessThanWellFounded
<1>2. \A x, y \in Nat : x < y => <<x, y>> \in R
  BY DEF OpToRel
<1> SUFFICES ASSUME T # {} PROVE FALSE
  OBVIOUS
<1> HIDE DEF R
<1>3. PICK x \in T : \A y \in T : ~ (<<y, x>> \in R)
  <2>1. T \subseteq Nat
    OBVIOUS
  <2> QED
    BY <1>1, <2>1, WFMin, Zenon
<1>4. x - 1 \in Nat /\ x - 1 < x /\ (x - 1) + 1 = x
  BY <1>3
<1>5. x - 1 \notin T
  BY <1>2, <1>3, <1>4
<1> QED
  BY <1>3, <1>4, <1>5

(* Induction up to k, along the steps of a loop.                           *)
LEMMA Counting ==
  ASSUME NEW k \in Nat, NEW G, 0 \in G, \A n \in 1..k : n - 1 \in G => n \in G
  PROVE  0..k \subseteq G
<1> DEFINE S == {n \in Nat : n <= k => n \in G}
<1>1. 0 \in S
  OBVIOUS
<1>2. ASSUME NEW n \in S PROVE n + 1 \in S
  <2>1. n \in Nat /\ n + 1 \in Nat /\ (n + 1) - 1 = n
    OBVIOUS
  <2>2. ASSUME n + 1 <= k PROVE n + 1 \in G
    <3>1. n <= k /\ n + 1 \in 1..k
      BY <2>1, <2>2
    <3> QED
      BY <2>1, <3>1
  <2> QED
    BY <2>1, <2>2
<1>3. S \in SUBSET Nat
  OBVIOUS
<1> HIDE DEF S
<1>4. S = Nat
  BY <1>1, <1>2, <1>3, SetInduction
<1> SUFFICES ASSUME NEW n \in 0..k PROVE n \in G
  OBVIOUS
<1>5. n \in S /\ n <= k
  BY <1>4
<1> QED
  BY <1>5 DEF S

(* A loop of k steps from a value, whose states are in S, has a run.       *)
Runs(u, k, S, base, step) ==
  /\ u \in [0..k -> S] /\ u[0] = base
  /\ \A n \in 1..k : u[n] = step[n][u[n - 1]]

LEMMA LoopRuns ==
  ASSUME NEW k \in Nat, NEW S, NEW base \in S, NEW step \in [1..k -> [S -> S]]
  PROVE  \E u : Runs(u, k, S, base, step)
<1> DEFINE Part(u, m) == /\ u \in [0..m -> S] /\ u[0] = base
                         /\ \A n \in 1..m : u[n] = step[n][u[n - 1]]
           G == {m \in 0..k : \E u : Part(u, m)}
<1>1. 0 \in G
  <2>1. Part([n \in 0..0 |-> base], 0)
    OBVIOUS
  <2> HIDE DEF Part
  <2> QED
    BY <2>1
<1>2. ASSUME NEW m \in 1..k, m - 1 \in G PROVE m \in G
  <2>1. m - 1 \in 0..k /\ m \in 0..k /\ m - 1 \in Nat /\ m \in Nat
    OBVIOUS
  <2>2. PICK u : Part(u, m - 1)
    BY <1>2
  <2> DEFINE last == step[m][u[m - 1]]
             v == [n \in 0..m |-> IF n = m THEN last ELSE u[n]]
  <2>3. u[m - 1] \in S /\ last \in S
    <3>1. u[m - 1] \in S
      BY <2>1, <2>2
    <3>2. step[m] \in [S -> S]
      OBVIOUS
    <3> QED
      BY <3>1, <3>2
  <2> HIDE DEF last
  <2>4. \A n \in 0..m : n # m => n \in 0..(m - 1)
    BY <2>1
  <2>5. v \in [0..m -> S]
    BY <2>2, <2>3, <2>4
  <2>6. v[m] = last /\ \A n \in 0..(m - 1) : v[n] = u[n]
    BY <2>1
  <2>7. v[0] = base
    BY <2>1, <2>2, <2>6
  <2> HIDE DEF v
  <2>8. ASSUME NEW n \in 1..m PROVE v[n] = step[n][v[n - 1]]
    <3>1. n - 1 \in 0..(m - 1) /\ v[n - 1] = u[n - 1]
      BY <2>1, <2>6
    <3>2. CASE n = m
      BY <2>6, <3>1, <3>2 DEF last
    <3>3. CASE n # m
      <4>1. n \in 1..(m - 1) /\ n \in 0..(m - 1)
        BY <2>1, <3>3
      <4> QED
        BY <2>2, <2>6, <3>1, <4>1
    <3> QED
      BY <3>2, <3>3
  <2>9. Part(v, m)
    BY <2>5, <2>7, <2>8
  <2> HIDE DEF Part
  <2> QED
    BY <2>1, <2>9
<1> HIDE DEF G
<1>3. 0..k \subseteq G
  BY <1>1, <1>2, Counting
<1>4. k \in G
  BY <1>3
<1> QED
  BY <1>4 DEF G, Runs

-----------------------------------------------------------------------------
(* Lists of events.                                                        *)

LEMMA FunIsSeq ==
  ASSUME NEW S, NEW n \in Nat, NEW x \in [1..n -> S]
  PROVE  x \in Seq(S) /\ Len(x) = n
<1>1. x \in Seq(S)
  BY SeqDef, Zenon
<1>2. Len(x) \in Nat /\ 1..Len(x) = 1..n
  BY <1>1, LenProperties
<1> QED
  BY <1>1, <1>2

Times(x) == {x[i].at : i \in DOMAIN x}
Apart(x, y) == Times(x) \intersect Times(y) = {}
Once(x) == \A i, j \in DOMAIN x : x[i].at = x[j].at => i = j
Sorted(x) == \A i, j \in DOMAIN x : i < j => x[i].at < x[j].at
SameHosts(e, f) == e.flow.src = f.flow.src /\ e.flow.dst = f.flow.dst

(* A list of events of one pair of hosts, at some of the times T, each at  *)
(* its own; and one in order.                                              *)
Track(x, T) ==
  /\ x \in Seq(Event) /\ Times(x) \subseteq T /\ Once(x)
  /\ \A i, j \in DOMAIN x : SameHosts(x[i], x[j])

IsPath(x, T) == Track(x, T) /\ x # <<>> /\ Sorted(x)

LEMMA PathBounds ==
  /\ Hops \in Nat /\ PerfMax \in Nat /\ PollMax \in Nat /\ IdleAge \in Nat /\ SweepAge \in Nat
  /\ PendingMax \in Nat /\ CompletedMax \in Nat /\ Window \in Nat
  /\ PendingDropped \in 1..PendingMax /\ CompletedDropped \in 1..CompletedMax
  /\ WindowDropped \in 1..Window
BY BoundAssumption

LEMMA EventForm ==
  ASSUME NEW e \in Event
  PROVE  e.at \in Nat /\ e.skb \in Skb /\ e.packet \in Packet
BY DEF Event

LEMMA TrackOfMore ==
  ASSUME NEW x, NEW T, NEW U, Track(x, T), T \subseteq U
  PROVE  Track(x, U)
BY DEF Track

LEMMA EmptyTrack ==
  ASSUME NEW T
  PROVE  Track(<<>>, T) /\ Times(<<>>) = {}
<1>1. <<>> \in Seq(Event) /\ DOMAIN <<>> = {}
  BY EmptySeq
<1> QED
  BY <1>1 DEF Track, Times, Once

LEMMA TrackOfOne ==
  ASSUME NEW e \in Event
  PROVE  Track(<<e>>, {e.at}) /\ Times(<<e>>) = {e.at}
<1>1. <<e>> \in Seq(Event) /\ DOMAIN <<e>> = {1} /\ <<e>>[1] = e
  OBVIOUS
<1> QED
  BY <1>1 DEF Track, Times, Once, SameHosts

LEMMA TrackGrows ==
  ASSUME NEW x, NEW T, Track(x, T), NEW e \in Event, e.at \notin T,
         x # <<>> => SameHosts(x[1], e)
  PROVE  /\ Track(Append(x, e), T \union {e.at}) /\ Append(x, e) # <<>>
         /\ Times(Append(x, e)) = Times(x) \union {e.at}
<1> DEFINE y == Append(x, e)
<1>1. /\ x \in Seq(Event) /\ Len(x) \in Nat /\ DOMAIN x = 1..Len(x)
  BY LenProperties DEF Track
<1>2. /\ y \in Seq(Event) /\ y # <<>> /\ Len(y) = Len(x) + 1 /\ y[Len(x) + 1] = e
      /\ \A i \in 1..Len(x) : y[i] = x[i]
  BY <1>1, AppendProperties
<1>3. DOMAIN y = 1..(Len(x) + 1)
  BY <1>2, LenProperties
<1> HIDE DEF y
<1>4. \A i \in DOMAIN y : (i \in DOMAIN x /\ y[i] = x[i]) \/ (i = Len(x) + 1 /\ y[i] = e)
  BY <1>1, <1>2, <1>3
<1>5. DOMAIN x \subseteq DOMAIN y /\ Len(x) + 1 \in DOMAIN y
  BY <1>1, <1>3
<1>6. Times(y) = Times(x) \union {e.at}
  BY <1>1, <1>2, <1>4, <1>5 DEF Times
<1>7. Once(y)
  <2>1. \A i \in DOMAIN x : x[i].at # e.at
    BY DEF Track, Times
  <2> QED
    BY <1>4, <2>1 DEF Once, Track
<1>8. \A i \in DOMAIN x : SameHosts(x[i], e)
  <2> SUFFICES ASSUME NEW i \in DOMAIN x PROVE SameHosts(x[i], e)
    OBVIOUS
  <2>1. x # <<>> /\ 1 \in DOMAIN x
    BY <1>1, EmptySeq
  <2> QED
    BY <2>1 DEF Track, SameHosts
<1>9. \A i, j \in DOMAIN y : SameHosts(y[i], y[j])
  BY <1>4, <1>8 DEF Track, SameHosts
<1>10. Times(y) \subseteq T \union {e.at}
  BY <1>6 DEF Track
<1> QED
  BY <1>2, <1>6, <1>7, <1>9, <1>10 DEF y, Track

LEMMA SortedIsOnce ==
  ASSUME NEW x \in Seq(Event), Sorted(x)
  PROVE  Once(x)
<1>1. DOMAIN x = 1..Len(x) /\ Len(x) \in Nat /\ \A i \in DOMAIN x : x[i].at \in Nat
  BY LenProperties, ElementOfSeq, EventForm
<1> QED
  BY <1>1 DEF Sorted, Once

-----------------------------------------------------------------------------
(* build_path.                                                             *)

(* The events of a list, in order of time.                                 *)
LEMMA BuildPathSorts ==
  ASSUME NEW x, NEW T, Track(x, T), x # <<>>
  PROVE  /\ IsPath(BuildPath(x), T) /\ Times(BuildPath(x)) \subseteq Times(x)
         /\ \A i \in DOMAIN BuildPath(x) : \E j \in DOMAIN x : BuildPath(x)[i] = x[j]
<1> DEFINE n == Len(x)
           rank == [i \in 1..n |-> Cardinality(Earlier(x, i)) + 1]
           y == BuildPath(x)
<1>1. /\ x \in Seq(Event) /\ n \in Nat /\ DOMAIN x = 1..n
      /\ \A i \in 1..n : x[i] \in Event /\ x[i].at \in Nat
  <2>1. x \in Seq(Event) /\ n \in Nat /\ DOMAIN x = 1..n
    BY LenProperties DEF Track
  <2>2. \A i \in 1..n : x[i] \in Event
    BY <2>1, ElementOfSeq
  <2> QED
    BY <2>1, <2>2, EventForm
<1>2. IsFiniteSet(1..n) /\ Cardinality(1..n) = n
  BY <1>1, FS_Interval
<1>3. ASSUME NEW i \in 1..n
      PROVE  /\ IsFiniteSet(Earlier(x, i)) /\ Cardinality(Earlier(x, i)) \in Nat
             /\ Cardinality(Earlier(x, i)) + 1 <= n
  <2>1. Earlier(x, i) \subseteq (1..n) \ {i}
    BY <1>1 DEF Earlier
  <2>2. IsFiniteSet((1..n) \ {i}) /\ Cardinality((1..n) \ {i}) = n - 1
    BY <1>2, FS_RemoveElement
  <2>3. /\ IsFiniteSet(Earlier(x, i)) /\ Cardinality(Earlier(x, i)) \in Nat
        /\ Cardinality(Earlier(x, i)) <= n - 1
    BY <2>1, <2>2, FS_Subset, FS_CardinalityType
  <2> QED
    BY <1>1, <2>3
<1>4. rank \in [1..n -> 1..n]
  BY <1>1, <1>3
<1>5. ASSUME NEW i \in 1..n, NEW j \in 1..n, x[i].at < x[j].at
      PROVE  rank[i] < rank[j]
  <2>1. Earlier(x, i) \subseteq Earlier(x, j) /\ i \in Earlier(x, j) /\ i \notin Earlier(x, i)
    BY <1>1, <1>5 DEF Earlier
  <2>2. /\ IsFiniteSet(Earlier(x, i) \union {i})
        /\ Cardinality(Earlier(x, i) \union {i}) = Cardinality(Earlier(x, i)) + 1
    BY <1>3, <2>1, FS_AddElement
  <2>3. Cardinality(Earlier(x, i) \union {i}) <= Cardinality(Earlier(x, j))
    <3>1. Earlier(x, i) \union {i} \in SUBSET Earlier(x, j)
      BY <2>1
    <3> QED
      BY <1>3, <3>1, FS_Subset
  <2> QED
    BY <1>3, <2>2, <2>3
<1> HIDE DEF rank
<1>6. \A i, j \in 1..n : i # j => x[i].at < x[j].at \/ x[j].at < x[i].at
  BY <1>1 DEF Track, Once
<1>7. \A i, j \in 1..n : i # j => rank[i] # rank[j]
  <2> SUFFICES ASSUME NEW i \in 1..n, NEW j \in 1..n, i # j PROVE rank[i] # rank[j]
    OBVIOUS
  <2>1. rank[i] < rank[j] \/ rank[j] < rank[i]
    BY <1>5, <1>6
  <2> QED
    BY <1>4, <2>1
<1>8. rank \in Surjection(1..n, 1..n)
  <2>1. rank \in Injection(1..n, 1..n)
    BY <1>4, <1>7 DEF Injection, IsInjective
  <2> QED
    BY <1>2, <2>1, FS_Injection
<1> DEFINE at(m) == CHOOSE i \in DOMAIN x : Cardinality(Earlier(x, i)) + 1 = m
<1>9. ASSUME NEW m \in 1..n PROVE at(m) \in 1..n /\ rank[at(m)] = m
  <2>1. \E i \in 1..n : rank[i] = m
    BY <1>8 DEF Surjection
  <2>2. \E i \in DOMAIN x : Cardinality(Earlier(x, i)) + 1 = m
    BY <1>1, <2>1 DEF rank
  <2>3. at(m) \in DOMAIN x /\ Cardinality(Earlier(x, at(m))) + 1 = m
    BY <2>2
  <2> QED
    BY <1>1, <2>3 DEF rank
<1>10. y = [m \in 1..n |-> x[at(m)]]
  BY <1>1 DEF BuildPath
<1> HIDE DEF at, y
<1>11. y \in Seq(Event) /\ DOMAIN y = 1..n /\ y # <<>>
  <2>1. y \in [1..n -> Event]
    BY <1>1, <1>9, <1>10
  <2>2. y \in Seq(Event)
    BY <1>1, <2>1, SeqDef, Zenon
  <2>3. DOMAIN y = 1..n /\ 1 \in 1..n
    BY <1>1, <2>1, EmptySeq DEF Track
  <2> QED
    BY <2>2, <2>3
<1>12. \A i \in DOMAIN y : \E j \in DOMAIN x : y[i] = x[j]
  BY <1>1, <1>9, <1>10, <1>11
<1>13. Sorted(y)
  <2> SUFFICES ASSUME NEW i \in 1..n, NEW j \in 1..n, i < j PROVE y[i].at < y[j].at
    BY <1>11 DEF Sorted
  <2>1. at(i) \in 1..n /\ at(j) \in 1..n /\ rank[at(i)] = i /\ rank[at(j)] = j
    BY <1>9
  <2>2. at(i) # at(j) /\ ~(rank[at(j)] < rank[at(i)])
    BY <1>1, <2>1
  <2>3. x[at(i)].at < x[at(j)].at
    BY <1>5, <1>6, <2>1, <2>2
  <2> QED
    BY <1>10, <2>3
<1>14. Times(y) \subseteq Times(x)
  BY <1>12 DEF Times
<1>15. Track(y, T)
  <2>1. \A i, j \in DOMAIN y : SameHosts(y[i], y[j])
    BY <1>12, Zenon DEF Track
  <2> QED
    BY <1>11, <1>13, <1>14, <2>1, SortedIsOnce DEF Track
<1> QED
  BY <1>11, <1>12, <1>13, <1>14, <1>15 DEF IsPath, y

-----------------------------------------------------------------------------
(* The aggregator, on its state.  All its events are at different times in *)
(* T, those of an address between one pair of hosts.                       *)

AggState == [pending : [Skb -> Seq(Event)], age : [Skb -> 0..IdleAge], completed : Seq(Seq(Event))]

Kept(pend, T) ==
  /\ \A k \in Skb : Track(pend[k], T)
  /\ \A k, l \in Skb : k # l => Apart(pend[k], pend[l])

Completed(done, T) ==
  /\ \A i \in DOMAIN done : IsPath(done[i], T)
  /\ \A i, j \in DOMAIN done : i # j => Apart(done[i], done[j])

AggOK(s, T) ==
  /\ s \in AggState /\ Kept(s.pending, T) /\ Completed(s.completed, T)
  /\ \A k \in Skb, i \in DOMAIN s.completed : Apart(s.pending[k], s.completed[i])

LEMMA ApartParts ==
  ASSUME NEW x, NEW y, NEW v, NEW w, Apart(x, y), Times(v) \subseteq Times(x), Times(w) \subseteq Times(y)
  PROVE  Apart(v, w) /\ Apart(w, v)
BY DEF Apart

LEMMA AggForm ==
  ASSUME NEW s \in AggState
  PROVE  /\ s = [pending |-> s.pending, age |-> s.age, completed |-> s.completed]
         /\ s.pending \in [Skb -> Seq(Event)] /\ s.age \in [Skb -> 0..IdleAge]
         /\ s.completed \in Seq(Seq(Event)) /\ Len(s.completed) \in Nat
         /\ DOMAIN s.completed = 1..Len(s.completed)
<1>1. /\ s = [pending |-> s.pending, age |-> s.age, completed |-> s.completed]
      /\ s.pending \in [Skb -> Seq(Event)] /\ s.age \in [Skb -> 0..IdleAge]
      /\ s.completed \in Seq(Seq(Event))
  BY DEF AggState
<1> QED
  BY <1>1, LenProperties

LEMMA AggMore ==
  ASSUME NEW s, NEW T, NEW U, AggOK(s, T), T \subseteq U
  PROVE  AggOK(s, U)
<1>1. \A x : Track(x, T) => Track(x, U)
  BY TrackOfMore
<1>2. \A x : IsPath(x, T) => IsPath(x, U)
  BY <1>1 DEF IsPath
<1> QED
  BY <1>1, <1>2 DEF AggOK, Kept, Completed

(* A finished path is added to those there are.                            *)
LEMMA CompletedMore ==
  ASSUME NEW done \in Seq(Seq(Event)), NEW T, Completed(done, T),
         NEW x, IsPath(x, T), \A i \in DOMAIN done : Apart(x, done[i])
  PROVE  /\ Append(done, x) \in Seq(Seq(Event)) /\ Completed(Append(done, x), T)
         /\ \A i \in DOMAIN Append(done, x) :
              (i \in DOMAIN done /\ Append(done, x)[i] = done[i]) \/ Append(done, x)[i] = x
<1> DEFINE d == Append(done, x)
<1>1. Len(done) \in Nat /\ DOMAIN done = 1..Len(done)
  BY LenProperties
<1>2. x \in Seq(Event)
  BY DEF IsPath, Track
<1>3. /\ d \in Seq(Seq(Event)) /\ Len(d) = Len(done) + 1 /\ d[Len(done) + 1] = x
      /\ \A i \in 1..Len(done) : d[i] = done[i]
  BY <1>1, <1>2, AppendProperties
<1>4. DOMAIN d = 1..(Len(done) + 1)
  BY <1>3, LenProperties
<1> HIDE DEF d
<1>5. \A i \in DOMAIN d : (i \in DOMAIN done /\ d[i] = done[i]) \/ (i = Len(done) + 1 /\ d[i] = x)
  BY <1>1, <1>3, <1>4
<1>6. \A i \in DOMAIN d : IsPath(d[i], T)
  BY <1>5 DEF Completed
<1>7. \A i \in DOMAIN done : Apart(done[i], x) /\ Apart(x, done[i])
  BY DEF Apart
<1>8. \A i, j \in DOMAIN d : i # j => Apart(d[i], d[j])
  BY <1>5, <1>7 DEF Completed
<1> QED
  BY <1>3, <1>5, <1>6, <1>8 DEF d, Completed

(* ingest, for one event.                                                  *)
LEMMA IngestKeeps ==
  ASSUME NEW s, NEW T, AggOK(s, T), NEW e \in Event, e.at \notin T
  PROVE  AggOK(IngestOne(s, e), T \union {e.at})
<1> DEFINE U == T \union {e.at}
           k == e.skb
           old == s.pending[k]
           reused == old # <<>> /\ <<old[1].flow.src, old[1].flow.dst>> # <<e.flow.src, e.flow.dst>>
           new == IF reused THEN <<e>> ELSE Append(old, e)
           done == IF reused THEN Append(s.completed, BuildPath(old)) ELSE s.completed
           pend == [s.pending EXCEPT ![k] = new]
<1>1. s \in AggState /\ k \in Skb /\ e.at \in Nat /\ AggOK(s, U)
  BY EventForm, AggMore DEF AggOK
<1>2. Track(old, T) /\ Track(old, U) /\ old \in Seq(Event)
  BY <1>1 DEF AggOK, Kept, Track
<1>3. Track(new, U) /\ Times(new) \subseteq Times(old) \union {e.at} /\ (reused => Times(new) = {e.at})
  <2>1. CASE reused
    <3>1. Track(<<e>>, {e.at}) /\ Times(<<e>>) = {e.at}
      BY TrackOfOne
    <3>2. Track(<<e>>, U)
      BY <3>1, TrackOfMore
    <3> QED
      BY <2>1, <3>1, <3>2
  <2>2. CASE ~reused
    <3>1. old # <<>> => SameHosts(old[1], e)
      BY <2>2 DEF SameHosts
    <3> HIDE DEF old
    <3>2. Track(Append(old, e), U) /\ Times(Append(old, e)) = Times(old) \union {e.at}
      BY <1>2, <3>1, TrackGrows
    <3> QED
      BY <2>2, <3>2
  <2> QED
    BY <2>1, <2>2
<1>4. pend \in [Skb -> Seq(Event)] /\ pend[k] = new /\ \A l \in Skb \ {k} : pend[l] = s.pending[l]
  BY <1>1, <1>3, AggForm DEF Track
<1>5. \A x : Track(x, T) => e.at \notin Times(x)
  BY DEF Track
<1>6. \A i \in DOMAIN s.completed : Track(s.completed[i], T) /\ IsPath(s.completed[i], T)
  BY DEF AggOK, Completed, IsPath
<1>7. \A l \in Skb : Track(s.pending[l], T)
  BY DEF AggOK, Kept
<1> HIDE DEF new, pend, U
<1>8. Kept(pend, U)
  <2>1. \A l \in Skb : Track(pend[l], U)
    BY <1>1, <1>3, <1>4 DEF AggOK, Kept
  <2>2. ASSUME NEW l \in Skb \ {k} PROVE Apart(new, s.pending[l]) /\ Apart(s.pending[l], new)
    <3>1. Apart(old, s.pending[l]) /\ e.at \notin Times(s.pending[l])
      BY <1>1, <1>5, <1>7 DEF AggOK, Kept
    <3>2. Times(new) \subseteq Times(old) \union {e.at}
      BY <1>3
    <3> HIDE DEF old
    <3> QED
      BY <3>1, <3>2 DEF Apart
  <2>3. \A l, m \in Skb : l # m => Apart(pend[l], pend[m])
    BY <1>4, <2>2, SMTT(20) DEF AggOK, Kept
  <2> QED
    BY <2>1, <2>3 DEF Kept
<1>9. /\ done \in Seq(Seq(Event)) /\ Completed(done, U)
      /\ \A l \in Skb, i \in DOMAIN done : Apart(pend[l], done[i])
  <2>1. \A i \in DOMAIN s.completed : Apart(new, s.completed[i])
    BY <1>1, <1>3, <1>5, <1>6 DEF AggOK, Apart
  <2>2. \A l \in Skb, i \in DOMAIN s.completed : Apart(pend[l], s.completed[i])
    BY <1>4, <2>1 DEF AggOK
  <2>3. CASE ~reused
    <3>1. done = s.completed
      BY <2>3
    <3>2. s.completed \in Seq(Seq(Event)) /\ Completed(s.completed, U)
      BY <1>1, AggForm DEF AggOK
    <3> QED
      BY <2>2, <3>1, <3>2
  <2>4. CASE reused
    <3> DEFINE x == BuildPath(old)
    <3>1. IsPath(x, U) /\ Times(x) \subseteq Times(old)
      <4> HIDE DEF old
      <4> QED
        BY <1>2, <2>4, BuildPathSorts
    <3>2. s.completed \in Seq(Seq(Event)) /\ Completed(s.completed, U)
      BY <1>1, AggForm DEF AggOK
    <3>3. \A i \in DOMAIN s.completed : Apart(x, s.completed[i])
      BY <1>1, <3>1 DEF AggOK, Apart
    <3>4. \A l \in Skb : Apart(pend[l], x)
      <4>1. Apart(new, x)
        BY <1>2, <1>3, <1>5, <2>4, <3>1 DEF Apart
      <4>2. \A l \in Skb \ {k} : Apart(s.pending[l], x)
        BY <1>1, <3>1 DEF AggOK, Kept, Apart
      <4> QED
        BY <1>4, <4>1, <4>2
    <3>5. done = Append(s.completed, x)
      BY <2>4
    <3> HIDE DEF x, old, done
    <3>6. /\ done \in Seq(Seq(Event)) /\ Completed(done, U)
          /\ \A i \in DOMAIN done : (i \in DOMAIN s.completed /\ done[i] = s.completed[i]) \/ done[i] = x
      BY <3>1, <3>2, <3>3, <3>5, CompletedMore
    <3> QED
      BY <2>2, <3>4, <3>6
  <2> QED
    BY <2>3, <2>4
<1>10. IngestOne(s, e) = [pending |-> pend, age |-> [s.age EXCEPT ![k] = 0], completed |-> done]
  BY DEF IngestOne, pend, new
<1>11. [s.age EXCEPT ![k] = 0] \in [Skb -> 0..IdleAge]
  <2>1. 0 \in 0..IdleAge /\ s.age \in [Skb -> 0..IdleAge]
    BY <1>1, AggForm, PathBounds
  <2> QED
    BY <2>1
<1> HIDE DEF done, k
<1>12. IngestOne(s, e) \in AggState
  BY <1>4, <1>9, <1>10, <1>11 DEF AggState
<1> QED
  BY <1>8, <1>9, <1>10, <1>12 DEF AggOK, U
(* ingest, for many events: U(n) are the times of the first n.             *)
FirstTimes(q, n) == {q[i].at : i \in 1..n}

LEMMA IngestLoop ==
  ASSUME NEW q \in Seq(Event), Once(q), NEW s, NEW T, AggOK(s, T), Times(q) \intersect T = {},
         NEW u, u[0] = s,
         \A n \in 1..Len(q) : AggOK(u[n - 1], T \union FirstTimes(q, n - 1)) => u[n] = IngestOne(u[n - 1], q[n])
  PROVE  \A n \in 0..Len(q) : AggOK(u[n], T \union FirstTimes(q, n))
<1> DEFINE G == {n \in 0..Len(q) : AggOK(u[n], T \union FirstTimes(q, n))}
<1>1. Len(q) \in Nat /\ DOMAIN q = 1..Len(q)
  BY LenProperties
<1>2. 0 \in G
  <2>1. FirstTimes(q, 0) = {}
    BY DEF FirstTimes
  <2> QED
    BY <1>1, <2>1, SMTT(20)
<1>3. ASSUME NEW n \in 1..Len(q), n - 1 \in G PROVE n \in G
  <2> DEFINE U == T \union FirstTimes(q, n - 1)
  <2>1. /\ AggOK(u[n - 1], U) /\ u[n] = IngestOne(u[n - 1], q[n]) /\ q[n] \in Event
    BY <1>3, ElementOfSeq
  <2>2. q[n].at \notin U
    <3>1. q[n].at \notin T
      BY <1>1 DEF Times
    <3>2. \A i \in 1..(n - 1) : i \in DOMAIN q /\ n \in DOMAIN q /\ i # n
      BY <1>1
    <3>3. q[n].at \notin FirstTimes(q, n - 1)
      BY <3>2 DEF FirstTimes, Once
    <3> QED
      BY <3>1, <3>3
  <2>3. U \union {q[n].at} = T \union FirstTimes(q, n)
    <3>1. \A i : i \in 1..n <=> i \in 1..(n - 1) \/ i = n
      BY <1>1
    <3>2. FirstTimes(q, n) = FirstTimes(q, n - 1) \union {q[n].at}
      BY <3>1 DEF FirstTimes
    <3> QED
      BY <3>2
  <2> HIDE DEF U
  <2>4. AggOK(u[n], U \union {q[n].at})
    BY <2>1, <2>2, IngestKeeps
  <2>5. AggOK(u[n], T \union FirstTimes(q, n))
    BY <2>3, <2>4
  <2> QED
    BY <1>1, <2>5
<1> HIDE DEF G
<1>4. 0..Len(q) \subseteq G
  BY <1>1, <1>2, <1>3, Counting
<1> QED
  BY <1>4 DEF G

LEMMA IngestedKeeps ==
  ASSUME NEW q \in Seq(Event), Once(q), NEW s, NEW T, AggOK(s, T), Times(q) \intersect T = {}
  PROVE  AggOK(Ingested(s, q), T \union Times(q))
<1> DEFINE OneMore(u, n) == IF n = 0 THEN s ELSE IngestOne(u[n - 1], q[n])
           w == CHOOSE u : u = [n \in 0..Len(q) |-> OneMore(u, n)]
           Result(x, n) == IF IngestOne(x, q[n]) \in AggState THEN IngestOne(x, q[n]) ELSE s
           step == [n \in 1..Len(q) |-> [x \in AggState |-> Result(x, n)]]
<1>1. Len(q) \in Nat /\ DOMAIN q = 1..Len(q) /\ s \in AggState
  BY LenProperties DEF AggOK
<1>2. step \in [1..Len(q) -> [AggState -> AggState]]
  BY <1>1
<1>3. \A n \in 1..Len(q), x \in AggState : step[n][x] = Result(x, n)
  OBVIOUS
<1> HIDE DEF step
<1>4. PICK r : Runs(r, Len(q), AggState, s, step)
  BY <1>1, <1>2, LoopRuns
<1>5. \A n \in 1..Len(q) : AggOK(r[n - 1], T \union FirstTimes(q, n - 1)) => r[n] = IngestOne(r[n - 1], q[n])
  <2> SUFFICES ASSUME NEW n \in 1..Len(q), AggOK(r[n - 1], T \union FirstTimes(q, n - 1))
               PROVE  r[n] = IngestOne(r[n - 1], q[n])
    OBVIOUS
  <2>1. r[n - 1] \in AggState /\ n - 1 \in 0..Len(q) /\ n \in DOMAIN q /\ q[n] \in Event
    BY <1>1, ElementOfSeq DEF AggOK
  <2>2. q[n].at \notin T \union FirstTimes(q, n - 1)
    <3>1. \A i \in 1..(n - 1) : i \in DOMAIN q /\ i # n
      BY <1>1
    <3> QED
      BY <2>1, <3>1 DEF FirstTimes, Once, Times
  <2>3. IngestOne(r[n - 1], q[n]) \in AggState
    BY <2>1, <2>2, IngestKeeps DEF AggOK
  <2>4. r[n] = step[n][r[n - 1]]
    BY <1>4 DEF Runs
  <2> QED
    BY <1>3, <2>1, <2>3, <2>4
<1>6. r[0] = s /\ r \in [0..Len(q) -> AggState]
  BY <1>4 DEF Runs
<1>7. \A n \in 0..Len(q) : AggOK(r[n], T \union FirstTimes(q, n))
  BY <1>5, <1>6, IngestLoop
<1>8. r = [n \in 0..Len(q) |-> OneMore(r, n)]
  <2>1. ASSUME NEW n \in 0..Len(q), n # 0 PROVE r[n] = IngestOne(r[n - 1], q[n])
    <3>1. n \in 1..Len(q) /\ n - 1 \in 0..Len(q)
      BY <1>1, <2>1
    <3> QED
      BY <1>5, <1>7, <3>1
  <2> QED
    BY <1>6, <2>1
<1>9. w = [n \in 0..Len(q) |-> OneMore(w, n)]
  BY <1>8
<1>10. Ingested(s, q) = w[Len(q)]
  BY DEF Ingested
<1> HIDE DEF w
<1>11. w[0] = s /\ \A n \in 1..Len(q) : w[n] = IngestOne(w[n - 1], q[n])
  <2>1. 0 \in 0..Len(q) /\ \A n \in 1..Len(q) : n \in 0..Len(q) /\ n # 0
    BY <1>1
  <2> QED
    BY <1>9, <2>1
<1>12. AggOK(w[Len(q)], T \union FirstTimes(q, Len(q)))
  <2>1. Len(q) \in 0..Len(q)
    BY <1>1
  <2> QED
    BY <1>11, <2>1, IngestLoop
<1>13. FirstTimes(q, Len(q)) = Times(q)
  BY <1>1 DEF FirstTimes, Times
<1> QED
  BY <1>10, <1>12, <1>13

-----------------------------------------------------------------------------
(* expire_paths and flush.                                                 *)

(* Addresses in some order, each once, that have events.                   *)
Ordered(s, keys) ==
  /\ keys \in Seq(Skb)
  /\ \A i, j \in DOMAIN keys : keys[i] = keys[j] => i = j
  /\ \A i \in DOMAIN keys : s.pending[keys[i]] # <<>>

(* An order of a finite set has each of its elements once.                 *)
LEMMA OrderOnce ==
  ASSUME NEW S, IsFiniteSet(S), NEW q \in Orders(S)
  PROVE  /\ q \in Seq(S) /\ Len(q) = Cardinality(S) /\ DOMAIN q = 1..Cardinality(S) /\ Cardinality(S) \in Nat
         /\ \A i \in DOMAIN q : q[i] \in S
         /\ \A i, j \in DOMAIN q : q[i] = q[j] => i = j
         /\ Range(q) = S
<1> DEFINE n == Cardinality(S)
<1>1. n \in Nat
  BY FS_CardinalityType
<1>2. q \in [1..n -> S] /\ Range(q) = S /\ DOMAIN q = 1..n
  BY DEF Orders
<1>3. q \in Seq(S) /\ Len(q) = n
  BY <1>1, <1>2, FunIsSeq
<1>4. q \in Surjection(1..n, S)
  <2>1. \A t \in S : \E i \in 1..n : q[i] = t
    BY <1>2 DEF Range
  <2> QED
    BY <1>2, <2>1 DEF Surjection
<1>5. IsFiniteSet(1..n) /\ Cardinality(1..n) = n
  BY <1>1, FS_Interval
<1>6. q \in Injection(1..n, S)
  BY <1>4, <1>5, FS_SurjSameCardinalityImpliesInj
<1>7. \A i, j \in 1..n : q[i] = q[j] => i = j
  BY <1>2, <1>6 DEF Injection, IsInjective
<1> QED
  BY <1>1, <1>2, <1>3, <1>7

LEMMA OrdersOnce ==
  ASSUME NEW S \in SUBSET Skb, NEW q \in Orders(S)
  PROVE  /\ q \in Seq(Skb) /\ Len(q) = Cardinality(S) /\ DOMAIN q = 1..Cardinality(S) /\ Cardinality(S) \in Nat
         /\ \A i \in DOMAIN q : q[i] \in S
         /\ \A i, j \in DOMAIN q : q[i] = q[j] => i = j
         /\ Range(q) = S
<1>1. IsFiniteSet(S)
  BY BoundAssumption, FS_Subset
<1>2. /\ q \in Seq(S) /\ Len(q) = Cardinality(S) /\ DOMAIN q = 1..Cardinality(S) /\ Cardinality(S) \in Nat
      /\ \A i \in DOMAIN q : q[i] \in S
      /\ \A i, j \in DOMAIN q : q[i] = q[j] => i = j
      /\ Range(q) = S
  BY <1>1, OrderOnce
<1> QED
  BY <1>2, SeqMonotonic

LEMMA FinishKeeps ==
  ASSUME NEW s, NEW T, AggOK(s, T), NEW keys, Ordered(s, keys)
  PROVE  AggOK(Finish(s, keys), T)
<1> DEFINE pend == [k \in Skb |-> IF k \in Range(keys) THEN <<>> ELSE s.pending[k]]
           more == [i \in DOMAIN keys |-> BuildPath(s.pending[keys[i]])]
           L == Len(s.completed)
           done == s.completed \o more
<1>1. /\ s \in AggState /\ s.completed \in Seq(Seq(Event)) /\ L \in Nat /\ DOMAIN s.completed = 1..L
      /\ s.age \in [Skb -> 0..IdleAge]
  BY AggForm DEF AggOK
<1>2. /\ Len(keys) \in Nat /\ DOMAIN keys = 1..Len(keys)
      /\ \A i \in DOMAIN keys : keys[i] \in Skb
  BY LenProperties, ElementOfSeq DEF Ordered
<1>3. ASSUME NEW i \in DOMAIN keys
      PROVE  IsPath(more[i], T) /\ Times(more[i]) \subseteq Times(s.pending[keys[i]])
  <2>1. Track(s.pending[keys[i]], T) /\ s.pending[keys[i]] # <<>>
    BY <1>2 DEF AggOK, Kept, Ordered
  <2>2. IsPath(BuildPath(s.pending[keys[i]]), T) /\ Times(BuildPath(s.pending[keys[i]])) \subseteq Times(s.pending[keys[i]])
    BY <2>1, BuildPathSorts
  <2> QED
    BY <2>2
<1>4. more \in Seq(Seq(Event)) /\ Len(more) = Len(keys)
  <2>1. more \in [1..Len(keys) -> Seq(Event)]
    <3>1. \A i \in DOMAIN keys : more[i] \in Seq(Event)
      BY <1>3 DEF IsPath, Track
    <3> QED
      BY <1>2, <3>1
  <2>2. more \in Seq(Seq(Event)) /\ DOMAIN more = 1..Len(keys)
    <3>1. Len(keys) \in Nat /\ more \in [1..Len(keys) -> Seq(Event)]
      BY <1>2, <2>1
    <3> HIDE DEF more
    <3>2. more \in Seq(Seq(Event))
      <4> DEFINE S == Seq(Event)
      <4>1. more \in [1..Len(keys) -> S]
        BY <3>1
      <4> HIDE DEF S
      <4>2. more \in Seq(S)
        BY <3>1, <4>1, FunIsSeq
      <4> QED
        BY <4>2 DEF S
    <3> QED
      BY <3>1, <3>2
  <2>3. Len(more) \in Nat /\ DOMAIN more = 1..Len(more)
    BY <2>2, LenProperties
  <2> QED
    BY <1>2, <2>2, <2>3
<1> HIDE DEF more, pend
<1>5. /\ done \in Seq(Seq(Event)) /\ DOMAIN done = 1..(L + Len(keys))
      /\ \A i \in 1..(L + Len(keys)) : done[i] = IF i <= L THEN s.completed[i] ELSE more[i - L]
  <2>1. /\ done \in Seq(Seq(Event)) /\ Len(done) = L + Len(keys)
        /\ \A i \in 1..(L + Len(keys)) : done[i] = IF i <= L THEN s.completed[i] ELSE more[i - L]
    <3> DEFINE c == s.completed
    <3>1. c \in Seq(Seq(Event)) /\ more \in Seq(Seq(Event)) /\ Len(c) = L /\ Len(more) = Len(keys)
      BY <1>1, <1>4
    <3> HIDE DEF c
    <3>2. /\ c \o more \in Seq(Seq(Event)) /\ Len(c \o more) = Len(c) + Len(more)
          /\ \A i \in 1..(Len(c) + Len(more)) : (c \o more)[i] = IF i <= Len(c) THEN c[i] ELSE more[i - Len(c)]
      BY <3>1, ConcatProperties
    <3> HIDE DEF L
    <3>3. /\ c \o more \in Seq(Seq(Event)) /\ Len(c \o more) = L + Len(keys)
          /\ \A i \in 1..(L + Len(keys)) : (c \o more)[i] = IF i <= L THEN c[i] ELSE more[i - L]
      BY <3>1, <3>2
    <3> QED
      BY <3>3 DEF c
  <2> QED
    BY <2>1, LenProperties
<1> HIDE DEF done
<1>6. \A i \in DOMAIN done : \/ i \in DOMAIN s.completed /\ done[i] = s.completed[i]
                             \/ i > L /\ i - L \in DOMAIN keys /\ done[i] = more[i - L]
  BY <1>1, <1>2, <1>5, SMTT(20)
<1>7. \A i \in DOMAIN done : IsPath(done[i], T)
  BY <1>3, <1>6 DEF AggOK, Completed
<1>8. \A i \in DOMAIN s.completed, j \in DOMAIN keys : Apart(s.completed[i], more[j]) /\ Apart(more[j], s.completed[i])
  BY <1>2, <1>3 DEF AggOK, Apart
<1>9. ASSUME NEW i \in DOMAIN keys, NEW j \in DOMAIN keys, i # j PROVE Apart(more[i], more[j])
  <2>1. keys[i] # keys[j] /\ keys[i] \in Skb /\ keys[j] \in Skb
    BY <1>2, <1>9 DEF Ordered
  <2>2. Apart(s.pending[keys[i]], s.pending[keys[j]])
    BY <2>1 DEF AggOK, Kept
  <2> QED
    BY <1>3, <2>2, ApartParts
<1>10. ASSUME NEW i \in DOMAIN done, NEW j \in DOMAIN done, i # j PROVE Apart(done[i], done[j])
  <2>1. CASE i \in DOMAIN s.completed /\ done[i] = s.completed[i]
    <3>1. CASE j \in DOMAIN s.completed /\ done[j] = s.completed[j]
      BY <1>10, <2>1, <3>1 DEF AggOK, Completed
    <3>2. CASE j - L \in DOMAIN keys /\ done[j] = more[j - L]
      BY <1>8, <2>1, <3>2
    <3> QED
      BY <1>6, <3>1, <3>2
  <2>2. CASE i > L /\ i - L \in DOMAIN keys /\ done[i] = more[i - L]
    <3>1. CASE j \in DOMAIN s.completed /\ done[j] = s.completed[j]
      BY <1>8, <2>2, <3>1
    <3>2. CASE j > L /\ j - L \in DOMAIN keys /\ done[j] = more[j - L]
      <4>1. i - L # j - L
        BY <1>1, <1>5, <1>10
      <4> QED
        BY <1>9, <2>2, <3>2, <4>1
    <3> QED
      BY <1>6, <3>1, <3>2
  <2> QED
    BY <1>6, <2>1, <2>2
<1>11. /\ pend \in [Skb -> Seq(Event)]
       /\ \A k \in Skb : pend[k] = <<>> \/ (pend[k] = s.pending[k] /\ k \notin Range(keys))
  <2>1. \A k \in Skb : s.pending[k] \in Seq(Event)
    BY <1>1, AggForm
  <2> QED
    BY <2>1, EmptySeq DEF pend
<1>12. Kept(pend, T)
  <2>1. Track(<<>>, T) /\ Times(<<>>) = {}
    BY EmptyTrack
  <2>2. \A k \in Skb : Track(pend[k], T)
    BY <1>11, <2>1 DEF AggOK, Kept
  <2>3. \A k, l \in Skb : k # l => Apart(pend[k], pend[l])
    BY <1>11, <2>1 DEF AggOK, Kept, Apart
  <2> QED
    BY <2>2, <2>3 DEF Kept
<1>13. ASSUME NEW k \in Skb, NEW i \in DOMAIN done PROVE Apart(pend[k], done[i])
  <2>1. CASE pend[k] = <<>>
    BY <2>1, EmptyTrack DEF Apart
  <2>2. CASE pend[k] = s.pending[k] /\ k \notin Range(keys)
    <3>1. CASE i \in DOMAIN s.completed /\ done[i] = s.completed[i]
      BY <2>2, <3>1 DEF AggOK
    <3>2. CASE i - L \in DOMAIN keys /\ done[i] = more[i - L]
      <4>1. keys[i - L] # k /\ keys[i - L] \in Skb
        BY <1>2, <2>2, <3>2 DEF Range
      <4>2. Apart(s.pending[k], s.pending[keys[i - L]])
        BY <4>1 DEF AggOK, Kept
      <4> QED
        BY <1>3, <2>2, <3>2, <4>2, ApartParts
    <3> QED
      BY <1>6, <3>1, <3>2
  <2> QED
    BY <1>11, <2>1, <2>2
<1>14. Finish(s, keys) = [pending |-> pend, age |-> s.age, completed |-> done]
  BY DEF Finish, pend, done, more
<1>15. Finish(s, keys) \in AggState
  BY <1>1, <1>5, <1>11, <1>14 DEF AggState
<1> QED
  BY <1>7, <1>10, <1>12, <1>13, <1>14, <1>15 DEF AggOK, Completed
LEMMA HeldInOrder ==
  ASSUME NEW s, NEW S \in SUBSET Held(s), NEW q \in Orders(S)
  PROVE  Ordered(s, q)
<1>1. S \in SUBSET Skb
  BY DEF Held
<1>2. /\ q \in Seq(Skb) /\ \A i \in DOMAIN q : q[i] \in S
      /\ \A i, j \in DOMAIN q : q[i] = q[j] => i = j
  BY <1>1, OrdersOnce
<1> QED
  BY <1>2 DEF Ordered, Held

LEMMA CapPendingKeeps ==
  ASSUME NEW s, NEW T, AggOK(s, T), NEW t \in CapPending(s)
  PROVE  AggOK(t, T)
<1>1. CASE Cardinality(Held(s)) <= PendingMax
  BY <1>1 DEF CapPending
<1>2. CASE ~(Cardinality(Held(s)) <= PendingMax)
  <2>1. PICK q \in Orders(Held(s)) : t = Finish(s, SubSeq(q, 1, PendingDropped))
    BY <1>2 DEF CapPending
  <2>2. Held(s) \in SUBSET Skb /\ Held(s) \in SUBSET Held(s)
    BY DEF Held
  <2>3. /\ q \in Seq(Skb) /\ Len(q) = Cardinality(Held(s)) /\ DOMAIN q = 1..Len(q) /\ Len(q) \in Nat
    BY <2>2, OrdersOnce
  <2>4. PendingDropped \in Nat /\ PendingDropped >= 1 /\ PendingDropped <= Len(q)
    BY <1>2, <2>3, PathBounds
  <2> DEFINE r == SubSeq(q, 1, PendingDropped)
  <2>5. /\ r \in Seq(Skb) /\ Len(r) = PendingDropped
        /\ \A i \in 1..PendingDropped : r[i] = q[i]
    <3>1. \A i \in 1..PendingDropped : q[i] \in Skb
      BY <2>3, <2>4, ElementOfSeq
    <3>2. PendingDropped \in Int /\ 1 \in Int /\ PendingDropped - 1 + 1 = PendingDropped
      BY <2>4
    <3>3. /\ r \in Seq(Skb) /\ Len(r) = (IF 1 <= PendingDropped THEN PendingDropped - 1 + 1 ELSE 0)
          /\ \A i \in 1..(PendingDropped - 1 + 1) : r[i] = q[1 + i - 1]
      BY <3>1, <3>2, SubSeqProperties
    <3> QED
      BY <2>4, <3>3
  <2>6. DOMAIN r = 1..PendingDropped
    BY <2>5, LenProperties
  <2> HIDE DEF r
  <2>7. Ordered(s, q)
    BY <2>2, HeldInOrder
  <2>8. \A i \in DOMAIN r : i \in DOMAIN q /\ r[i] = q[i]
    BY <2>3, <2>4, <2>5, <2>6
  <2>9. Ordered(s, r)
    BY <2>5, <2>7, <2>8 DEF Ordered
  <2>10. t = Finish(s, r)
    BY <2>1 DEF r
  <2> QED
    BY <2>9, <2>10, FinishKeeps
<1> QED
  BY <1>1, <1>2

LEMMA CapCompletedKeeps ==
  ASSUME NEW s, NEW T, AggOK(s, T)
  PROVE  AggOK(CapCompleted(s), T)
<1> DEFINE c == s.completed
           d == SubSeq(c, CompletedDropped + 1, Len(c))
<1>1. CASE Len(c) <= CompletedMax
  BY <1>1 DEF CapCompleted
<1>2. CASE ~(Len(c) <= CompletedMax)
  <2>1. s \in AggState /\ c \in Seq(Seq(Event)) /\ Len(c) \in Nat /\ DOMAIN c = 1..Len(c)
    BY AggForm DEF AggOK
  <2>2. CompletedDropped \in Nat /\ CompletedDropped >= 1 /\ CompletedDropped < Len(c)
    BY <1>2, <2>1, PathBounds
  <2> DEFINE m == CompletedDropped + 1  n == Len(c) - CompletedDropped
  <2>3. m \in Int /\ Len(c) \in Int /\ m <= Len(c) /\ n \in Nat /\ n = Len(c) - m + 1
    BY <2>1, <2>2
  <2>4. \A i \in m..Len(c) : c[i] \in Seq(Event)
    <3>1. \A i \in m..Len(c) : i \in 1..Len(c)
      BY <2>1, <2>2
    <3> QED
      BY <2>1, <3>1, ElementOfSeq
  <2> HIDE DEF c
  <2>5. /\ d \in Seq(Seq(Event)) /\ Len(d) = n
        /\ \A i \in 1..n : d[i] = c[m + i - 1]
    <3> DEFINE S == Seq(Event)
    <3>1. \A i \in m..Len(c) : c[i] \in S
      BY <2>4
    <3> HIDE DEF S
    <3>2. /\ SubSeq(c, m, Len(c)) \in Seq(S)
          /\ Len(SubSeq(c, m, Len(c))) = (IF m <= Len(c) THEN Len(c) - m + 1 ELSE 0)
          /\ \A i \in 1..(Len(c) - m + 1) : SubSeq(c, m, Len(c))[i] = c[m + i - 1]
      BY <2>3, <3>1, SubSeqProperties
    <3>3. d \in Seq(Seq(Event))
      BY <3>2 DEF S
    <3> QED
      BY <2>3, <3>2, <3>3
  <2>6. DOMAIN d = 1..n
    BY <2>5, LenProperties
  <2>7. \A i \in DOMAIN d : m + i - 1 \in DOMAIN c /\ d[i] = c[m + i - 1]
    BY <2>1, <2>2, <2>3, <2>5, <2>6, SMTT(20)
  <2> DEFINE t == [s EXCEPT !.completed = d]
  <2>8. CapCompleted(s) = t
    BY <1>2 DEF CapCompleted, c
  <2> HIDE DEF d
  <2>9. t \in AggState /\ t.completed = d /\ t.pending = s.pending
    BY <2>1, <2>5 DEF AggState
  <2>10. \A i, j \in DOMAIN d : i # j => m + i - 1 # m + j - 1
    BY <2>3, <2>6
  <2>11. Completed(d, T)
    <3>1. Completed(c, T)
      BY DEF AggOK, c
    <3>2. \A i \in DOMAIN d : IsPath(d[i], T)
      BY <2>7, <3>1 DEF Completed
    <3>3. ASSUME NEW i \in DOMAIN d, NEW j \in DOMAIN d, i # j PROVE Apart(d[i], d[j])
      <4>1. m + i - 1 \in DOMAIN c /\ m + j - 1 \in DOMAIN c /\ m + i - 1 # m + j - 1
        BY <2>7, <2>10, <3>3
      <4>2. Apart(c[m + i - 1], c[m + j - 1])
        BY <3>1, <4>1 DEF Completed
      <4> QED
        BY <2>7, <4>2
    <3> QED
      BY <3>2, <3>3 DEF Completed
  <2>12. \A k \in Skb, i \in DOMAIN d : Apart(s.pending[k], d[i])
    <3>1. \A k \in Skb, i \in DOMAIN c : Apart(s.pending[k], c[i])
      BY DEF AggOK, c
    <3> QED
      BY <2>7, <3>1
  <2>13. Kept(s.pending, T)
    BY DEF AggOK
  <2> HIDE DEF t
  <2>14. AggOK(t, T)
    BY <2>9, <2>11, <2>12, <2>13 DEF AggOK
  <2> QED
    BY <2>8, <2>14
<1> QED
  BY <1>1, <1>2

LEMMA ExpireKeeps ==
  ASSUME NEW s, NEW T, AggOK(s, T), NEW t \in ExpirePaths(s)
  PROVE  AggOK(t, T)
<1> DEFINE idle == {k \in Held(s) : s.age[k] >= IdleAge}
<1>1. PICK v \in UNION {CapPending(Finish(s, q)) : q \in Orders(idle)} : t = CapCompleted(v)
  BY DEF ExpirePaths
<1>2. PICK q \in Orders(idle) : v \in CapPending(Finish(s, q))
  BY <1>1
<1>3. Ordered(s, q)
  <2>1. idle \in SUBSET Held(s)
    OBVIOUS
  <2> HIDE DEF idle
  <2> QED
    BY <2>1, HeldInOrder
<1>4. AggOK(Finish(s, q), T)
  BY <1>3, FinishKeeps
<1>5. AggOK(v, T)
  BY <1>2, <1>4, CapPendingKeeps
<1> QED
  BY <1>1, <1>5, CapCompletedKeeps

(* flush finishes everything.                                              *)
LEMMA FlushKeeps ==
  ASSUME NEW s, NEW T, AggOK(s, T), NEW q \in Orders(Held(s))
  PROVE  AggOK(Finish(s, q), T) /\ \A k \in Skb : Finish(s, q).pending[k] = <<>>
<1>1. Held(s) \in SUBSET Held(s) /\ Held(s) \in SUBSET Skb
  BY DEF Held
<1>2. AggOK(Finish(s, q), T)
  BY <1>1, HeldInOrder, FinishKeeps
<1>3. Range(q) = Held(s)
  BY <1>1, OrdersOnce
<1>4. \A k \in Skb : Finish(s, q).pending[k] = IF k \in Range(q) THEN <<>> ELSE s.pending[k]
  BY DEF Finish
<1> QED
  BY <1>2, <1>3, <1>4 DEF Held

-----------------------------------------------------------------------------
(* Matching.                                                               *)

ShownPaths == [Packet -> Seq(Event) \union {None}]

LEMMA PacketForm ==
  /\ Packet = 1..Len(Flow) /\ Len(Flow) \in Nat /\ None \notin Packet
  /\ \A p \in Packet : /\ Flow[p] \in [src : STRING, dst : STRING, ports : STRING \ {"unset"}]
                       /\ Flow[p] \in Range(Flow) /\ Flow[p] # None
<1>1. Packet = 1..Len(Flow) /\ Len(Flow) \in Nat
  BY FlowAssumption, LenProperties DEF Packet
<1>2. \A p \in Packet : Flow[p] \in [src : STRING, dst : STRING, ports : STRING \ {"unset"}]
  BY <1>1, FlowAssumption, ElementOfSeq
<1>3. \A p \in Packet : Flow[p] \in Range(Flow)
  BY DEF Packet, Range
<1> QED
  BY <1>1, <1>2, <1>3, NoneAssumption

LEMMA NewestIsLast ==
  ASSUME recent \in Seq(Packet), NEW f
  PROVE  /\ Newest(f) # None =>
              \E i \in DOMAIN recent : /\ Newest(f) = recent[i] /\ Flow[recent[i]] = f /\ recent[i] \in Packet
                                       /\ \A j \in DOMAIN recent : Flow[recent[j]] = f => j <= i
         /\ (\E i \in DOMAIN recent : Flow[recent[i]] = f) => Newest(f) # None
<1> DEFINE same == {i \in DOMAIN recent : Flow[recent[i]] = f}
           last == CHOOSE i \in same : \A j \in same : j <= i
<1>1. /\ Len(recent) \in Nat /\ DOMAIN recent = 1..Len(recent)
      /\ \A i \in DOMAIN recent : recent[i] \in Packet
  BY LenProperties, ElementOfSeq
<1>2. Newest(f) = IF same = {} THEN None ELSE recent[last]
  BY DEF Newest
<1>3. same # {} => last \in same /\ \A j \in same : j <= last
  <2>1. same \in SUBSET (1..Len(recent))
    BY <1>1
  <2> HIDE DEF same
  <2>2. same # {} => \E i \in same : \A j \in same : j <= i
    BY <1>1, <2>1, GreatestExists
  <2> QED
    BY <2>2
<1> HIDE DEF last
<1> QED
  BY <1>1, <1>2, <1>3, PacketForm

(* A path is matched to a remembered packet of its flow, or of the reverse *)
(* one if there is none.                                                   *)
LEMMA MatchedIsRecent ==
  ASSUME recent \in Seq(Packet), NEW path, Matched(path) # None
  PROVE  \E i \in DOMAIN recent :
           /\ Matched(path) = recent[i] /\ recent[i] \in Packet
           /\ Flow[recent[i]] \in {path[1].flow, Mirror(path[1].flow)}
           /\ Flow[recent[i]] = path[1].flow =>
                \A j \in DOMAIN recent : Flow[recent[j]] = Flow[recent[i]] => j <= i
<1> DEFINE f == path[1].flow
<1>1. CASE Newest(f) # None
  <2>1. Matched(path) = Newest(f)
    BY <1>1 DEF Matched
  <2> HIDE DEF f
  <2>2. PICK i \in DOMAIN recent : /\ Newest(f) = recent[i] /\ Flow[recent[i]] = f /\ recent[i] \in Packet
                                   /\ \A j \in DOMAIN recent : Flow[recent[j]] = f => j <= i
    BY <1>1, NewestIsLast
  <2> QED
    BY <2>1, <2>2 DEF f
<1>2. CASE Newest(f) = None
  <2> DEFINE g == Mirror(f)
  <2>1. Matched(path) = Newest(g)
    BY <1>2 DEF Matched
  <2> HIDE DEF g, f
  <2>2. PICK i \in DOMAIN recent : /\ Newest(g) = recent[i] /\ Flow[recent[i]] = g /\ recent[i] \in Packet
                                   /\ \A j \in DOMAIN recent : Flow[recent[j]] = g => j <= i
    BY <2>1, NewestIsLast
  <2> QED
    BY <2>1, <2>2 DEF f, g
<1> QED
  BY <1>1, <1>2
(* Each path that is shown was there before or is one of the new ones,     *)
(* matched to its packet.                                                  *)
StoredOf(store, done, n) ==
  /\ store \in ShownPaths
  /\ \A p \in Packet :
       store[p] = paths[p] \/ \E m \in 1..n : store[p] = done[m] /\ Matched(done[m]) = p

LEMMA StoreOneStep ==
  ASSUME NEW done \in Seq(Seq(Event)), NEW n \in 1..Len(done), NEW store, StoredOf(store, done, n - 1)
  PROVE  StoredOf(StoreOne(store, done[n]), done, n)
<1>1. Len(done) \in Nat /\ n \in Nat /\ done[n] \in Seq(Event)
  <2> DEFINE S == Seq(Event)
  <2>1. done \in Seq(S)
    OBVIOUS
  <2> HIDE DEF S
  <2>2. Len(done) \in Nat /\ done[n] \in S
    BY <2>1, LenProperties, ElementOfSeq
  <2> QED
    BY <2>2 DEF S
<1>2. \A m \in 1..(n - 1) : m \in 1..n
  BY <1>1
<1>3. CASE Matched(done[n]) = None
  BY <1>2, <1>3 DEF StoreOne, StoredOf
<1>4. CASE Matched(done[n]) # None
  <2> DEFINE next == [store EXCEPT ![Matched(done[n])] = done[n]]
  <2>1. store \in ShownPaths /\ StoreOne(store, done[n]) = next
    BY <1>4 DEF StoredOf, StoreOne
  <2>2. next \in ShownPaths
    BY <1>1, <2>1 DEF ShownPaths
  <2>3. \A p \in Packet : next[p] = store[p] \/ (next[p] = done[n] /\ Matched(done[n]) = p)
    BY <2>1 DEF ShownPaths
  <2> HIDE DEF next
  <2>4. n \in 1..n
    BY <1>1
  <2>5. \A p \in Packet : next[p] = paths[p] \/ \E m \in 1..n : next[p] = done[m] /\ Matched(done[m]) = p
    BY <1>2, <2>3, <2>4 DEF StoredOf
  <2> QED
    BY <2>1, <2>2, <2>5 DEF StoredOf
<1> QED
  BY <1>3, <1>4

LEMMA StoredIsMatched ==
  ASSUME paths \in ShownPaths, NEW done \in Seq(Seq(Event))
  PROVE  StoredOf(Stored(done), done, Len(done))
<1> DEFINE OneMore(u, n) == IF n = 0 THEN paths ELSE StoreOne(u[n - 1], done[n])
           w == CHOOSE u : u = [n \in 0..Len(done) |-> OneMore(u, n)]
           step == [n \in 1..Len(done) |-> [x \in ShownPaths |-> StoreOne(x, done[n])]]
<1>1. Len(done) \in Nat /\ DOMAIN done = 1..Len(done) /\ \A n \in 1..Len(done) : done[n] \in Seq(Event)
  <2> DEFINE S == Seq(Event)
  <2>1. done \in Seq(S)
    OBVIOUS
  <2> HIDE DEF S
  <2>2. Len(done) \in Nat /\ DOMAIN done = 1..Len(done) /\ \A n \in 1..Len(done) : done[n] \in S
    BY <2>1, LenProperties, ElementOfSeq
  <2> QED
    BY <2>2 DEF S
<1>2. \A x \in ShownPaths, n \in 1..Len(done) : StoreOne(x, done[n]) \in ShownPaths
  BY <1>1 DEF StoreOne, ShownPaths
<1>3. step \in [1..Len(done) -> [ShownPaths -> ShownPaths]]
  BY <1>2
<1>4. \A n \in 1..Len(done), x \in ShownPaths : step[n][x] = StoreOne(x, done[n])
  OBVIOUS
<1> HIDE DEF step
<1>5. PICK r : Runs(r, Len(done), ShownPaths, paths, step)
  BY <1>1, <1>3, LoopRuns
<1>6. r = [n \in 0..Len(done) |-> OneMore(r, n)]
  <2>1. r[0] = paths /\ r \in [0..Len(done) -> ShownPaths]
    BY <1>5 DEF Runs
  <2>2. ASSUME NEW n \in 0..Len(done), n # 0 PROVE r[n] = StoreOne(r[n - 1], done[n])
    <3>1. n \in 1..Len(done) /\ n - 1 \in 0..Len(done)
      BY <1>1, <2>2
    <3>2. r[n] = step[n][r[n - 1]] /\ r[n - 1] \in ShownPaths
      BY <1>5, <2>1, <3>1 DEF Runs
    <3> QED
      BY <1>4, <3>1, <3>2
  <2> QED
    BY <2>1, <2>2
<1>7. w = [n \in 0..Len(done) |-> OneMore(w, n)]
  BY <1>6
<1>8. Stored(done) = w[Len(done)]
  BY DEF Stored
<1> HIDE DEF w
<1> DEFINE G == {n \in 0..Len(done) : StoredOf(w[n], done, n)}
<1>9. 0 \in G
  <2>1. 0 \in 0..Len(done)
    BY <1>1
  <2>2. w[0] = paths
    BY <1>7, <2>1
  <2>3. StoredOf(paths, done, 0)
    BY DEF StoredOf
  <2> QED
    BY <2>1, <2>2, <2>3
<1>10. ASSUME NEW n \in 1..Len(done), n - 1 \in G PROVE n \in G
  <2>1. n \in 0..Len(done) /\ n # 0
    BY <1>1
  <2>2. w[n] = StoreOne(w[n - 1], done[n])
    BY <1>7, <2>1
  <2>3. StoredOf(w[n - 1], done, n - 1)
    BY <1>10
  <2>4. StoredOf(w[n], done, n)
    BY <2>2, <2>3, StoreOneStep
  <2> QED
    BY <2>1, <2>4
<1> HIDE DEF G
<1>11. 0..Len(done) \subseteq G
  BY <1>1, <1>9, <1>10, Counting
<1>12. Len(done) \in G
  BY <1>1, <1>11
<1> QED
  BY <1>8, <1>12 DEF G

-----------------------------------------------------------------------------
(* Reading the perf buffers.                                               *)

LEMMA CpuOrderOnce ==
  /\ Cardinality(Cpu) \in Nat /\ DOMAIN CpuOrder = 1..Cardinality(Cpu)
  /\ \A n \in 1..Cardinality(Cpu) : CpuOrder[n] \in Cpu
  /\ \A m, n \in 1..Cardinality(Cpu) : CpuOrder[m] = CpuOrder[n] => m = n
<1> DEFINE k == Cardinality(Cpu)
<1>1. IsFiniteSet(Cpu) /\ k \in Nat /\ ExistsBijection(1..k, Cpu)
  BY BoundAssumption, FS_CardinalityType
<1>2. PICK f \in Bijection(1..k, Cpu) : TRUE
  BY <1>1 DEF ExistsBijection
<1>3. f \in [1..k -> Cpu] /\ Range(f) = Cpu
  BY <1>2 DEF Bijection, Injection, Surjection, Range
<1>4. CpuOrder \in [1..k -> Cpu] /\ Range(CpuOrder) = Cpu
  BY <1>3 DEF CpuOrder
<1>5. CpuOrder \in Orders(Cpu)
  BY <1>4 DEF Orders
<1> QED
  BY <1>1, <1>5, OrderOnce

LEMMA TakenInside ==
  ASSUME NEW c \in Cpu, perf[c] \in Seq(Event)
  PROVE  /\ Taken(c) \in 0..Len(perf[c]) /\ Len(perf[c]) \in Nat
         /\ SubSeq(perf[c], 1, Taken(c)) \in Seq(Event)
         /\ DOMAIN SubSeq(perf[c], 1, Taken(c)) = 1..Taken(c) /\ Len(SubSeq(perf[c], 1, Taken(c))) = Taken(c)
         /\ \A i \in 1..Taken(c) : SubSeq(perf[c], 1, Taken(c))[i] = perf[c][i]
<1> DEFINE t == Taken(c)  x == SubSeq(perf[c], 1, t)
<1>1. Len(perf[c]) \in Nat /\ t \in 0..Len(perf[c])
  BY LenProperties, BoundAssumption DEF Taken
<1> HIDE DEF t
<1>2. \A i \in 1..t : perf[c][i] \in Event
  BY <1>1, ElementOfSeq
<1>3. /\ x \in Seq(Event) /\ Len(x) = (IF 1 <= t THEN t - 1 + 1 ELSE 0)
      /\ \A i \in 1..(t - 1 + 1) : x[i] = perf[c][1 + i - 1]
  BY <1>1, <1>2, SubSeqProperties
<1>4. Len(x) = t /\ DOMAIN x = 1..t
  BY <1>1, <1>3, LenProperties
<1>5. t - 1 + 1 = t /\ \A i \in 1..t : 1 + i - 1 = i
  BY <1>1
<1> QED
  BY <1>1, <1>3, <1>4, <1>5 DEF t

(* What has been read of the first n buffers.                              *)
ReadOf(x, n) ==
  /\ x \in Seq(Event) /\ Once(x)
  /\ \A i \in DOMAIN x : \E m \in 1..n : \E j \in 1..Taken(CpuOrder[m]) : x[i] = perf[CpuOrder[m]][j]

BuffersApart ==
  /\ perf \in [Cpu -> Seq(Event)]
  /\ \A c \in Cpu : Sorted(perf[c])
  /\ \A c, d \in Cpu : c # d => Apart(perf[c], perf[d])

LEMMA ReadOneMore ==
  ASSUME BuffersApart, NEW n \in 1..Cardinality(Cpu), NEW x, ReadOf(x, n - 1)
  PROVE  ReadOf(x \o SubSeq(perf[CpuOrder[n]], 1, Taken(CpuOrder[n])), n)
<1> DEFINE c == CpuOrder[n]  t == Taken(c)  z == SubSeq(perf[c], 1, t)  y == x \o z
<1>1. /\ Cardinality(Cpu) \in Nat /\ n \in Nat /\ c \in Cpu /\ perf[c] \in Seq(Event)
      /\ x \in Seq(Event) /\ Len(x) \in Nat /\ DOMAIN x = 1..Len(x)
  BY CpuOrderOnce, LenProperties DEF BuffersApart, ReadOf
<1>2. /\ t \in 0..Len(perf[c]) /\ t \in Nat /\ z \in Seq(Event) /\ Len(z) = t
      /\ \A i \in 1..t : z[i] = perf[c][i] /\ i \in DOMAIN perf[c]
  BY <1>1, TakenInside, LenProperties
<1> HIDE DEF z
<1>3. /\ y \in Seq(Event) /\ Len(y) = Len(x) + Len(z)
      /\ \A i \in 1..(Len(x) + Len(z)) : y[i] = IF i <= Len(x) THEN x[i] ELSE z[i - Len(x)]
  BY <1>1, <1>2, ConcatProperties
<1>4. DOMAIN y = 1..(Len(x) + t)
  BY <1>2, <1>3, LenProperties
<1> HIDE DEF y, t
<1>5. \A i \in DOMAIN y : \/ i \in DOMAIN x /\ y[i] = x[i]
                          \/ i - Len(x) \in 1..t /\ y[i] = perf[c][i - Len(x)]
  BY <1>1, <1>2, <1>3, <1>4, SMTT(20)
<1>6. \A i \in DOMAIN x : \E m \in 1..(n - 1) : \E j \in 1..Taken(CpuOrder[m]) : x[i] = perf[CpuOrder[m]][j]
  BY DEF ReadOf
<1>7. ASSUME NEW i \in DOMAIN y
      PROVE  \E m \in 1..n : \E j \in 1..Taken(CpuOrder[m]) : y[i] = perf[CpuOrder[m]][j]
  <2>1. n \in 1..n /\ \A m \in 1..(n - 1) : m \in 1..n
    BY <1>1
  <2> QED
    BY <1>5, <1>6, <2>1 DEF t
<1>8. \A i \in DOMAIN x : x[i].at \notin Times(perf[c])
  <2> SUFFICES ASSUME NEW i \in DOMAIN x PROVE x[i].at \notin Times(perf[c])
    OBVIOUS
  <2>1. PICK m \in 1..(n - 1) : \E j \in 1..Taken(CpuOrder[m]) : x[i] = perf[CpuOrder[m]][j]
    BY <1>6
  <2>2. PICK j \in 1..Taken(CpuOrder[m]) : x[i] = perf[CpuOrder[m]][j]
    BY <2>1
  <2> DEFINE d == CpuOrder[m]
  <2>3. m \in 1..Cardinality(Cpu) /\ m # n /\ d \in Cpu /\ d # c
    <3>1. m \in 1..Cardinality(Cpu) /\ m # n
      BY <1>1
    <3> QED
      BY <3>1, CpuOrderOnce
  <2>4. perf[d] \in Seq(Event) /\ Apart(perf[d], perf[c])
    BY <1>1, <2>3 DEF BuffersApart
  <2>5. j \in DOMAIN perf[d]
    <3>1. Taken(d) \in 0..Len(perf[d]) /\ Len(perf[d]) \in Nat /\ DOMAIN perf[d] = 1..Len(perf[d])
      BY <2>3, <2>4, TakenInside, LenProperties
    <3> QED
      BY <2>2, <3>1
  <2>6. x[i].at \in Times(perf[d])
    BY <2>2, <2>5 DEF Times
  <2> QED
    BY <2>4, <2>6 DEF Apart
<1>9. ASSUME NEW i \in DOMAIN y, NEW j \in DOMAIN y, y[i].at = y[j].at PROVE i = j
  <2>1. Once(x)
    BY DEF ReadOf
  <2>2. Once(perf[c])
    BY <1>1, SortedIsOnce DEF BuffersApart
  <2>3. \A m \in 1..t : m \in DOMAIN perf[c] /\ perf[c][m].at \in Times(perf[c])
    BY <1>2 DEF Times
  <2>4. CASE i \in DOMAIN x /\ y[i] = x[i]
    <3>1. ~(j - Len(x) \in 1..t /\ y[j] = perf[c][j - Len(x)])
      BY <1>8, <1>9, <2>3, <2>4
    <3>2. j \in DOMAIN x /\ y[j] = x[j]
      BY <1>5, <3>1
    <3> QED
      BY <1>9, <2>1, <2>4, <3>2 DEF Once
  <2>5. CASE i - Len(x) \in 1..t /\ y[i] = perf[c][i - Len(x)]
    <3>1. ~(j \in DOMAIN x /\ y[j] = x[j])
      BY <1>8, <1>9, <2>3, <2>5
    <3>2. j - Len(x) \in 1..t /\ y[j] = perf[c][j - Len(x)]
      BY <1>5, <3>1
    <3>3. i - Len(x) = j - Len(x)
      BY <1>9, <2>2, <2>3, <2>5, <3>2 DEF Once
    <3> QED
      BY <1>1, <1>4, <1>2, <3>3
  <2> QED
    BY <1>5, <2>4, <2>5
<1> QED
  BY <1>3, <1>7, <1>9 DEF ReadOf, Once, y, z, t

LEMMA ReadInOrder ==
  ASSUME BuffersApart
  PROVE  ReadOf(Read, Cardinality(Cpu))
<1> DEFINE k == Cardinality(Cpu)
           More(x, n) == x \o SubSeq(perf[CpuOrder[n]], 1, Taken(CpuOrder[n]))
           OneMore(u, n) == IF n = 0 THEN <<>> ELSE More(u[n - 1], n)
           w == CHOOSE u : u = [n \in 0..k |-> OneMore(u, n)]
           step == [n \in 1..k |-> [x \in Seq(Event) |-> More(x, n)]]
<1>1. k \in Nat
  BY CpuOrderOnce
<1>2. \A x \in Seq(Event), n \in 1..k : More(x, n) \in Seq(Event)
  <2> SUFFICES ASSUME NEW x \in Seq(Event), NEW n \in 1..k PROVE More(x, n) \in Seq(Event)
    OBVIOUS
  <2>1. CpuOrder[n] \in Cpu /\ perf[CpuOrder[n]] \in Seq(Event)
    BY CpuOrderOnce DEF BuffersApart
  <2>2. SubSeq(perf[CpuOrder[n]], 1, Taken(CpuOrder[n])) \in Seq(Event)
    BY <2>1, TakenInside
  <2> QED
    BY <2>2, ConcatProperties
<1>3. /\ step \in [1..k -> [Seq(Event) -> Seq(Event)]]
      /\ \A n \in 1..k, x \in Seq(Event) : step[n][x] = More(x, n)
  BY <1>2
<1> HIDE DEF step
<1>4. PICK r : Runs(r, k, Seq(Event), <<>>, step)
  <2>1. <<>> \in Seq(Event)
    OBVIOUS
  <2> HIDE DEF k
  <2> QED
    BY <1>1, <1>3, <2>1, LoopRuns
<1>5. r = [n \in 0..k |-> OneMore(r, n)]
  <2>1. r[0] = <<>> /\ r \in [0..k -> Seq(Event)]
    BY <1>4 DEF Runs
  <2>2. ASSUME NEW n \in 0..k, n # 0 PROVE r[n] = More(r[n - 1], n)
    <3>1. n \in 1..k /\ n - 1 \in 0..k
      BY <1>1, <2>2
    <3>2. r[n] = step[n][r[n - 1]] /\ r[n - 1] \in Seq(Event)
      BY <1>4, <2>1, <3>1 DEF Runs
    <3> QED
      BY <1>3, <3>1, <3>2
  <2> HIDE DEF More
  <2> QED
    BY <2>1, <2>2
<1>6. w = [n \in 0..k |-> OneMore(w, n)]
  BY <1>5
<1>7. Read = w[k]
  BY DEF Read
<1> HIDE DEF w
<1> DEFINE G == {n \in 0..k : ReadOf(w[n], n)}
<1>8. 0 \in G
  <2>1. 0 \in 0..k
    BY <1>1
  <2>2. w[0] = <<>>
    BY <1>6, <2>1
  <2>3. ReadOf(<<>>, 0)
    BY EmptySeq DEF ReadOf, Once
  <2> QED
    BY <2>1, <2>2, <2>3
<1>9. ASSUME NEW n \in 1..k, n - 1 \in G PROVE n \in G
  <2>1. n \in 0..k /\ n # 0
    BY <1>1
  <2>2. w[n] = More(w[n - 1], n)
    BY <1>6, <2>1
  <2>3. ReadOf(w[n - 1], n - 1)
    BY <1>9
  <2>4. ReadOf(w[n], n)
    BY <2>2, <2>3, ReadOneMore
  <2> QED
    BY <2>1, <2>4
<1> HIDE DEF G
<1>10. 0..k \subseteq G
  BY <1>1, <1>8, <1>9, Counting
<1>11. k \in G
  BY <1>1, <1>10
<1> QED
  BY <1>7, <1>11 DEF G
-----------------------------------------------------------------------------
(* The inductive invariant.                                                *)

Past == 0..(kernelTime - 1)

(* The times of a path that is shown, or none.                             *)
TimesOf(x) == IF x = None THEN {} ELSE Times(x)

OwnPath(p, x, T) ==
  IsPath(x, T) /\ {x[1].flow.src, x[1].flow.dst} = {Flow[p].src, Flow[p].dst}

BuffersOK(bufs, T) ==
  /\ bufs \in [Cpu -> Seq(Event)]
  /\ \A c \in Cpu : Sorted(bufs[c]) /\ Times(bufs[c]) \subseteq T
  /\ \A c, d \in Cpu : c # d => Apart(bufs[c], bufs[d])

StoreOK(store, T) ==
  /\ store \in ShownPaths
  /\ \A p \in Packet : store[p] # None => OwnPath(p, store[p], T)
  /\ \A p, q \in Packet : p # q => TimesOf(store[p]) \intersect TimesOf(store[q]) = {}

(* An event is in a perf buffer, pending, or in a path that is shown.      *)
Divided(bufs, pend, store) ==
  /\ \A c \in Cpu, k \in Skb : Apart(bufs[c], pend[k])
  /\ \A c \in Cpu, p \in Packet : Times(bufs[c]) \intersect TimesOf(store[p]) = {}
  /\ \A k \in Skb, p \in Packet : Times(pend[k]) \intersect TimesOf(store[p]) = {}

EventsOK(bufs, pend, store, T) ==
  /\ BuffersOK(bufs, T) /\ pend \in [Skb -> Seq(Event)] /\ Kept(pend, T)
  /\ StoreOK(store, T) /\ Divided(bufs, pend, store)

EventInv == EventsOK(perf, pending, paths, Past)

(* Tracing is on with its engine; before it is first taken nothing was     *)
(* filtered or remembered; what is shown of the filter is true.            *)
TraceModeInv ==
  /\ engine <=> traceState # "inactive"
  /\ engine => taken
  /\ always => engine
  /\ ~taken => kernelFilter = None /\ recent = <<>>
  /\ traceState = "active" => kernelFilter = None
  /\ traceState = "filtered" => kernelFilter # None
  /\ traceState = "inactive" => \A k \in Skb : pending[k] = <<>>

(* While tracing is on the last captured packets are remembered, those and *)
(* no other, and none when a file is open.                                 *)
RecentInv ==
  /\ \A i, j \in DOMAIN captured : captured[i] = captured[j] => i = j
  /\ engine => \E k \in 0..Len(captured) : recent = SubSeq(captured, k + 1, Len(captured))
  /\ fileMode => recent = <<>> /\ \A p \in Packet : paths[p] = None

PathInv == PathTypeOK /\ EventInv /\ TraceModeInv /\ RecentInv
LEMMA TypedParts ==
  ASSUME PathTypeOK
  PROVE  /\ kernelTime \in Nat /\ recent \in Seq(Packet) /\ captured \in Seq(Packet)
         /\ paths \in ShownPaths /\ pending \in [Skb -> Seq(Event)] /\ age \in [Skb -> 0..IdleAge]
         /\ perf \in [Cpu -> Seq(Event)]
BY DEF PathTypeOK, ShownPaths

LEMMA AggregatorOK ==
  ASSUME pending \in [Skb -> Seq(Event)], age \in [Skb -> 0..IdleAge], NEW T, Kept(pending, T)
  PROVE  AggOK(Aggregator, T)
<1>1. Aggregator \in AggState
  BY EmptySeq DEF Aggregator, AggState
<1>2. Aggregator.pending = pending /\ Aggregator.completed = <<>> /\ DOMAIN <<>> = {}
  BY DEF Aggregator
<1>3. Completed(<<>>, T)
  BY DEF Completed
<1> QED
  BY <1>1, <1>2, <1>3 DEF AggOK

(* Completed paths that are at other times than what is in the buffers and  *)
(* shown can be stored.                                                    *)
LEMMA StoringKeeps ==
  ASSUME recent \in Seq(Packet), NEW T, NEW bufs, BuffersOK(bufs, T), StoreOK(paths, T),
         NEW s, NEW U, AggOK(s, U), U \subseteq T,
         \A c \in Cpu : Times(bufs[c]) \intersect U = {},
         \A p \in Packet : TimesOf(paths[p]) \intersect U = {},
         \A c \in Cpu, p \in Packet : Times(bufs[c]) \intersect TimesOf(paths[p]) = {}
  PROVE  EventsOK(bufs, s.pending, Stored(s.completed), T)
<1> DEFINE done == s.completed  store == Stored(done)
<1>1. /\ s.pending \in [Skb -> Seq(Event)] /\ done \in Seq(Seq(Event))
      /\ Len(done) \in Nat /\ DOMAIN done = 1..Len(done)
  BY AggForm DEF AggOK
<1>2. StoredOf(store, done, Len(done))
  BY <1>1, StoredIsMatched DEF StoreOK
<1> HIDE DEF store
<1>3. store \in ShownPaths
  BY <1>2 DEF StoredOf
<1>4. \A p \in Packet : store[p] = paths[p] \/ \E m \in DOMAIN done : store[p] = done[m] /\ Matched(done[m]) = p
  BY <1>1, <1>2 DEF StoredOf
<1>5. \A m \in DOMAIN done : /\ IsPath(done[m], U) /\ IsPath(done[m], T) /\ done[m] # None
                             /\ Times(done[m]) \subseteq U /\ TimesOf(done[m]) = Times(done[m])
  <2> SUFFICES ASSUME NEW m \in DOMAIN done
               PROVE  /\ IsPath(done[m], U) /\ IsPath(done[m], T) /\ done[m] # None
                      /\ Times(done[m]) \subseteq U /\ TimesOf(done[m]) = Times(done[m])
    OBVIOUS
  <2>1. IsPath(done[m], U)
    BY DEF AggOK, Completed
  <2>2. Track(done[m], T)
    BY <2>1, TrackOfMore DEF IsPath
  <2>3. done[m] # None
    BY <2>2, NoneAssumption DEF Track
  <2> QED
    BY <2>1, <2>2, <2>3 DEF IsPath, Track, TimesOf
<1>6. ASSUME NEW p \in Packet, NEW m \in DOMAIN done, Matched(done[m]) = p
      PROVE  OwnPath(p, done[m], T)
  <2>1. Matched(done[m]) # None
    BY <1>6, PacketForm
  <2> HIDE DEF done
  <2>2. Flow[p] \in {done[m][1].flow, Mirror(done[m][1].flow)}
    BY <1>6, <2>1, MatchedIsRecent
  <2>3. {done[m][1].flow.src, done[m][1].flow.dst} = {Flow[p].src, Flow[p].dst}
    BY <2>2 DEF Mirror
  <2> QED
    BY <1>5, <2>3 DEF OwnPath
<1>7. \A m, n \in DOMAIN done : m # n => Times(done[m]) \intersect Times(done[n]) = {}
  BY DEF AggOK, Completed, Apart
<1>8. \A k \in Skb, m \in DOMAIN done : Times(s.pending[k]) \intersect Times(done[m]) = {}
  BY DEF AggOK, Apart
<1>9. \A k \in Skb : Track(s.pending[k], U) /\ Times(s.pending[k]) \subseteq U
  BY DEF AggOK, Kept, Track
<1> HIDE DEF done
<1>10. \A p \in Packet : store[p] # None => OwnPath(p, store[p], T)
  <2> SUFFICES ASSUME NEW p \in Packet, store[p] # None PROVE OwnPath(p, store[p], T)
    OBVIOUS
  <2>1. CASE store[p] = paths[p]
    BY <2>1 DEF StoreOK
  <2>2. CASE \E m \in DOMAIN done : store[p] = done[m] /\ Matched(done[m]) = p
    BY <1>6, <2>2
  <2> QED
    BY <1>4, <2>1, <2>2
<1>11. ASSUME NEW p \in Packet, NEW q \in Packet, p # q PROVE TimesOf(store[p]) \intersect TimesOf(store[q]) = {}
  <2>1. TimesOf(paths[p]) \intersect TimesOf(paths[q]) = {}
    BY <1>11 DEF StoreOK
  <2>2. CASE store[p] = paths[p] /\ store[q] = paths[q]
    BY <2>1, <2>2
  <2>3. CASE \E m \in DOMAIN done : store[p] = done[m] /\ Matched(done[m]) = p
    <3>1. PICK m \in DOMAIN done : store[p] = done[m] /\ Matched(done[m]) = p
      BY <2>3
    <3>2. CASE store[q] = paths[q]
      BY <1>5, <3>1, <3>2
    <3>3. CASE \E n \in DOMAIN done : store[q] = done[n] /\ Matched(done[n]) = q
      <4>1. PICK n \in DOMAIN done : store[q] = done[n] /\ Matched(done[n]) = q
        BY <3>3
      <4>2. m # n
        BY <1>11, <3>1, <4>1
      <4> QED
        BY <1>5, <1>7, <3>1, <4>1, <4>2
    <3> QED
      BY <1>4, <3>2, <3>3
  <2>4. CASE store[p] = paths[p] /\ \E m \in DOMAIN done : store[q] = done[m] /\ Matched(done[m]) = q
    BY <1>5, <2>4
  <2> QED
    BY <1>4, <2>2, <2>3, <2>4
<1>12. \A c \in Cpu, p \in Packet : Times(bufs[c]) \intersect TimesOf(store[p]) = {}
  <2> SUFFICES ASSUME NEW c \in Cpu, NEW p \in Packet PROVE Times(bufs[c]) \intersect TimesOf(store[p]) = {}
    OBVIOUS
  <2>1. CASE store[p] = paths[p]
    BY <2>1
  <2>2. CASE \E m \in DOMAIN done : store[p] = done[m] /\ Matched(done[m]) = p
    BY <1>5, <2>2
  <2> QED
    BY <1>4, <2>1, <2>2
<1>13. \A k \in Skb, p \in Packet : Times(s.pending[k]) \intersect TimesOf(store[p]) = {}
  <2> SUFFICES ASSUME NEW k \in Skb, NEW p \in Packet PROVE Times(s.pending[k]) \intersect TimesOf(store[p]) = {}
    OBVIOUS
  <2>1. CASE store[p] = paths[p]
    BY <1>9, <2>1
  <2>2. CASE \E m \in DOMAIN done : store[p] = done[m] /\ Matched(done[m]) = p
    BY <1>5, <1>8, <2>2
  <2> QED
    BY <1>4, <2>1, <2>2
<1>14. \A c \in Cpu, k \in Skb : Apart(bufs[c], s.pending[k])
  BY <1>9 DEF Apart
<1>15. Kept(s.pending, T)
  BY <1>9, TrackOfMore DEF AggOK, Kept
<1>16. StoreOK(store, T)
  BY <1>3, <1>10, <1>11 DEF StoreOK
<1>17. Divided(bufs, s.pending, store)
  BY <1>12, <1>13, <1>14 DEF Divided
<1> QED
  BY <1>1, <1>15, <1>16, <1>17 DEF EventsOK, store, done

(* Without packets to match nothing is stored.                             *)
LEMMA NothingStored ==
  ASSUME recent = <<>>, paths \in ShownPaths, NEW done \in Seq(Seq(Event))
  PROVE  \A p \in Packet : Stored(done)[p] = paths[p]
<1>1. recent \in Seq(Packet) /\ DOMAIN recent = {}
  BY EmptySeq
<1>2. \A path : Matched(path) = None
  BY <1>1, MatchedIsRecent
<1> QED
  BY <1>2, StoredIsMatched, PacketForm DEF StoredOf

-----------------------------------------------------------------------------
(* The kernel.                                                             *)

LEMMA HandleSkbEvent ==
  ASSUME PathTypeOK, NEW p \in Packet, NEW s \in Skb, NEW set \in BOOLEAN
  PROVE  [packet |-> p, skb |-> s, at |-> kernelTime,
          flow |-> IF set THEN Flow[p] ELSE [Flow[p] EXCEPT !.ports = "unset"]] \in Event
<1> DEFINE ports == {"unset"} \union {g.ports : g \in Range(Flow)}
           flows == {[f EXCEPT !.ports = q] : f \in Range(Flow), q \in ports}
           flow == IF set THEN Flow[p] ELSE [Flow[p] EXCEPT !.ports = "unset"]
           e == [packet |-> p, skb |-> s, at |-> kernelTime, flow |-> flow]
<1>1. Flow[p] \in Range(Flow) /\ Flow[p] \in [src : STRING, dst : STRING, ports : STRING \ {"unset"}]
  BY PacketForm
<1>2. Flow[p] = [Flow[p] EXCEPT !.ports = Flow[p].ports]
  BY <1>1
<1>3. Flow[p].ports \in ports /\ "unset" \in ports
  BY <1>1
<1>4. flow \in flows
  BY <1>1, <1>2, <1>3, SMTT(20)
<1>5. kernelTime \in Nat
  BY DEF PathTypeOK
<1>6. Event = [packet : Packet, skb : Skb, at : Nat, flow : flows]
  BY DEF Event
<1> HIDE DEF flow, flows
<1>7. e \in [packet : Packet, skb : Skb, at : Nat, flow : flows]
  BY <1>4, <1>5
<1> QED
  BY <1>6, <1>7 DEF flow

(* A perf buffer gets an event of now.                                     *)
LEMMA BufferGrows ==
  ASSUME PathTypeOK, EventInv, NEW c \in Cpu, NEW e \in Event, e.at = kernelTime,
         perf' = [perf EXCEPT ![c] = Append(@, e)], kernelTime' = kernelTime + 1, UNCHANGED <<pending, paths>>
  PROVE  EventInv'
<1> DEFINE x == perf[c]  y == Append(x, e)
<1>1. /\ kernelTime \in Nat /\ perf \in [Cpu -> Seq(Event)] /\ x \in Seq(Event) /\ Sorted(x)
      /\ Times(x) \subseteq Past /\ Len(x) \in Nat /\ DOMAIN x = 1..Len(x)
  BY TypedParts, LenProperties DEF EventInv, EventsOK, BuffersOK
<1>2. kernelTime \notin Past /\ Past \subseteq Past' /\ kernelTime \in Past'
  BY <1>1 DEF Past
<1>3. /\ y \in Seq(Event) /\ Len(y) = Len(x) + 1 /\ y[Len(x) + 1] = e
      /\ \A i \in 1..Len(x) : y[i] = x[i]
  BY <1>1, AppendProperties
<1>4. DOMAIN y = 1..(Len(x) + 1)
  BY <1>3, LenProperties
<1>5. \A i \in DOMAIN x : x[i].at \in Nat /\ x[i].at < kernelTime
  <2>1. \A i \in DOMAIN x : x[i].at \in Times(x)
    BY DEF Times
  <2>2. \A n \in Past : n \in Nat /\ n < kernelTime
    BY <1>1 DEF Past
  <2> QED
    BY <1>1, <2>1, <2>2
<1> HIDE DEF y
<1>6. Sorted(y)
  BY <1>1, <1>3, <1>4, <1>5 DEF Sorted
<1>7. Times(y) = Times(x) \union {kernelTime}
  <2>1. \A i \in DOMAIN y : (i \in DOMAIN x /\ y[i] = x[i]) \/ y[i] = e
    BY <1>1, <1>3, <1>4
  <2>2. \A i \in DOMAIN x : i \in DOMAIN y /\ y[i] = x[i]
    BY <1>1, <1>3, <1>4
  <2>3. Len(x) + 1 \in DOMAIN y
    BY <1>1, <1>4
  <2> QED
    BY <1>3, <2>1, <2>2, <2>3 DEF Times
<1>8. perf' \in [Cpu -> Seq(Event)] /\ perf'[c] = y /\ \A d \in Cpu \ {c} : perf'[d] = perf[d]
  BY <1>1, <1>3 DEF y
<1>9. BuffersOK(perf', Past')
  <2>1. \A d \in Cpu : Sorted(perf'[d]) /\ Times(perf'[d]) \subseteq Past'
    BY <1>1, <1>2, <1>6, <1>7, <1>8 DEF EventInv, EventsOK, BuffersOK
  <2>2. \A d \in Cpu \ {c} : Apart(y, perf[d]) /\ Apart(perf[d], y)
    BY <1>2, <1>7 DEF EventInv, EventsOK, BuffersOK, Apart
  <2>3. \A d, b \in Cpu : d # b => Apart(perf'[d], perf'[b])
    BY <1>8, <2>2 DEF EventInv, EventsOK, BuffersOK
  <2> QED
    BY <1>8, <2>1, <2>3 DEF BuffersOK
<1>10. Kept(pending, Past') /\ \A k \in Skb : Times(pending[k]) \subseteq Past
  BY <1>2, TrackOfMore DEF EventInv, EventsOK, Kept, Track
<1>11. StoreOK(paths, Past') /\ \A p \in Packet : TimesOf(paths[p]) \subseteq Past
  <2>1. \A p \in Packet : paths[p] # None => OwnPath(p, paths[p], Past')
    BY <1>2, TrackOfMore DEF EventInv, EventsOK, StoreOK, OwnPath, IsPath
  <2>2. \A p \in Packet : TimesOf(paths[p]) \subseteq Past
    BY DEF EventInv, EventsOK, StoreOK, OwnPath, IsPath, Track, TimesOf
  <2> QED
    BY <2>1, <2>2 DEF EventInv, EventsOK, StoreOK
<1>12. Divided(perf', pending, paths)
  <2>1. \A k \in Skb : Apart(y, pending[k])
    BY <1>2, <1>7, <1>10 DEF EventInv, EventsOK, Divided, Apart
  <2>2. \A p \in Packet : Times(y) \intersect TimesOf(paths[p]) = {}
    BY <1>2, <1>7, <1>11 DEF EventInv, EventsOK, Divided
  <2>3. \A d \in Cpu : perf'[d] = y \/ perf'[d] = perf[d]
    BY <1>8
  <2> QED
    BY <2>1, <2>2, <2>3 DEF EventInv, EventsOK, Divided
<1> QED
  BY <1>9, <1>10, <1>11, <1>12 DEF EventInv, EventsOK

(* Time passes in the kernel.                                              *)
LEMMA LaterKeeps ==
  ASSUME PathTypeOK, EventInv, kernelTime' = kernelTime + 1, UNCHANGED <<perf, pending, paths>>
  PROVE  EventInv'
<1>1. Past \subseteq Past'
  BY TypedParts DEF Past
<1>2. BuffersOK(perf, Past')
  BY <1>1 DEF EventInv, EventsOK, BuffersOK
<1>3. Kept(pending, Past')
  BY <1>1, TrackOfMore DEF EventInv, EventsOK, Kept
<1>4. StoreOK(paths, Past')
  <2>1. \A p \in Packet : paths[p] # None => OwnPath(p, paths[p], Past')
    BY <1>1, TrackOfMore DEF EventInv, EventsOK, StoreOK, OwnPath, IsPath
  <2> QED
    BY <2>1 DEF EventInv, EventsOK, StoreOK
<1> QED
  BY <1>2, <1>3, <1>4 DEF EventInv, EventsOK

LEMMA SkbStep ==
  ASSUME PathInv, NEW p \in Packet, NEW c \in Cpu, NEW set \in BOOLEAN, HandleSkb(p, c, set)
  PROVE  PathInv'
<1>1. /\ hop[p] < Hops /\ hop' = [hop EXCEPT ![p] = @ + 1] /\ kernelTime' = kernelTime + 1
      /\ UNCHANGED <<aggVars, modeVars, recent, captured, paths, fileMode>>
  BY DEF HandleSkb
<1>2. PICK s \in Skb :
        /\ skbOf' = [skbOf EXCEPT ![p] = IF hop[p] + 1 < Hops THEN s ELSE None]
        /\ LET flow == IF set THEN Flow[p] ELSE [Flow[p] EXCEPT !.ports = "unset"]
               event == [packet |-> p, skb |-> s, at |-> kernelTime, flow |-> flow]
               passed == taken /\ (kernelFilter # None => SameFlow(flow, kernelFilter))
           IN  perf' = IF passed /\ engine /\ Len(perf[c]) < PerfMax
                         THEN [perf EXCEPT ![c] = Append(@, event)] ELSE perf
  BY DEF HandleSkb
<1> DEFINE e == [packet |-> p, skb |-> s, at |-> kernelTime,
                 flow |-> IF set THEN Flow[p] ELSE [Flow[p] EXCEPT !.ports = "unset"]]
<1>3. e \in Event /\ e.at = kernelTime
  BY HandleSkbEvent DEF PathInv
<1>4. perf' = perf \/ (perf' = [perf EXCEPT ![c] = Append(@, e)] /\ Len(perf[c]) < PerfMax)
  BY <1>2
<1> HIDE DEF e
<1>5. EventInv'
  BY <1>1, <1>3, <1>4, BufferGrows, LaterKeeps DEF PathInv, aggVars
<1>6. perf' \in [Cpu -> Seq(Event)] /\ \A d \in Cpu : Len(perf'[d]) <= PerfMax
  <2>1. perf' \in [Cpu -> Seq(Event)]
    BY <1>5 DEF EventInv, EventsOK, BuffersOK
  <2>2. CASE perf' = perf
    BY <2>1, <2>2 DEF PathInv, PathTypeOK
  <2>3. CASE perf' = [perf EXCEPT ![c] = Append(@, e)] /\ Len(perf[c]) < PerfMax
    <3>1. perf[c] \in Seq(Event) /\ Len(perf[c]) \in Nat /\ Len(Append(perf[c], e)) = Len(perf[c]) + 1
      BY <1>3, LenProperties, AppendProperties DEF PathInv, PathTypeOK
    <3>2. Len(perf'[c]) <= PerfMax
      BY <2>3, <3>1, PathBounds DEF PathInv, PathTypeOK
    <3> QED
      BY <2>1, <2>3, <3>2 DEF PathInv, PathTypeOK
  <2> QED
    BY <1>4, <2>2, <2>3
<1>7. hop' \in [Packet -> 0..Hops] /\ skbOf' \in [Packet -> Skb \union {None}] /\ kernelTime' \in Nat
  <2>1. hop[p] + 1 \in 0..Hops
    <3>1. hop[p] \in 0..Hops
      BY DEF PathInv, PathTypeOK
    <3> QED
      BY <1>1, <3>1, PathBounds
  <2> QED
    BY <1>1, <1>2, <2>1 DEF PathInv, PathTypeOK
<1>8. PathTypeOK'
  BY <1>1, <1>6, <1>7 DEF PathInv, PathTypeOK, aggVars, modeVars
<1>9. TraceModeInv' /\ RecentInv'
  BY <1>1 DEF PathInv, TraceModeInv, RecentInv, aggVars, modeVars
<1> QED
  BY <1>5, <1>8, <1>9 DEF PathInv
-----------------------------------------------------------------------------
(* The main loop.                                                          *)

LEMMA TickStep ==
  ASSUME PathInv, PathTick
  PROVE  PathInv'
<1>1. UNCHANGED <<kernelVars, modeVars, pending, recent, captured, paths, fileMode>>
  BY DEF PathTick
<1>2. age' \in [Skb -> 0..IdleAge]
  <2>1. \A s \in Skb : (IF age[s] < IdleAge THEN age[s] + 1 ELSE IdleAge) \in 0..IdleAge
    BY PathBounds DEF PathInv, PathTypeOK
  <2> QED
    BY <2>1 DEF PathTick
<1>3. sweepAge' \in 0..SweepAge
  BY PathBounds DEF PathTick, PathInv, PathTypeOK
<1>4. PathTypeOK'
  BY <1>1, <1>2, <1>3 DEF PathInv, PathTypeOK, kernelVars, modeVars
<1>5. EventInv' /\ TraceModeInv' /\ RecentInv'
  BY <1>1 DEF PathInv, EventInv, TraceModeInv, RecentInv, Past, kernelVars, modeVars
<1> QED
  BY <1>4, <1>5 DEF PathInv

(* What follows the first k elements.                                      *)
LEMMA RestOf ==
  ASSUME NEW S, NEW x \in Seq(S), NEW k \in 0..Len(x)
  PROVE  /\ SubSeq(x, k + 1, Len(x)) \in Seq(S) /\ Len(x) \in Nat
         /\ Len(SubSeq(x, k + 1, Len(x))) = Len(x) - k
         /\ DOMAIN SubSeq(x, k + 1, Len(x)) = 1..(Len(x) - k)
         /\ \A i \in 1..(Len(x) - k) : SubSeq(x, k + 1, Len(x))[i] = x[k + i] /\ k + i \in 1..Len(x)
<1> DEFINE y == SubSeq(x, k + 1, Len(x))
<1>1. Len(x) \in Nat /\ k \in Nat /\ k <= Len(x)
  BY LenProperties
<1>2. \A i \in (k + 1)..Len(x) : x[i] \in S
  <2>1. \A i \in (k + 1)..Len(x) : i \in 1..Len(x)
    BY <1>1
  <2> QED
    BY <2>1, ElementOfSeq
<1>3. /\ y \in Seq(S) /\ Len(y) = (IF k + 1 <= Len(x) THEN Len(x) - (k + 1) + 1 ELSE 0)
      /\ \A i \in 1..(Len(x) - (k + 1) + 1) : y[i] = x[k + 1 + i - 1]
  BY <1>1, <1>2, SubSeqProperties
<1> HIDE DEF y
<1>4. Len(y) = Len(x) - k
  BY <1>1, <1>3
<1>5. DOMAIN y = 1..(Len(x) - k)
  BY <1>3, <1>4, LenProperties
<1>6. \A i \in 1..(Len(x) - k) : y[i] = x[k + i] /\ k + i \in 1..Len(x)
  <2>1. Len(x) - (k + 1) + 1 = Len(x) - k /\ \A i \in 1..(Len(x) - k) : k + 1 + i - 1 = k + i /\ k + i \in 1..Len(x)
    BY <1>1
  <2> QED
    BY <1>3, <2>1
<1> QED
  BY <1>1, <1>3, <1>4, <1>5, <1>6 DEF y

(* The end of a list, one element later, and shortened.                    *)
LEMMA EndGrows ==
  ASSUME NEW S, NEW x \in Seq(S), NEW k \in 0..Len(x), NEW e \in S
  PROVE  Append(SubSeq(x, k + 1, Len(x)), e) = SubSeq(Append(x, e), k + 1, Len(Append(x, e)))
<1> DEFINE y == SubSeq(x, k + 1, Len(x))  z == Append(x, e)  v == Append(y, e)
           w == SubSeq(z, k + 1, Len(z))
<1>1. /\ y \in Seq(S) /\ Len(x) \in Nat /\ Len(y) = Len(x) - k
      /\ \A i \in 1..(Len(x) - k) : y[i] = x[k + i] /\ k + i \in 1..Len(x)
  BY RestOf
<1>2. z \in Seq(S) /\ Len(z) = Len(x) + 1 /\ z[Len(x) + 1] = e /\ \A i \in 1..Len(x) : z[i] = x[i]
  BY AppendProperties
<1> HIDE DEF y
<1>3. v \in Seq(S) /\ Len(v) = Len(y) + 1 /\ v[Len(y) + 1] = e /\ \A i \in 1..Len(y) : v[i] = y[i]
  BY <1>1, AppendProperties
<1> HIDE DEF z
<1>4. k \in 0..Len(z)
  BY <1>1, <1>2
<1>5. /\ w \in Seq(S) /\ Len(w) = Len(z) - k /\ \A i \in 1..(Len(z) - k) : w[i] = z[k + i]
  BY <1>2, <1>4, RestOf
<1> HIDE DEF v, w
<1>6. Len(v) = Len(w) /\ Len(v) = Len(x) - k + 1
  BY <1>1, <1>2, <1>3, <1>5
<1>7. ASSUME NEW i \in 1..Len(v) PROVE v[i] = w[i]
  <2>1. i \in 1..(Len(z) - k) /\ w[i] = z[k + i]
    BY <1>5, <1>6
  <2>2. CASE i = Len(v)
    <3>1. k + i = Len(x) + 1 /\ i = Len(y) + 1
      BY <1>1, <1>6, <2>2
    <3> QED
      BY <1>2, <1>3, <2>1, <3>1
  <2>3. CASE i # Len(v)
    <3>1. i \in 1..(Len(x) - k) /\ i \in 1..Len(y)
      BY <1>1, <1>6, <2>3
    <3> QED
      BY <1>1, <1>2, <1>3, <2>1, <3>1
  <2> QED
    BY <2>2, <2>3
<1> QED
  BY <1>3, <1>5, <1>6, <1>7, SeqEqual DEF v, w, y, z

LEMMA EndShrinks ==
  ASSUME NEW S, NEW x \in Seq(S), NEW k \in 0..Len(x), NEW d \in 0..(Len(x) - k)
  PROVE  /\ SubSeq(SubSeq(x, k + 1, Len(x)), d + 1, Len(SubSeq(x, k + 1, Len(x)))) = SubSeq(x, k + d + 1, Len(x))
         /\ k + d \in 0..Len(x)
<1> DEFINE y == SubSeq(x, k + 1, Len(x))  v == SubSeq(y, d + 1, Len(y))  w == SubSeq(x, k + d + 1, Len(x))
<1>1. /\ y \in Seq(S) /\ Len(x) \in Nat /\ Len(y) = Len(x) - k
      /\ \A i \in 1..(Len(x) - k) : y[i] = x[k + i]
  BY RestOf
<1> HIDE DEF y
<1>2. d \in 0..Len(y) /\ k + d \in 0..Len(x)
  BY <1>1
<1>3. v \in Seq(S) /\ Len(v) = Len(y) - d /\ \A i \in 1..(Len(y) - d) : v[i] = y[d + i] /\ d + i \in 1..Len(y)
  BY <1>1, <1>2, RestOf
<1>4. /\ w \in Seq(S) /\ Len(w) = Len(x) - (k + d)
      /\ \A i \in 1..(Len(x) - (k + d)) : w[i] = x[k + d + i]
  BY <1>2, RestOf
<1> HIDE DEF v, w
<1>5. Len(v) = Len(w)
  BY <1>1, <1>3, <1>4
<1>6. ASSUME NEW i \in 1..Len(v) PROVE v[i] = w[i]
  <2>1. i \in 1..(Len(y) - d) /\ i \in 1..(Len(x) - (k + d))
    BY <1>3, <1>4, <1>5, <1>6
  <2>2. v[i] = y[d + i] /\ d + i \in 1..(Len(x) - k)
    BY <1>1, <1>3, <2>1
  <2>3. k + (d + i) = k + d + i
    BY <1>1
  <2> QED
    BY <1>1, <1>4, <2>1, <2>2, <2>3
<1> QED
  BY <1>2, <1>3, <1>4, <1>5, <1>6, SeqEqual DEF v, w, y
(* A pending path that is taken out at once, for a packet that had maybe   *)
(* another.                                                                *)
LEMMA ExtractKeeps ==
  ASSUME EventInv, NEW p \in Packet, TryExtractPending(p), UNCHANGED <<perf, kernelTime>>
  PROVE  /\ EventInv'
         /\ (\A k \in Skb : pending[k] = <<>>) => \A k \in Skb : pending'[k] = <<>>
<1>1. CASE Pendings(Flow[p]) = {}
  BY <1>1 DEF TryExtractPending, EventInv, Past
<1>2. CASE Pendings(Flow[p]) # {}
  <2>1. PICK s \in Longest(Pendings(Flow[p])) :
          /\ paths' = [paths EXCEPT ![p] = BuildPath(pending[s])]
          /\ pending' = [pending EXCEPT ![s] = <<>>]
    BY <1>2 DEF TryExtractPending
  <2> DEFINE x == pending[s]  y == BuildPath(x)
  <2>2. s \in Skb /\ x # <<>> /\ SameFlow(x[1].flow, Flow[p])
    BY DEF Longest, Pendings
  <2>3. /\ perf \in [Cpu -> Seq(Event)] /\ pending \in [Skb -> Seq(Event)] /\ paths \in ShownPaths
        /\ Track(x, Past) /\ \A k \in Skb : Track(pending[k], Past)
    BY <2>2 DEF EventInv, EventsOK, BuffersOK, StoreOK, Kept
  <2>4. /\ IsPath(y, Past) /\ Times(y) \subseteq Times(x)
        /\ \A i \in DOMAIN y : \E j \in DOMAIN x : y[i] = x[j]
    BY <2>2, <2>3, BuildPathSorts
  <2>5. x \in Seq(Event) /\ y \in Seq(Event) /\ y # <<>>
    BY <2>3, <2>4 DEF IsPath, Track
  <2>6. y # None /\ TimesOf(y) = Times(y)
    BY <2>5, NoneAssumption DEF TimesOf
  <2>7. 1 \in DOMAIN x /\ 1 \in DOMAIN y
    <3>1. Len(x) \in Nat /\ Len(x) # 0 /\ DOMAIN x = 1..Len(x) /\ Len(y) \in Nat /\ Len(y) # 0 /\ DOMAIN y = 1..Len(y)
      BY <2>2, <2>5, LenProperties, EmptySeq
    <3> QED
      BY <3>1
  <2> HIDE DEF y
  <2>8. SameHosts(y[1], x[1])
    <3>1. PICK j \in DOMAIN x : y[1] = x[j]
      BY <2>4, <2>7
    <3> QED
      BY <2>3, <2>7, <3>1 DEF Track
  <2>9. OwnPath(p, y, Past)
    <3>1. {x[1].flow.src, x[1].flow.dst} = {Flow[p].src, Flow[p].dst}
      BY <2>2 DEF SameFlow, Mirror
    <3> QED
      BY <2>4, <2>8, <3>1 DEF OwnPath, SameHosts
  <2> HIDE DEF x
  <2>10. /\ paths' \in ShownPaths /\ paths'[p] = y /\ \A q \in Packet \ {p} : paths'[q] = paths[q]
    BY <2>1, <2>3, <2>5 DEF ShownPaths, x, y
  <2>11. /\ pending' \in [Skb -> Seq(Event)] /\ pending'[s] = <<>> /\ \A k \in Skb \ {s} : pending'[k] = pending[k]
    BY <2>1, <2>2, <2>3
  <2>12. Times(<<>>) = {} /\ Track(<<>>, Past)
    BY EmptyTrack
  <2>13. \A k \in Skb : Times(y) \intersect Times(pending'[k]) = {}
    BY <2>2, <2>4, <2>11, <2>12 DEF EventInv, EventsOK, Kept, Apart, x
  <2>14. \A q \in Packet : Times(y) \intersect TimesOf(paths[q]) = {}
    BY <2>2, <2>4 DEF EventInv, EventsOK, Divided, x
  <2>15. \A c \in Cpu : Times(y) \intersect Times(perf[c]) = {}
    BY <2>2, <2>4 DEF EventInv, EventsOK, Divided, Apart, x
  <2>16. Kept(pending', Past)
    <3>1. \A k \in Skb : Track(pending'[k], Past)
      BY <2>3, <2>11, <2>12
    <3>2. ASSUME NEW k \in Skb, NEW l \in Skb, k # l PROVE Apart(pending'[k], pending'[l])
      <4>1. Apart(pending[k], pending[l])
        BY <3>2 DEF EventInv, EventsOK, Kept
      <4> QED
        BY <2>11, <2>12, <4>1 DEF Apart
    <3> QED
      BY <3>1, <3>2 DEF Kept
  <2>17. StoreOK(paths', Past)
    <3>1. \A q \in Packet : paths'[q] # None => OwnPath(q, paths'[q], Past)
      BY <2>9, <2>10 DEF EventInv, EventsOK, StoreOK
    <3>2. ASSUME NEW q \in Packet, NEW r \in Packet, q # r
          PROVE  TimesOf(paths'[q]) \intersect TimesOf(paths'[r]) = {}
      <4>1. TimesOf(paths[q]) \intersect TimesOf(paths[r]) = {}
        BY <3>2 DEF EventInv, EventsOK, StoreOK
      <4> QED
        BY <2>6, <2>10, <2>14, <3>2, <4>1
    <3> QED
      BY <2>10, <3>1, <3>2 DEF StoreOK
  <2>18. Divided(perf, pending', paths')
    <3>1. \A c \in Cpu, k \in Skb : Apart(perf[c], pending'[k])
      BY <2>11, <2>12 DEF EventInv, EventsOK, Divided, Apart
    <3>2. \A c \in Cpu, q \in Packet : Times(perf[c]) \intersect TimesOf(paths'[q]) = {}
      BY <2>6, <2>10, <2>15 DEF EventInv, EventsOK, Divided
    <3>3. ASSUME NEW k \in Skb, NEW q \in Packet PROVE Times(pending'[k]) \intersect TimesOf(paths'[q]) = {}
      <4>1. Times(pending[k]) \intersect TimesOf(paths[q]) = {}
        BY DEF EventInv, EventsOK, Divided
      <4> QED
        BY <2>6, <2>10, <2>11, <2>12, <2>13, <4>1
    <3> QED
      BY <3>1, <3>2, <3>3 DEF Divided
  <2>19. BuffersOK(perf, Past)
    BY DEF EventInv, EventsOK
  <2>20. EventInv'
    BY <2>11, <2>16, <2>17, <2>18, <2>19 DEF EventInv, EventsOK, Past
  <2> QED
    BY <2>11, <2>20
<1> QED
  BY <1>1, <1>2

(* The window slides: it holds the last packets, not too many.             *)
LEMMA SlidKeeps ==
  ASSUME recent \in Seq(Packet), Len(recent) <= Window, captured \in Seq(Packet), NEW p \in Packet,
         NEW k \in 0..Len(captured), recent = SubSeq(captured, k + 1, Len(captured))
  PROVE  LET r == Slid(Append(recent, p))  c == Append(captured, p)
         IN  /\ r \in Seq(Packet) /\ Len(r) <= Window
             /\ \E m \in 0..Len(c) : r = SubSeq(c, m + 1, Len(c))
<1> DEFINE y == Append(recent, p)  c == Append(captured, p)  r == Slid(y)
<1>1. /\ c \in Seq(Packet) /\ Len(c) = Len(captured) + 1 /\ Len(captured) \in Nat
      /\ y \in Seq(Packet) /\ Len(y) = Len(recent) + 1 /\ Len(recent) \in Nat
  BY AppendProperties, LenProperties
<1>2. y = SubSeq(c, k + 1, Len(c))
  BY EndGrows
<1>3. k \in 0..Len(c)
  BY <1>1
<1>4. Len(y) = Len(c) - k
  BY <1>1, <1>2, <1>3, RestOf
<1> HIDE DEF y, c
<1>0. Window \in Nat /\ WindowDropped \in 1..Window
  BY PathBounds
<1>5. CASE Len(y) <= Window
  <2>1. r = y
    <3>1. ~(Len(y) > Window)
      BY <1>0, <1>1, <1>5
    <3> QED
      BY <3>1 DEF Slid
  <2> QED
    BY <1>1, <1>2, <1>3, <1>5, <2>1 DEF y, c
<1>6. CASE Len(y) > Window
  <2> DEFINE d == WindowDropped
  <2>1. r = SubSeq(y, d + 1, Len(y))
    BY <1>6 DEF Slid
  <2>2. d \in 0..Len(y) /\ d \in 0..(Len(c) - k) /\ d >= 1 /\ Window \in Nat
    BY <1>0, <1>1, <1>4, <1>6
  <2> HIDE DEF d
  <2> DEFINE z == SubSeq(y, d + 1, Len(y))
  <2>3. r \in Seq(Packet) /\ Len(r) = Len(y) - d
    <3>1. z \in Seq(Packet) /\ Len(z) = Len(y) - d
      BY <1>1, <2>2, RestOf
    <3> HIDE DEF z, r
    <3> QED
      BY <2>1, <3>1 DEF z
  <2>4. r = SubSeq(c, k + d + 1, Len(c)) /\ k + d \in 0..Len(c)
    BY <1>1, <1>2, <1>3, <2>1, <2>2, EndShrinks
  <2>5. Len(r) <= Window
    BY <1>1, <2>2, <2>3
  <2> QED
    BY <2>3, <2>4, <2>5 DEF y, c
<1>7. Len(y) <= Window \/ Len(y) > Window
  BY <1>0, <1>1
<1> QED
  BY <1>5, <1>6, <1>7

LEMMA DrainPacketStep ==
  ASSUME PathInv, NEW p \in Packet, DrainPacket(p)
  PROVE  PathInv'
<1>1. /\ ~fileMode /\ p \notin Range(captured) /\ captured' = Append(captured, p)
      /\ UNCHANGED <<kernelVars, modeVars, age, sweepAge, fileMode>>
  BY DEF DrainPacket
<1>2. /\ recent \in Seq(Packet) /\ Len(recent) <= Window /\ captured \in Seq(Packet)
      /\ Len(captured) \in Nat /\ DOMAIN captured = 1..Len(captured)
  BY LenProperties DEF PathInv, PathTypeOK
<1>3. /\ captured' \in Seq(Packet) /\ Len(captured') = Len(captured) + 1 /\ captured'[Len(captured) + 1] = p
      /\ \A i \in 1..Len(captured) : captured'[i] = captured[i]
  BY <1>1, <1>2, AppendProperties
<1>4. \A i, j \in DOMAIN captured' : captured'[i] = captured'[j] => i = j
  <2>1. DOMAIN captured' = 1..(Len(captured) + 1)
    BY <1>3, LenProperties
  <2>2. \A i \in 1..Len(captured) : captured[i] # p
    BY <1>1, <1>2 DEF Range
  <2>3. \A i \in DOMAIN captured' : i \in 1..Len(captured) \/ i = Len(captured) + 1
    BY <1>2, <2>1
  <2> QED
    BY <1>2, <1>3, <2>2, <2>3 DEF PathInv, RecentInv
<1>5. CASE traceState = "inactive"
  <2>1. UNCHANGED <<pending, paths, recent>>
    BY <1>5 DEF DrainPacket
  <2>2. PathTypeOK'
    BY <1>1, <1>3, <2>1 DEF PathInv, PathTypeOK, kernelVars, modeVars
  <2>3. EventInv' /\ TraceModeInv'
    BY <1>1, <2>1 DEF PathInv, EventInv, TraceModeInv, Past, kernelVars, modeVars
  <2>4. RecentInv'
    BY <1>1, <1>4, <1>5, <2>1 DEF PathInv, TraceModeInv, RecentInv, modeVars
  <2> QED
    BY <2>2, <2>3, <2>4 DEF PathInv
<1>6. CASE traceState # "inactive"
  <2>1. TryExtractPending(p) /\ recent' = Slid(Append(recent, p))
    BY <1>6 DEF DrainPacket
  <2>2. EventInv'
    BY <1>1, <2>1, ExtractKeeps DEF PathInv, kernelVars
  <2>3. engine /\ engine' /\ taken'
    BY <1>1, <1>6 DEF PathInv, TraceModeInv, modeVars
  <2>4. PICK k \in 0..Len(captured) : recent = SubSeq(captured, k + 1, Len(captured))
    BY <2>3 DEF PathInv, RecentInv
  <2>5. /\ recent' \in Seq(Packet) /\ Len(recent') <= Window
        /\ \E m \in 0..Len(captured') : recent' = SubSeq(captured', m + 1, Len(captured'))
    BY <1>1, <1>2, <2>1, <2>4, SlidKeeps
  <2>6. PathTypeOK'
    <3>1. pending' \in [Skb -> Seq(Event)] /\ paths' \in [Packet -> Seq(Event) \union {None}]
      BY <2>2 DEF EventInv, EventsOK, StoreOK, ShownPaths
    <3> QED
      BY <1>1, <1>3, <2>5, <3>1 DEF PathInv, PathTypeOK, kernelVars, modeVars
  <2>7. TraceModeInv'
    BY <1>1, <1>6, <2>3 DEF PathInv, TraceModeInv, modeVars
  <2>8. RecentInv'
    BY <1>1, <1>4, <2>5 DEF PathInv, RecentInv
  <2> QED
    BY <2>2, <2>6, <2>7, <2>8 DEF PathInv
<1> QED
  BY <1>5, <1>6
(* What is left in the buffers when they were read.                        *)
LEMMA LeftInBuffers ==
  ASSUME NEW T, BuffersOK(perf, T)
  PROVE  LET bufs == [c \in Cpu |-> SubSeq(perf[c], Taken(c) + 1, Len(perf[c]))]
         IN  /\ BuffersOK(bufs, T)
             /\ \A c \in Cpu : /\ Times(bufs[c]) \subseteq Times(perf[c])
                               /\ Len(bufs[c]) <= Len(perf[c])
                               /\ Times(bufs[c]) \intersect Times(Read) = {}
<1> DEFINE bufs == [c \in Cpu |-> SubSeq(perf[c], Taken(c) + 1, Len(perf[c]))]
<1>1. perf \in [Cpu -> Seq(Event)] /\ BuffersApart
  BY DEF BuffersOK, BuffersApart
<1>2. \A c \in Cpu : /\ Taken(c) \in 0..Len(perf[c]) /\ Len(perf[c]) \in Nat
                     /\ DOMAIN perf[c] = 1..Len(perf[c])
  BY <1>1, TakenInside, LenProperties
<1>3. \A c \in Cpu : /\ bufs[c] \in Seq(Event) /\ Len(bufs[c]) = Len(perf[c]) - Taken(c)
                     /\ DOMAIN bufs[c] = 1..(Len(perf[c]) - Taken(c))
                     /\ \A i \in 1..(Len(perf[c]) - Taken(c)) :
                          bufs[c][i] = perf[c][Taken(c) + i] /\ Taken(c) + i \in 1..Len(perf[c])
  <2> SUFFICES ASSUME NEW c \in Cpu
               PROVE  /\ bufs[c] \in Seq(Event) /\ Len(bufs[c]) = Len(perf[c]) - Taken(c)
                      /\ DOMAIN bufs[c] = 1..(Len(perf[c]) - Taken(c))
                      /\ \A i \in 1..(Len(perf[c]) - Taken(c)) :
                           bufs[c][i] = perf[c][Taken(c) + i] /\ Taken(c) + i \in 1..Len(perf[c])
    OBVIOUS
  <2>1. bufs[c] = SubSeq(perf[c], Taken(c) + 1, Len(perf[c]))
    OBVIOUS
  <2>2. perf[c] \in Seq(Event) /\ Taken(c) \in 0..Len(perf[c])
    BY <1>1, <1>2
  <2> HIDE DEF bufs
  <2> QED
    BY <2>1, <2>2, RestOf, SMTT(20)
<1> HIDE DEF bufs
<1>4. \A c \in Cpu : \A i \in DOMAIN bufs[c] : Taken(c) + i \in DOMAIN perf[c] /\ bufs[c][i] = perf[c][Taken(c) + i]
  BY <1>2, <1>3
<1>5. \A c \in Cpu : Times(bufs[c]) \subseteq Times(perf[c])
  BY <1>4 DEF Times
<1>6. \A c \in Cpu : Sorted(bufs[c])
  <2> SUFFICES ASSUME NEW c \in Cpu, NEW i \in DOMAIN bufs[c], NEW j \in DOMAIN bufs[c], i < j
               PROVE  bufs[c][i].at < bufs[c][j].at
    BY DEF Sorted
  <2>1. Taken(c) + i < Taken(c) + j
    BY <1>2, <1>3
  <2>2. Sorted(perf[c])
    BY DEF BuffersOK
  <2> QED
    BY <1>4, <2>1, <2>2 DEF Sorted
<1>7. BuffersOK(bufs, T)
  <2>1. bufs \in [Cpu -> Seq(Event)]
    BY <1>3 DEF bufs
  <2>2. \A c, d \in Cpu : c # d => Apart(bufs[c], bufs[d])
    BY <1>5 DEF BuffersOK, Apart
  <2> QED
    BY <1>5, <1>6, <2>1, <2>2 DEF BuffersOK
<1>8. ASSUME NEW c \in Cpu, NEW i \in DOMAIN bufs[c], NEW n \in DOMAIN Read, bufs[c][i].at = Read[n].at
      PROVE  FALSE
  <2>1. PICK m \in 1..Cardinality(Cpu) : \E j \in 1..Taken(CpuOrder[m]) : Read[n] = perf[CpuOrder[m]][j]
    BY <1>1, ReadInOrder DEF ReadOf
  <2>2. PICK j \in 1..Taken(CpuOrder[m]) : Read[n] = perf[CpuOrder[m]][j]
    BY <2>1
  <2> DEFINE d == CpuOrder[m]
  <2>3. d \in Cpu
    BY CpuOrderOnce
  <2>4. j \in DOMAIN perf[d] /\ j \in Nat /\ j <= Taken(d) /\ perf[d][j].at = bufs[c][i].at
    BY <1>2, <1>8, <2>2, <2>3
  <2> HIDE DEF d
  <2>5. bufs[c][i].at \in Times(perf[c]) /\ perf[d][j].at \in Times(perf[d])
    BY <1>4, <2>4 DEF Times
  <2>6. d = c
    BY <2>3, <2>4, <2>5 DEF BuffersOK, Apart
  <2>7. Once(perf[c])
    BY <1>1, SortedIsOnce DEF BuffersOK
  <2>8. j = Taken(c) + i
    BY <1>4, <2>4, <2>6, <2>7 DEF Once
  <2>9. i \in Nat /\ i >= 1 /\ Taken(c) \in Nat
    BY <1>2, <1>3
  <2> QED
    BY <2>4, <2>6, <2>8, <2>9
<1>9. \A c \in Cpu : Times(bufs[c]) \intersect Times(Read) = {}
  BY <1>8 DEF Times
<1>10. \A c \in Cpu : Len(bufs[c]) <= Len(perf[c])
  BY <1>2, <1>3
<1> QED
  BY <1>5, <1>7, <1>9, <1>10 DEF bufs

(* What is pending and read, when it is grouped and expired.               *)
PendingTimes == UNION {Times(pending[k]) : k \in Skb}

LEMMA DrainedIsOK ==
  ASSUME PathInv,
         NEW t \in IF sweepAge >= SweepAge THEN ExpirePaths(Ingested(Aggregator, Read))
                                           ELSE {Ingested(Aggregator, Read)}
  PROVE  /\ AggOK(t, PendingTimes \union Times(Read)) /\ PendingTimes \union Times(Read) \subseteq Past
         /\ \A e \in Times(Read) : \E c \in Cpu : e \in Times(perf[c])
<1> DEFINE U == PendingTimes \union Times(Read)
           s == Ingested(Aggregator, Read)
<1>1. t \in IF sweepAge >= SweepAge THEN ExpirePaths(s) ELSE {s}
  OBVIOUS
<1>2. /\ BuffersOK(perf, Past) /\ StoreOK(paths, Past) /\ Kept(pending, Past) /\ Divided(perf, pending, paths)
      /\ pending \in [Skb -> Seq(Event)] /\ age \in [Skb -> 0..IdleAge] /\ paths \in ShownPaths
      /\ recent \in Seq(Packet)
  BY TypedParts DEF PathInv, EventInv, EventsOK
<1>3. Kept(pending, PendingTimes) /\ PendingTimes \subseteq Past
  <2>1. \A k \in Skb : Times(pending[k]) \subseteq PendingTimes /\ Times(pending[k]) \subseteq Past
    BY <1>2 DEF Kept, Track, PendingTimes
  <2> QED
    BY <1>2, <2>1 DEF Kept, Track, PendingTimes
<1>4. AggOK(Aggregator, PendingTimes)
  BY <1>2, <1>3, AggregatorOK
<1>5. /\ Read \in Seq(Event) /\ Once(Read)
      /\ \A i \in DOMAIN Read : \E c \in Cpu : Read[i].at \in Times(perf[c])
  <2>1. ReadOf(Read, Cardinality(Cpu))
    BY <1>2, ReadInOrder DEF BuffersOK, BuffersApart
  <2>2. ASSUME NEW i \in DOMAIN Read PROVE \E c \in Cpu : Read[i].at \in Times(perf[c])
    <3>1. PICK m \in 1..Cardinality(Cpu) : \E j \in 1..Taken(CpuOrder[m]) : Read[i] = perf[CpuOrder[m]][j]
      BY <2>1 DEF ReadOf
    <3>2. PICK j \in 1..Taken(CpuOrder[m]) : Read[i] = perf[CpuOrder[m]][j]
      BY <3>1
    <3>3. CpuOrder[m] \in Cpu
      BY CpuOrderOnce
    <3>4. j \in DOMAIN perf[CpuOrder[m]]
      <4>1. /\ perf[CpuOrder[m]] \in Seq(Event)
            /\ DOMAIN perf[CpuOrder[m]] = 1..Len(perf[CpuOrder[m]])
            /\ Taken(CpuOrder[m]) \in 0..Len(perf[CpuOrder[m]]) /\ Len(perf[CpuOrder[m]]) \in Nat
        BY <1>2, <3>3, TakenInside, LenProperties DEF BuffersOK
      <4> QED
        BY <4>1
    <3> QED
      BY <3>2, <3>3, <3>4 DEF Times
  <2> QED
    BY <2>1, <2>2 DEF ReadOf
<1>6. \A e \in Times(Read) : \E c \in Cpu : e \in Times(perf[c])
  BY <1>5 DEF Times
<1>7. Times(Read) \intersect PendingTimes = {} /\ U \subseteq Past
  <2>1. \A c \in Cpu : Times(perf[c]) \subseteq Past /\ \A k \in Skb : Times(perf[c]) \intersect Times(pending[k]) = {}
    BY <1>2 DEF BuffersOK, Divided, Apart
  <2>2. \A c \in Cpu : Times(perf[c]) \intersect PendingTimes = {}
    BY <2>1 DEF PendingTimes
  <2> QED
    BY <1>3, <1>6, <2>1, <2>2
<1>8. AggOK(s, U)
  BY <1>4, <1>5, <1>7, IngestedKeeps
<1> HIDE DEF s
<1>9. AggOK(t, U)
  BY <1>1, <1>8, ExpireKeeps
<1> QED
  BY <1>6, <1>7, <1>9

LEMMA DrainEventsStep ==
  ASSUME PathInv, DrainPathEvents
  PROVE  PathInv'
<1> DEFINE U == PendingTimes \union Times(Read)
           s == Ingested(Aggregator, Read)
           bufs == [c \in Cpu |-> SubSeq(perf[c], Taken(c) + 1, Len(perf[c]))]
<1>1. /\ engine /\ perf' = bufs
      /\ UNCHANGED <<hop, skbOf, kernelTime, modeVars, recent, captured, fileMode>>
      /\ sweepAge' = IF sweepAge >= SweepAge THEN 0 ELSE sweepAge
  BY DEF DrainPathEvents
<1>2. PICK t \in IF sweepAge >= SweepAge THEN ExpirePaths(s) ELSE {s} :
        pending' = t.pending /\ age' = t.age /\ paths' = Stored(t.completed)
  BY DEF DrainPathEvents
<1> HIDE DEF bufs
<1>3. /\ BuffersOK(perf, Past) /\ StoreOK(paths, Past) /\ Divided(perf, pending, paths)
      /\ recent \in Seq(Packet) /\ paths \in ShownPaths
  BY TypedParts DEF PathInv, EventInv, EventsOK
<1>4. AggOK(t, U) /\ U \subseteq Past /\ \A e \in Times(Read) : \E c \in Cpu : e \in Times(perf[c])
  BY DrainedIsOK
<1> HIDE DEF s
<1>5. /\ BuffersOK(bufs, Past)
      /\ \A c \in Cpu : /\ Times(bufs[c]) \subseteq Times(perf[c]) /\ Len(bufs[c]) <= Len(perf[c])
                        /\ Times(bufs[c]) \intersect Times(Read) = {}
  BY <1>3, LeftInBuffers DEF bufs
<1>6. \A c \in Cpu : Times(bufs[c]) \intersect U = {}
  <2>1. \A c \in Cpu : Times(perf[c]) \intersect PendingTimes = {}
    BY <1>3 DEF Divided, Apart, PendingTimes
  <2> QED
    BY <1>5, <2>1
<1>7. \A p \in Packet : TimesOf(paths[p]) \intersect U = {}
  <2>1. \A p \in Packet : TimesOf(paths[p]) \intersect PendingTimes = {}
    BY <1>3 DEF Divided, PendingTimes
  <2> QED
    BY <1>3, <1>4, <2>1 DEF Divided
<1>8. \A c \in Cpu, p \in Packet : Times(bufs[c]) \intersect TimesOf(paths[p]) = {}
  BY <1>3, <1>5 DEF Divided
<1> HIDE DEF U
<1>9. EventsOK(bufs, t.pending, Stored(t.completed), Past)
  BY <1>3, <1>4, <1>5, <1>6, <1>7, <1>8, StoringKeeps
<1>10. EventInv'
  BY <1>1, <1>2, <1>9 DEF EventInv, Past
<1>11. PathTypeOK'
  <2>1. /\ pending' \in [Skb -> Seq(Event)] /\ paths' \in [Packet -> Seq(Event) \union {None}]
        /\ perf' \in [Cpu -> Seq(Event)]
    BY <1>10 DEF EventInv, EventsOK, BuffersOK, StoreOK, ShownPaths
  <2>2. age' \in [Skb -> 0..IdleAge]
    BY <1>2, <1>4, AggForm DEF AggOK
  <2>3. sweepAge' \in 0..SweepAge
    BY <1>1, PathBounds DEF PathInv, PathTypeOK
  <2>4. \A c \in Cpu : Len(perf'[c]) <= PerfMax
    <3>1. \A c \in Cpu : Len(perf[c]) \in Nat /\ Len(perf'[c]) \in Nat
      BY <1>3, <2>1, LenProperties DEF BuffersOK
    <3> QED
      BY <1>1, <1>5, <3>1, PathBounds DEF PathInv, PathTypeOK
  <2> QED
    BY <1>1, <2>1, <2>2, <2>3, <2>4 DEF PathInv, PathTypeOK, modeVars
<1>12. TraceModeInv'
  BY <1>1 DEF PathInv, TraceModeInv, modeVars
<1>13. RecentInv'
  <2>1. ASSUME fileMode PROVE \A p \in Packet : paths'[p] = paths[p]
    <3>1. recent = <<>> /\ t.completed \in Seq(Seq(Event))
      BY <1>4, <2>1, AggForm DEF AggOK, PathInv, RecentInv
    <3> QED
      BY <1>2, <1>3, <3>1, NothingStored
  <2> QED
    BY <1>1, <2>1 DEF PathInv, RecentInv, modeVars
<1> QED
  BY <1>10, <1>11, <1>12, <1>13 DEF PathInv
-----------------------------------------------------------------------------
(* Tracing is turned on and off, and a file is opened.                     *)

LEMMA AttachStep ==
  ASSUME PathInv, NEW selected \in Range(captured) \union {None}, Attach(selected),
         UNCHANGED <<hop, skbOf, kernelTime, recent, captured, fileMode, always>>
  PROVE  PathInv'
<1>1. /\ traceState = "inactive" /\ ~taken /\ taken' = TRUE /\ engine' = TRUE
      /\ UNCHANGED <<perf, aggVars, paths>>
      /\ \/ selected # None /\ kernelFilter' = Flow[selected] /\ traceState' = "filtered"
         \/ kernelFilter' = kernelFilter /\ traceState' = "active"
  BY DEF Attach
<1>2. /\ kernelFilter = None /\ recent = <<>> /\ captured \in Seq(Packet) /\ Len(captured) \in Nat
  BY <1>1, LenProperties DEF PathInv, PathTypeOK, TraceModeInv
<1>3. selected # None => Flow[selected] \in Range(Flow) /\ Flow[selected] # None
  <2>1. \A i \in DOMAIN captured : captured[i] \in Packet
    BY <1>2, LenProperties, ElementOfSeq
  <2>2. selected # None => selected \in Packet
    BY <2>1 DEF Range
  <2> QED
    BY <2>2, PacketForm
<1>4. PathTypeOK'
  BY <1>1, <1>3 DEF PathInv, PathTypeOK, aggVars
<1>5. EventInv'
  BY <1>1 DEF PathInv, EventInv, Past, aggVars
<1>6. TraceModeInv'
  BY <1>1, <1>2, <1>3 DEF TraceModeInv
<1>7. RecentInv'
  <2>1. recent' = SubSeq(captured', Len(captured') + 1, Len(captured')) /\ Len(captured') \in 0..Len(captured')
    BY <1>2, SubSeqEmpty
  <2> QED
    BY <1>1, <2>1 DEF PathInv, RecentInv
<1> QED
  BY <1>4, <1>5, <1>6, <1>7 DEF PathInv

LEMMA ModeStep ==
  ASSUME PathInv, NEW selected \in Range(captured) \union {None}, Narrow(selected) \/ Widen,
         UNCHANGED <<hop, skbOf, kernelTime, recent, captured, fileMode, always>>
  PROVE  PathInv'
<1>1. /\ traceState # "inactive" /\ traceState' \in {"active", "filtered"}
      /\ UNCHANGED <<perf, aggVars, paths, engine, taken>>
      /\ \/ selected # None /\ kernelFilter' = Flow[selected] /\ traceState' = "filtered"
         \/ kernelFilter' = None /\ traceState' = "active"
  BY DEF Narrow, Widen, Mode
<1>2. captured \in Seq(Packet)
  BY DEF PathInv, PathTypeOK
<1>3. selected # None => Flow[selected] \in Range(Flow) /\ Flow[selected] # None
  <2>1. \A i \in DOMAIN captured : captured[i] \in Packet
    BY <1>2, LenProperties, ElementOfSeq
  <2>2. selected # None => selected \in Packet
    BY <2>1 DEF Range
  <2> QED
    BY <2>2, PacketForm
<1>4. PathTypeOK'
  BY <1>1, <1>3 DEF PathInv, PathTypeOK, aggVars
<1>5. EventInv' /\ RecentInv'
  BY <1>1 DEF PathInv, EventInv, RecentInv, Past, aggVars
<1>6. engine /\ engine' /\ taken' /\ (always' => engine')
  BY <1>1 DEF PathInv, TraceModeInv
<1>7. TraceModeInv'
  BY <1>1, <1>3, <1>6 DEF TraceModeInv
<1> QED
  BY <1>4, <1>5, <1>7 DEF PathInv

LEMMA DetachStep ==
  ASSUME PathInv, Detach, ~fileMode,
         UNCHANGED <<hop, skbOf, kernelTime, recent, captured, fileMode, always>>
  PROVE  PathInv'
<1> DEFINE PT == UNION {Times(pending[k]) : k \in Skb}
           bufs == [c \in Cpu |-> <<>>]
<1>1. /\ traceState # "inactive" /\ ~always /\ engine' = FALSE /\ perf' = bufs /\ traceState' = "inactive"
      /\ UNCHANGED <<age, sweepAge, kernelFilter, taken>>
  BY DEF Detach
<1>2. PICK q \in Orders(Held(Aggregator)) :
        /\ pending' = Finish(Aggregator, q).pending
        /\ paths' = Stored(Finish(Aggregator, q).completed)
  BY DEF Detach
<1>3. /\ StoreOK(paths, Past) /\ Kept(pending, Past) /\ Divided(perf, pending, paths)
      /\ pending \in [Skb -> Seq(Event)] /\ age \in [Skb -> 0..IdleAge]
      /\ recent \in Seq(Packet)
  BY TypedParts DEF PathInv, EventInv, EventsOK
<1>4. Kept(pending, PT) /\ PT \subseteq Past
  <2>1. \A k \in Skb : Times(pending[k]) \subseteq PT /\ Times(pending[k]) \subseteq Past
    BY <1>3 DEF Kept, Track
  <2> QED
    BY <1>3, <2>1 DEF Kept, Track
<1>5. \A p \in Packet : TimesOf(paths[p]) \intersect PT = {}
  BY <1>3 DEF Divided
<1> HIDE DEF PT
<1>6. AggOK(Aggregator, PT)
  BY <1>3, <1>4, AggregatorOK
<1> DEFINE t == Finish(Aggregator, q)
<1>7. AggOK(t, PT) /\ \A k \in Skb : t.pending[k] = <<>>
  BY <1>6, FlushKeeps
<1> HIDE DEF t
<1>8. \A c \in Cpu : bufs[c] \in Seq(Event) /\ Times(bufs[c]) = {} /\ Sorted(bufs[c]) /\ Len(bufs[c]) = 0
  BY EmptySeq, EmptyTrack DEF Sorted
<1>9. BuffersOK(bufs, Past)
  BY <1>8 DEF BuffersOK, Apart
<1>10. \A c \in Cpu, p \in Packet : Times(bufs[c]) \intersect TimesOf(paths[p]) = {}
  BY <1>8
<1>11. \A c \in Cpu : Times(bufs[c]) \intersect PT = {}
  BY <1>8
<1> HIDE DEF bufs
<1>12. EventsOK(bufs, t.pending, Stored(t.completed), Past)
  BY <1>3, <1>4, <1>5, <1>7, <1>9, <1>10, <1>11, StoringKeeps
<1>13. EventInv'
  BY <1>1, <1>2, <1>12 DEF EventInv, Past, t
<1>14. PathTypeOK'
  <2>1. /\ pending' \in [Skb -> Seq(Event)] /\ paths' \in [Packet -> Seq(Event) \union {None}]
        /\ perf' \in [Cpu -> Seq(Event)]
    BY <1>13 DEF EventInv, EventsOK, BuffersOK, StoreOK, ShownPaths
  <2>2. \A c \in Cpu : Len(perf'[c]) <= PerfMax
    BY <1>1, <1>8, PathBounds
  <2> QED
    BY <1>1, <2>1, <2>2 DEF PathInv, PathTypeOK
<1>15. TraceModeInv'
  BY <1>1, <1>2, <1>7 DEF PathInv, TraceModeInv, t
<1>16. RecentInv'
  BY <1>1 DEF PathInv, RecentInv
<1> QED
  BY <1>13, <1>14, <1>15, <1>16 DEF PathInv

LEMMA FileStep ==
  ASSUME PathInv, TraceFileOpened
  PROVE  PathInv'
<1>1. /\ fileMode' = TRUE /\ captured' = <<>> /\ recent' = <<>> /\ paths' = [p \in Packet |-> None]
      /\ UNCHANGED <<kernelVars, aggVars, modeVars>>
  BY DEF TraceFileOpened
<1>2. <<>> \in Seq(Packet) /\ Len(<<>>) = 0 /\ DOMAIN <<>> = {}
  BY EmptySeq
<1>3. PathTypeOK'
  BY <1>1, <1>2, PathBounds DEF PathInv, PathTypeOK, kernelVars, aggVars, modeVars
<1>4. StoreOK(paths', Past)
  BY <1>1 DEF StoreOK, ShownPaths, TimesOf
<1>5. EventInv'
  BY <1>1, <1>4 DEF PathInv, EventInv, EventsOK, Divided, TimesOf, Past, kernelVars, aggVars
<1>6. TraceModeInv'
  BY <1>1 DEF PathInv, TraceModeInv, aggVars, modeVars
<1>7. RecentInv'
  <2>1. recent' = SubSeq(captured', 0 + 1, Len(captured')) /\ 0 \in 0..Len(captured')
    BY <1>1, <1>2, SubSeqEmpty
  <2> QED
    BY <1>1, <1>2, <2>1 DEF RecentInv
<1> QED
  BY <1>3, <1>5, <1>6, <1>7 DEF PathInv

LEMMA PathInitially == PathInit => PathInv
<1> SUFFICES ASSUME PathInit PROVE PathInv
  OBVIOUS
<1>1. <<>> \in Seq(Packet) /\ <<>> \in Seq(Event) /\ Len(<<>>) = 0 /\ DOMAIN <<>> = {}
  BY EmptySeq
<1>2. Track(<<>>, Past) /\ Times(<<>>) = {} /\ Sorted(<<>>)
  BY <1>1, EmptyTrack DEF Sorted
<1>3. PathTypeOK
  <2>1. always \in BOOLEAN /\ engine = always /\ taken = always /\ fileMode \in BOOLEAN
    BY BoundAssumption DEF PathInit
  <2>2. /\ Hops \in Nat /\ PerfMax \in Nat /\ IdleAge \in Nat /\ SweepAge \in Nat /\ Window \in Nat
    BY PathBounds
  <2>3. /\ hop \in [Packet -> 0..Hops] /\ skbOf \in [Packet -> Skb \union {None}]
        /\ age \in [Skb -> 0..IdleAge] /\ sweepAge \in 0..SweepAge /\ kernelTime \in Nat
    BY <2>2 DEF PathInit
  <2>4. /\ perf \in [Cpu -> Seq(Event)] /\ \A c \in Cpu : Len(perf[c]) <= PerfMax
    BY <1>1, <2>2 DEF PathInit
  <2>5. /\ pending \in [Skb -> Seq(Event)] /\ recent \in Seq(Packet) /\ captured \in Seq(Packet)
        /\ Len(recent) <= Window /\ paths \in [Packet -> Seq(Event) \union {None}]
    BY <1>1, <2>2 DEF PathInit
  <2>6. /\ kernelFilter \in Range(Flow) \union {None} /\ traceState \in {"inactive", "active", "filtered"}
    BY DEF PathInit
  <2> QED
    BY <2>1, <2>3, <2>4, <2>5, <2>6 DEF PathTypeOK
<1>4. EventInv
  <2>1. BuffersOK(perf, Past)
    BY <1>1, <1>2 DEF PathInit, BuffersOK, Apart
  <2>2. Kept(pending, Past)
    BY <1>2 DEF PathInit, Kept, Apart
  <2>3. StoreOK(paths, Past)
    BY DEF PathInit, StoreOK, ShownPaths, TimesOf
  <2>4. Divided(perf, pending, paths)
    BY <1>2 DEF PathInit, Divided, Apart, TimesOf
  <2> QED
    BY <1>3, <2>1, <2>2, <2>3, <2>4, TypedParts DEF EventInv, EventsOK
<1>5. TraceModeInv
  BY DEF PathInit, TraceModeInv
<1>6. RecentInv
  <2>1. recent = SubSeq(captured, 0 + 1, Len(captured)) /\ 0 \in 0..Len(captured)
    BY <1>1, SubSeqEmpty DEF PathInit
  <2> QED
    BY <1>1, <2>1 DEF PathInit, RecentInv
<1> QED
  BY <1>3, <1>4, <1>5, <1>6 DEF PathInv

LEMMA PathStep == PathInv /\ [PathNext]_pathVars => PathInv'
<1> SUFFICES ASSUME PathInv, [PathNext]_pathVars PROVE PathInv'
  OBVIOUS
<1>1. ASSUME NEW p \in Packet, NEW c \in Cpu, NEW set \in BOOLEAN, HandleSkb(p, c, set) PROVE PathInv'
  BY <1>1, SkbStep
<1>2. ASSUME NEW p \in Packet, DrainPacket(p) PROVE PathInv'
  BY <1>2, DrainPacketStep
<1>3. CASE DrainPathEvents
  BY <1>3, DrainEventsStep
<1>4. CASE PathTick
  BY <1>4, TickStep
<1>5. CASE TogglePathTrace
  <2>1. ~fileMode /\ UNCHANGED <<hop, skbOf, kernelTime, recent, captured, fileMode, always>>
    BY <1>5 DEF TogglePathTrace
  <2>2. CASE \E p \in Range(captured) \union {None} : Attach(p) \/ Narrow(p)
    BY <2>1, <2>2, AttachStep, ModeStep
  <2>3. CASE Widen
    BY <2>1, <2>3, ModeStep
  <2>4. CASE Detach
    BY <2>1, <2>4, DetachStep
  <2> QED
    BY <1>5, <2>2, <2>3, <2>4 DEF TogglePathTrace
<1>6. CASE TraceFileOpened
  BY <1>6, FileStep
<1>7. CASE UNCHANGED pathVars
  BY <1>7 DEF PathInv, PathTypeOK, EventInv, TraceModeInv, RecentInv, Past, pathVars, kernelVars, aggVars, modeVars
<1> QED
  BY <1>1, <1>2, <1>3, <1>4, <1>5, <1>6, <1>7 DEF PathNext
-----------------------------------------------------------------------------
(* What follows from the invariant.                                        *)

(* Lists of events at times apart have no event in common.                 *)
LEMMA NoCommonEvent ==
  ASSUME NEW x, NEW y, Times(x) \intersect Times(y) = {}
  PROVE  Range(x) \intersect Range(y) = {}
<1> SUFFICES ASSUME NEW i \in DOMAIN x, NEW j \in DOMAIN y, x[i] = y[j] PROVE FALSE
  BY DEF Range
<1>1. x[i].at \in Times(x) /\ y[j].at \in Times(y)
  BY DEF Times
<1> QED
  BY <1>1

LEMMA OnceFollows ==
  ASSUME PathInv
  PROVE  EventsOnce
<1> DEFINE holders == {perf[c] : c \in Cpu} \union {pending[s] : s \in Skb} \union {paths[p] : p \in Packet}
<1>1. EventsOK(perf, pending, paths, Past)
  BY DEF PathInv, EventInv
<1>2. \A c \in Cpu : perf[c] \in Seq(Event)
  BY <1>1 DEF EventsOK, BuffersOK
<1>3. \A s \in Skb : pending[s] \in Seq(Event)
  BY <1>1 DEF EventsOK
<1>4. ASSUME NEW p \in Packet, paths[p] # None
      PROVE  paths[p] \in Seq(Event) /\ paths[p] # <<>> /\ TimesOf(paths[p]) = Times(paths[p])
  BY <1>1, <1>4 DEF EventsOK, StoreOK, OwnPath, IsPath, Track, TimesOf
<1>5. ASSUME NEW x, NEW y, x # y,
             (\E c \in Cpu : x = perf[c]) \/ (\E s \in Skb : x = pending[s])
               \/ (\E p \in Packet : x = paths[p] /\ x # None),
             (\E c \in Cpu : y = perf[c]) \/ (\E s \in Skb : y = pending[s])
               \/ (\E p \in Packet : y = paths[p] /\ y # None)
      PROVE  Times(x) \intersect Times(y) = {}
  <2>1. CASE \E c \in Cpu : x = perf[c]
    BY <1>1, <1>4, <1>5, <2>1 DEF EventsOK, BuffersOK, Divided, Apart
  <2>2. CASE \E s \in Skb : x = pending[s]
    BY <1>1, <1>4, <1>5, <2>2 DEF EventsOK, Kept, Divided, Apart
  <2>3. CASE \E p \in Packet : x = paths[p] /\ x # None
    <3>1. PICK p \in Packet : x = paths[p] /\ x # None
      BY <2>3
    <3>2. TimesOf(paths[p]) = Times(x)
      BY <1>4, <3>1
    <3>3. CASE \E c \in Cpu : y = perf[c]
      BY <1>1, <3>2, <3>3 DEF EventsOK, Divided
    <3>4. CASE \E s \in Skb : y = pending[s]
      BY <1>1, <3>2, <3>4 DEF EventsOK, Divided
    <3>5. CASE \E q \in Packet : y = paths[q] /\ y # None
      <4>1. PICK q \in Packet : y = paths[q] /\ y # None
        BY <3>5
      <4>2. TimesOf(paths[q]) = Times(y) /\ p # q
        BY <1>4, <1>5, <3>1, <4>1
      <4> QED
        BY <1>1, <3>2, <4>2 DEF EventsOK, StoreOK
    <3> QED
      BY <1>5, <3>3, <3>4, <3>5
  <2> QED
    BY <1>5, <2>1, <2>2, <2>3
<1>6. \A x, y \in holders \ {None, <<>>} : x # y => Range(x) \intersect Range(y) = {}
  <2> SUFFICES ASSUME NEW x \in holders \ {None, <<>>}, NEW y \in holders \ {None, <<>>}, x # y
               PROVE  Range(x) \intersect Range(y) = {}
    OBVIOUS
  <2>1. Times(x) \intersect Times(y) = {}
    BY <1>5
  <2> QED
    BY <2>1, NoCommonEvent
(* A list that is not empty has times in common with itself.               *)
<1>7. \A x \in Seq(Event) : x # <<>> => Times(x) # {}
  <2> SUFFICES ASSUME NEW x \in Seq(Event), x # <<>> PROVE Times(x) # {}
    OBVIOUS
  <2>1. Len(x) \in Nat /\ Len(x) # 0 /\ DOMAIN x = 1..Len(x)
    BY LenProperties, EmptySeq
  <2>2. 1 \in DOMAIN x
    BY <2>1
  <2> QED
    BY <2>2 DEF Times
<1>8. ASSUME NEW p \in Packet, NEW q \in Packet, p # q, paths[p] # None PROVE paths[p] # paths[q]
  <2>1. Times(paths[p]) # {}
    BY <1>4, <1>7, <1>8
  <2> QED
    BY <1>1, <1>4, <1>8, <2>1 DEF EventsOK, StoreOK
<1>9. ASSUME NEW s \in Skb, NEW p \in Packet, pending[s] # <<>> PROVE pending[s] # paths[p]
  <2>1. Times(pending[s]) # {} /\ pending[s] # None
    BY <1>3, <1>7, <1>9, NoneAssumption
  <2> QED
    BY <1>1, <1>4, <2>1 DEF EventsOK, Divided
<1> QED
  BY <1>6, <1>8, <1>9 DEF EventsOnce

LEMMA SoundFollows ==
  ASSUME PathInv
  PROVE  PathsSound
<1>1. PathTypeOK
  BY DEF PathInv
<1>2. EventsOnce
  BY OnceFollows
<1>3. \A p \in Packet : paths[p] # None => OwnPath(p, paths[p], Past)
  BY DEF PathInv, EventInv, EventsOK, StoreOK
<1>4. HopsInTimeOrder
  BY <1>3 DEF HopsInTimeOrder, OwnPath, IsPath, Sorted
<1>5. PathOfItsHosts
  <2> SUFFICES ASSUME NEW p \in Packet, NEW e \in EventsAt(paths[p]), NEW f \in EventsAt(paths[p])
               PROVE  /\ <<e.flow.src, e.flow.dst>> = <<f.flow.src, f.flow.dst>>
                      /\ {e.flow.src, e.flow.dst} = {Flow[p].src, Flow[p].dst}
    BY DEF PathOfItsHosts
  <2>1. paths[p] # None /\ e \in Range(paths[p]) /\ f \in Range(paths[p])
    BY DEF EventsAt
  <2> DEFINE x == paths[p]
  <2>2. Track(x, Past) /\ x # <<>> /\ {x[1].flow.src, x[1].flow.dst} = {Flow[p].src, Flow[p].dst}
    BY <1>3, <2>1 DEF OwnPath, IsPath
  <2>3. 1 \in DOMAIN x
    <3>1. Len(x) \in Nat /\ Len(x) # 0 /\ DOMAIN x = 1..Len(x)
      BY <2>2, LenProperties, EmptySeq DEF Track
    <3> QED
      BY <3>1
  <2>4. PICK i \in DOMAIN x, j \in DOMAIN x : e = x[i] /\ f = x[j]
    BY <2>1 DEF Range
  <2> HIDE DEF x
  <2>5. SameHosts(e, f) /\ SameHosts(x[1], e)
    BY <2>2, <2>3, <2>4 DEF Track
  <2> QED
    BY <2>2, <2>5 DEF SameHosts
<1>6. FilterAsShown /\ InactiveIsFlushed
  BY DEF PathInv, TraceModeInv, FilterAsShown, InactiveIsFlushed
<1>7. FileHasNoPaths
  BY DEF PathInv, RecentInv, FileHasNoPaths
<1> QED
  BY <1>1, <1>2, <1>4, <1>5, <1>6, <1>7 DEF PathsSound

(* Whatever the order in which the kernel's functions are seen on its      *)
(* CPUs, the buffers are read and packets are captured: no event is in two *)
(* paths; a path is in time order, of one pair of hosts, which are its     *)
(* packet's; the filter is as shown; and nothing is left over when tracing *)
(* is turned off or a file is opened.                                      *)
THEOREM PathsAreSound == PathSpec => []PathsSound
<1>1. PathInv => PathsSound
  BY SoundFollows
<1> QED
  BY <1>1, PathInitially, PathStep, PTL DEF PathSpec

(* Of all packets captured with the flow of a path, the last one gets it.  *)
LEMMA NewestGetsIt ==
  ASSUME PathInv, DrainPathEvents, NEW i \in DOMAIN captured,
         paths'[captured[i]] # paths[captured[i]],
         Flow[captured[i]] = paths'[captured[i]][1].flow,
         NEW j \in DOMAIN captured, Flow[captured[j]] = Flow[captured[i]]
  PROVE  j <= i
<1> DEFINE p == captured[i]
           s == Ingested(Aggregator, Read)
<1>1. PICK t \in IF sweepAge >= SweepAge THEN ExpirePaths(s) ELSE {s} : paths' = Stored(t.completed)
  BY DEF DrainPathEvents
<1>2. engine
  BY DEF DrainPathEvents
<1>3. PICK k \in 0..Len(captured) : recent = SubSeq(captured, k + 1, Len(captured))
  BY <1>2 DEF PathInv, RecentInv
<1>4. /\ recent \in Seq(Packet) /\ captured \in Seq(Packet) /\ paths \in ShownPaths
      /\ Len(captured) \in Nat /\ DOMAIN captured = 1..Len(captured) /\ p \in Packet
  BY TypedParts, LenProperties, ElementOfSeq DEF PathInv
<1>5. t.completed \in Seq(Seq(Event))
  BY DrainedIsOK, AggForm DEF AggOK
<1> DEFINE done == t.completed
<1>6. StoredOf(Stored(done), done, Len(done))
  BY <1>4, <1>5, StoredIsMatched
<1> HIDE DEF done, s, p
<1>7. PICK m \in 1..Len(done) : paths'[p] = done[m] /\ Matched(done[m]) = p
  <2>1. paths' = Stored(done) /\ paths'[p] # paths[p]
    BY <1>1 DEF done, p
  <2> QED
    BY <1>4, <1>6, <2>1 DEF StoredOf
<1>8. Flow[p] = done[m][1].flow /\ Matched(done[m]) # None
  BY <1>4, <1>7, PacketForm DEF p
<1>9. PICK r \in DOMAIN recent :
        /\ p = recent[r]
        /\ \A n \in DOMAIN recent : Flow[recent[n]] = Flow[recent[r]] => n <= r
  BY <1>4, <1>7, <1>8, MatchedIsRecent
<1>10. /\ DOMAIN recent = 1..(Len(captured) - k) /\ k \in Nat
       /\ \A n \in 1..(Len(captured) - k) : recent[n] = captured[k + n] /\ k + n \in DOMAIN captured
  BY <1>3, <1>4, RestOf
<1>11. i = k + r /\ r \in Nat
  <2>1. captured[k + r] = captured[i] /\ k + r \in DOMAIN captured
    BY <1>9, <1>10 DEF p
  <2> QED
    BY <1>9, <1>10, <2>1 DEF PathInv, RecentInv
<1>12. CASE j <= k
  BY <1>4, <1>10, <1>11, <1>12
<1>13. CASE j > k
  <2>1. j - k \in 1..(Len(captured) - k) /\ k + (j - k) = j
    BY <1>4, <1>10, <1>13
  <2>2. recent[j - k] = captured[j] /\ j - k \in DOMAIN recent
    BY <1>10, <2>1
  <2>3. j - k <= r
    BY <1>9, <2>2 DEF p
  <2> QED
    BY <1>4, <1>10, <1>11, <2>1, <2>3
<1> QED
  BY <1>4, <1>10, <1>12, <1>13

(* A finished path goes to the newest packet of its flow and direction of  *)
(* all that were captured, not only of those that are remembered.          *)
THEOREM PathsGoToNewest == PathSpec => MatchedToNewest
<1>1. PathInv /\ [PathNext]_pathVars =>
        [DrainPathEvents => \A i \in DOMAIN captured :
           LET p == captured[i]
           IN  paths'[p] # paths[p] /\ Flow[p] = paths'[p][1].flow
                 => \A j \in DOMAIN captured : Flow[captured[j]] = Flow[p] => j <= i]_pathVars
  BY NewestGetsIt
<1> QED
  BY <1>1, PathInitially, PathStep, PTL DEF PathSpec, MatchedToNewest
=============================================================================
