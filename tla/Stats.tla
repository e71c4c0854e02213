-------------------------------- MODULE Stats --------------------------------
(***************************************************************************)
(* The statistics of a view v, the sequence of the packets in it           *)
(* (stats/protocol.rs, conversations.rs, endpoints.rs, io_graph.rs).       *)
(* Times are whole numbers.                                                *)
(***************************************************************************)
EXTENDS Integers, Sequences, FiniteSets, FiniteSetsExt, SequencesExt

CONSTANTS
  Colon,    \* addresses written with a colon: IPv6, and those of the link
  Numeric,  \* the number of each address that parses, as a function
  Text,     \* the place of every address in the order of texts
  NoPort    \* the port of a packet that has none; lower than all others

(* An address that parses is a number of its own, and texts are compared   *)
(* by what is in them.                                                     *)
ASSUME AddressesDiffer ==
  /\ Numeric \in [DOMAIN Numeric -> Int] /\ Text \in [DOMAIN Text -> Int]
  /\ \A a, b \in DOMAIN Numeric : Numeric[a] = Numeric[b] => a = b
  /\ \A a, b \in DOMAIN Text : Text[a] = Text[b] => a = b

(* f[1] + ... + f[n].                                                      *)
SumTo(f, n) ==
  LET sum[k \in 0..n] == IF k = 0 THEN 0 ELSE sum[k - 1] + f[k] IN sum[n]

Total(I) == Cardinality(I)
Bytes(v, I) == SumTo([i \in DOMAIN v |-> IF i \in I THEN v[i].bytes ELSE 0], Len(v))
Times(v, I) == {v[i].ts : i \in I}

(* The elements of S in the order R, a set of pairs.                       *)
Arranged(S, R) ==
  [n \in 1..Cardinality(S) |-> CHOOSE x \in S : Cardinality({y \in S : <<y, x>> \in R}) = n - 1]

(* slice::sort_by: elements of one value keep their order.  value has the  *)
(* value of each place.                                                    *)
ValueOrder(value, ascending) ==
  {x \in (DOMAIN value) \X (DOMAIN value) :
     IF value[x[1]] = value[x[2]] THEN x[1] < x[2]
     ELSE IF ascending THEN value[x[1]] < value[x[2]] ELSE value[x[2]] < value[x[1]]}

StableSort(s, value, ascending) ==
  LET places == Arranged(DOMAIN s, ValueOrder(value, ascending))
  IN [n \in DOMAIN s |-> s[places[n]]]

-----------------------------------------------------------------------------
(* The protocol hierarchy.  A node is named by the path that leads to it.  *)

TcpApps == {"HTTP", "TLS", "SSH", "SMTP", "FTP", "Telnet", "RDP", "BGP", "LDAP"}
UdpApps == {"DHCP", "NTP", "SNMP", "Syslog", "TFTP", "mDNS", "RADIUS"}
KnownProtos == TcpApps \union UdpApps
           \union {"Ethernet", "PFLOG", "ENC", "IPv4", "IPv6", "ARP", "TCP", "UDP", "ICMP", "ICMPv6", "DNS"}

Network(p) == IF p.src \in Colon THEN "IPv6" ELSE "IPv4"

Layers(p) ==
  LET q == p.proto IN
  CASE q \in TcpApps -> <<"Ethernet", Network(p), "TCP", q>>
    [] q \in UdpApps -> <<"Ethernet", Network(p), "UDP", q>>
    [] q = "DNS" -> <<"Ethernet", Network(p), IF p.flags # 0 THEN "TCP" ELSE "UDP", q>>
    [] q \in {"TCP", "UDP"} -> <<"Ethernet", Network(p), q>>
    [] q = "ICMP" -> <<"Ethernet", "IPv4", q>>
    [] q = "ICMPv6" -> <<"Ethernet", "IPv6", q>>
    [] q = "Ethernet" -> <<q>>
    [] q \in {"PFLOG", "ENC"} -> <<q, Network(p)>>
    [] OTHER -> <<"Ethernet", q>>

(* A fault: DNS is thought of as a protocol over UDP alone.                *)
IsChildOfUdpDns(child, parent) ==
  \/ parent \in {"IPv4", "IPv6"} /\ child \in {"TCP", "UDP", "ICMP", "ICMPv6"}
  \/ parent = "TCP" /\ child \in TcpApps
  \/ parent = "UDP" /\ child \in UdpApps \union {"DNS"}
  \/ parent \in {"Ethernet", "PFLOG", "ENC"} /\ child \in {"IPv4", "IPv6", "ARP"}
  \/ child \notin KnownProtos

IsChildOf(child, parent) ==
  \/ parent = "IPv4" /\ child \in {"TCP", "UDP", "ICMP"}
  \/ parent = "IPv6" /\ child \in {"TCP", "UDP", "ICMPv6"}
  \/ parent = "TCP" /\ child \in TcpApps \union {"DNS"}
  \/ parent = "UDP" /\ child \in UdpApps \union {"DNS"}
  \/ parent \in {"Ethernet", "PFLOG", "ENC"} /\ child \in {"IPv4", "IPv6"}
  \/ parent = "Ethernet" /\ child = "ARP"
  \/ child \notin KnownProtos

(* level_counts: the packets with a protocol at a depth, whatever is above.*)
Counted(v, d, q) == {i \in DOMAIN v : d <= Len(Layers(v[i])) /\ Layers(v[i])[d] = q}
Level(v, d) == {Layers(v[i])[d] : i \in {j \in DOMAIN v : d <= Len(Layers(v[j]))}}

Below(v, paths, d) ==
  {Append(x[1], x[2]) : x \in {y \in paths \X Level(v, d) : IsChildOf(y[2], y[1][Len(y[1])])}}

ProtoPaths(v) ==
  LET one == {<<q>> : q \in Level(v, 1)}
      two == Below(v, one, 2)
      three == Below(v, two, 3)
  IN one \union two \union three \union Below(v, three, 4)

ProtoNode(v, path) ==
  LET counted == Counted(v, Len(path), path[Len(path)])
  IN [path |-> path, packets |-> Total(counted), bytes |-> Bytes(v, counted)]

ProtoNodes(v) == {ProtoNode(v, path) : path \in ProtoPaths(v)}

(* build_tree and its sorts, in pre-order.  Siblings of one count come as  *)
(* the hash map lists them: as Tie orders protocols.                       *)
LeadsTo(m, n) == Len(m) < Len(n) /\ \A k \in 1..Len(m) : m[k] = n[k]

(* Where m and n part, m takes the way that is listed first.               *)
Parts(m, n, k, count, Tie) ==
  LET a == SubSeq(m, 1, k)
      b == SubSeq(n, 1, k)
  IN /\ k <= Len(m) /\ k <= Len(n) /\ m[k] # n[k] /\ \A j \in 1..(k - 1) : m[j] = n[j]
     /\ count[a] > count[b] \/ (count[a] = count[b] /\ Tie[m[k]] < Tie[n[k]])

TreeOrder(paths, count, Tie) ==
  {x \in paths \X paths :
     LeadsTo(x[1], x[2]) \/ \E k \in 1..4 : Parts(x[1], x[2], k, count, Tie)}

BuildTree(v, Tie) ==
  LET paths == ProtoPaths(v)
      count == [path \in paths |-> ProtoNode(v, path).packets]
      order == Arranged(paths, TreeOrder(paths, count, Tie))
  IN [n \in DOMAIN order |-> ProtoNode(v, order[n])]

(* A fault: a collapsed node hides its children but not theirs.            *)
FlattenNodeChildren(acc, node, expanded) ==
  IF Len(node.path) = acc.hidden THEN acc
  ELSE [rows |-> Append(acc.rows, node),
        hidden |-> IF expanded[Len(acc.rows) + 1] THEN 0 ELSE Len(node.path) + 1]

(* flatten: nodes below a collapsed one are skipped.  A node's index, by   *)
(* which it is found expanded or collapsed, is that of the row it gets.    *)
FlattenNode(acc, node, expanded) ==
  IF acc.hidden # 0 /\ Len(node.path) >= acc.hidden THEN acc
  ELSE [rows |-> Append(acc.rows, node),
        hidden |-> IF expanded[Len(acc.rows) + 1] THEN 0 ELSE Len(node.path) + 1]

Flatten(tree, expanded) ==
  LET state[n \in 0..Len(tree)] ==
        IF n = 0 THEN [rows |-> <<>>, hidden |-> 0] ELSE FlattenNode(state[n - 1], tree[n], expanded)
  IN state[Len(tree)].rows

-----------------------------------------------------------------------------
(* Conversations and endpoints.                                            *)

(* A fault: addresses are compared, ports are not.                         *)
AddrIsLowerPortless(a, ap, b, bp) ==
  IF {a, b} \subseteq DOMAIN Numeric THEN Numeric[a] <= Numeric[b] ELSE Text[a] <= Text[b]

AddrIsLower(a, ap, b, bp) ==
  LET rank == IF {a, b} \subseteq DOMAIN Numeric THEN Numeric ELSE Text
  IN rank[a] < rank[b] \/ (rank[a] = rank[b] /\ ap <= bp)

IsForward(p) == AddrIsLower(p.src, p.srcPort, p.dst, p.dstPort)

ConvKey(p) ==
  IF IsForward(p) THEN [a |-> <<p.src, p.srcPort>>, b |-> <<p.dst, p.dstPort>>, proto |-> p.proto]
  ELSE [a |-> <<p.dst, p.dstPort>>, b |-> <<p.src, p.srcPort>>, proto |-> p.proto]

Conversation(v, key) ==
  LET its == {i \in DOMAIN v : ConvKey(v[i]) = key}
      forward == {i \in its : IsForward(v[i])}
  IN [key |-> key,
      packetsAtoB |-> Total(forward), packetsBtoA |-> Total(its \ forward),
      bytesAtoB |-> Bytes(v, forward), bytesBtoA |-> Bytes(v, its \ forward),
      first |-> Min(Times(v, its)), last |-> Max(Times(v, its))]

Conversations(v) == {Conversation(v, key) : key \in {ConvKey(v[i]) : i \in DOMAIN v}}

(* A fault: a packet to its own sender is counted for the sender alone.    *)
EndpointSenders(v, addr) ==
  LET tx == {i \in DOMAIN v : v[i].src = addr /\ v[i].bytes > 0}
      rx == {i \in DOMAIN v \ tx : v[i].dst = addr /\ v[i].bytes > 0}
  IN [key |-> addr, txPackets |-> Total(tx), rxPackets |-> Total(rx),
      txBytes |-> Bytes(v, tx), rxBytes |-> Bytes(v, rx)]

(* update_endpoint: a packet without bytes is entered and not counted.     *)
Endpoint(v, addr) ==
  LET tx == {i \in DOMAIN v : v[i].src = addr /\ v[i].bytes > 0}
      rx == {i \in DOMAIN v : v[i].dst = addr /\ v[i].bytes > 0}
  IN [key |-> addr, txPackets |-> Total(tx), rxPackets |-> Total(rx),
      txBytes |-> Bytes(v, tx), rxBytes |-> Bytes(v, rx)]

Endpoints(v) ==
  {Endpoint(v, addr) : addr \in UNION {{v[i].src, v[i].dst} : i \in DOMAIN v}}

ConvValue(r, column) ==
  CASE column = "TotalPackets" -> r.packetsAtoB + r.packetsBtoA
    [] column = "TotalBytes" -> r.bytesAtoB + r.bytesBtoA
    [] column = "PacketsAtoB" -> r.packetsAtoB
    [] column = "PacketsBtoA" -> r.packetsBtoA
    [] column = "Duration" -> r.last - r.first

EndpointValue(r, column) ==
  CASE column = "TotalPackets" -> r.txPackets + r.rxPackets
    [] column = "TotalBytes" -> r.txBytes + r.rxBytes
    [] column = "TxPackets" -> r.txPackets
    [] column = "RxPackets" -> r.rxPackets
    [] column = "TxBytes" -> r.txBytes
    [] column = "RxBytes" -> r.rxBytes

-----------------------------------------------------------------------------
(* The I/O graph.                                                          *)

(* A fault: the last packet falls past the last bucket.                    *)
BucketUnclamped(ts, start, end, n) ==
  IF start >= end THEN 1 ELSE ((ts - start) * n) \div (end - start) + 1

(* The bucket of a time; the last packet is put into the last.             *)
Bucket(ts, start, end, n) ==
  IF start >= end THEN 1
  ELSE Min({((ts - start) * n) \div (end - start) + 1, n})

IoGraph(v, n) ==
  LET start == IF v = <<>> THEN 0 ELSE Min(Times(v, DOMAIN v))
      end == IF v = <<>> THEN 0 ELSE Max(Times(v, DOMAIN v))
      In(b) == {i \in DOMAIN v : Bucket(v[i].ts, start, end, n) = b}
      counts == [b \in 1..n |-> Total(In(b))]
      sizes == [b \in 1..n |-> Bytes(v, In(b))]
  IN [packets |-> counts, bytes |-> sizes, start |-> start, end |-> end,
      maxPackets |-> Max(Range(counts)), maxBytes |-> Max(Range(sizes))]

=============================================================================
