----------------------------- MODULE FastDissect -----------------------------
(***************************************************************************)
(* The fast dissection of one packet (dissect/fast.rs): the row of the     *)
(* packet table and the layers of the detail pane, which are parsed apart  *)
(* from each other, for every type of link.  A packet is what its headers  *)
(* say and how many of its bytes were captured.                            *)
(***************************************************************************)
EXTENDS Stats, FilterEval

CONSTANTS
  Frames,    \* packets as they were sent, captured as a whole
  AddressIn  \* the address that is written for "mac", "ip4" and "ip6"

VARIABLE frame  \* one of them, cut to its captured bytes

LinkTypes == {"ethernet", "raw", "null", "sll", "pflog", "enc"}

(* LinkType::from_pcap and to_pcap.                                        *)
FromPcap(dlt) ==
  CASE dlt = 1 -> "ethernet" [] dlt \in {101, 228, 229} -> "raw" [] dlt = 0 -> "null"
    [] dlt = 113 -> "sll" [] dlt = 117 -> "pflog" [] dlt = 109 -> "enc"

(* A fault: packets of raw links are saved as if they had the header of    *)
(* the loopback device.                                                    *)
ToPcapNull(link) ==
  CASE link = "ethernet" -> 1 [] link = "sll" -> 113 [] link = "pflog" -> 117
    [] link = "enc" -> 109 [] OTHER -> 0

ToPcap(link) ==
  CASE link = "ethernet" -> 1 [] link = "raw" -> 101 [] link = "null" -> 0
    [] link = "sll" -> 113 [] link = "pflog" -> 117 [] link = "enc" -> 109

-----------------------------------------------------------------------------
(* Lengths of headers, and what the library makes of the captured bytes.   *)

(* parse_pflog_header: a length of 0 stands for that of FreeBSD.           *)
PflogLength(f) == IF f.header = 0 THEN 48 ELSE f.header

LinkLength(f) ==
  CASE f.link = "ethernet" -> 14 + 4 * f.vlans [] f.link = "sll" -> 16 [] f.link = "null" -> 4
    [] f.link = "raw" -> 0 [] f.link = "enc" -> 12 [] f.link = "pflog" -> PflogLength(f)
NetLength(f) == CASE f.net = "ip4" -> f.ihl [] f.net = "ip6" -> 40 [] f.net = "arp" -> 28 [] OTHER -> 0
Whole(f) == LinkLength(f) + NetLength(f) + 24

(* What is sent: a port has a number, the length of an IPv4 header counts  *)
(* its 20 fixed bytes, ICMP is over the IP it belongs to.  The library     *)
(* reads two VLAN tags at most; the header of pflog begins with its length,*)
(* one byte, which may be any.                                             *)
FrameOK(f) ==
  /\ f.link \in LinkTypes /\ f.net \in {"ip4", "ip6", "arp", "other"}
  /\ f.transport \in {"tcp", "udp", "icmp4", "icmp6", "none"}
  /\ f.transport = "icmp4" => f.net = "ip4"
  /\ f.transport = "icmp6" => f.net = "ip6"
  /\ f.vlans \in 0..2 /\ f.ihl \in Nat /\ f.ihl >= 20 /\ f.header \in 0..255
  /\ f.srcPort # Absent /\ f.dstPort # Absent /\ f.flags \subseteq DOMAIN FlagBit
  /\ f.captured \in 0..Whole(f)

Header == {"link", "vlans", "net", "ihl", "transport", "fragment", "srcPort", "dstPort", "flags",
           "header", "captured"}

ASSUME FrameAssumption ==
  \A f \in Frames :
    f = [x \in Header |-> f[x]] /\ FrameOK(f) /\ f.captured = Whole(f)

(* Addresses of IPv6 are written with a colon, those of IPv4 without one,  *)
(* those of the link otherwise.                                            *)
ASSUME AddressAssumption ==
  /\ AddressIn["ip4"] \notin Colon /\ AddressIn["ip6"] \in Colon
  /\ {"", AddressIn["mac"]} \intersect {AddressIn["ip4"], AddressIn["ip6"]} = {}

(* The headers that SlicedPacket finds: none if the packet was cut inside  *)
(* one, or before the end that its IP header gives.  What follows in a     *)
(* fragment is not read.                                                   *)
Sliced(f) ==
  IF f.net \in {"ip4", "ip6"} /\ f.captured >= Whole(f)
    THEN [ok |-> TRUE, net |-> f.net, transport |-> IF f.fragment THEN "none" ELSE f.transport]
  ELSE IF f.net \notin {"ip4", "ip6"} /\ f.link \in {"ethernet", "sll"} /\ f.captured >= LinkLength(f)
    THEN [ok |-> TRUE, net |-> "none", transport |-> "none"]
  ELSE [ok |-> FALSE, net |-> "none", transport |-> "none"]

(* A fault: headers are read however short the packet was cut.             *)
HasMetaAlways(f) == f.link \in {"pflog", "enc"} /\ f.captured > 0

(* The header of pflog or enc is there.                                    *)
HasMeta(f) ==
  \/ f.link = "pflog" /\ f.captured > 0 /\ f.captured >= PflogLength(f)
  \/ f.link = "enc" /\ f.captured >= 12

(* parse_pflog_header goes by the length in the header alone and then      *)
(* indexes its first 24 bytes: a shorter packet with a shorter length ends *)
(* the thread there, and there is neither a row nor a detail.              *)
ReadsPastEnd(f) ==
  f.link = "pflog" /\ f.captured > 0 /\ f.captured >= PflogLength(f) /\ f.captured < 24

Parsed(f) ==
  IF f.link \in {"pflog", "enc"} /\ ~HasMeta(f)
    THEN [ok |-> FALSE, net |-> "none", transport |-> "none"] ELSE Sliced(f)

-----------------------------------------------------------------------------
(* Protocols by port.                                                      *)

(* A fault: only the port of the receiver is looked at.                    *)
AmongReceivers(ports, src, dst) == dst \in ports

Among(ports, src, dst) == {src, dst} \intersect ports # {}

(* The first row of a table with either port.                              *)
Classify(rows, src, dst, other) ==
  LET hits == {n \in DOMAIN rows : Among(rows[n][1], src, dst)}
  IN IF hits = {} THEN other ELSE rows[Min(hits)][2]

ClassifyTcpPort(src, dst) ==
  Classify(<<<<{80, 8080}, "HTTP">>, <<{443}, "TLS">>, <<{53}, "DNS">>, <<{22}, "SSH">>,
             <<{25, 465, 587}, "SMTP">>, <<{20, 21}, "FTP">>, <<{23}, "Telnet">>, <<{3389}, "RDP">>,
             <<{179}, "BGP">>, <<{389, 636}, "LDAP">>>>, src, dst, "TCP")

(* A fault: LDAP is known over UDP here, and over TCP alone to the others. *)
ClassifyUdpPortLdap(src, dst) ==
  Classify(<<<<{53}, "DNS">>, <<{67, 68}, "DHCP">>, <<{389}, "LDAP">>>>, src, dst, "UDP")

ClassifyUdpPort(src, dst) ==
  Classify(<<<<{53}, "DNS">>, <<{67, 68}, "DHCP">>, <<{123}, "NTP">>, <<{161, 162}, "SNMP">>,
             <<{514}, "Syslog">>, <<{69}, "TFTP">>, <<{5353}, "mDNS">>, <<{1812, 1813}, "RADIUS">>>>,
           src, dst, "UDP")

(* A fault: the bits of PSH and RST are exchanged.                         *)
ExtractTcpFlagsSwapped(flags) ==
  LET bit(flag, b) == IF flag \in flags THEN b ELSE 0
  IN  bit("fin", 1) + bit("syn", 2) + bit("rst", 8) + bit("psh", 4) + bit("ack", 16) + bit("urg", 32)

ExtractTcpFlags(flags) ==
  LET bit(flag, b) == IF flag \in flags THEN b ELSE 0
  IN  bit("fin", 1) + bit("syn", 2) + bit("rst", 4) + bit("psh", 8) + bit("ack", 16) + bit("urg", 32)

-----------------------------------------------------------------------------
(* parse_packet_with_wire_len: the row of the packet table.  The names of  *)
(* pflog and enc are not replaced by those of the packet inside.           *)

LinkProtocol(f, parsed) ==
  IF HasMeta(f) THEN (IF f.link = "pflog" THEN "PFLOG" ELSE "ENC")
  ELSE IF f.link = "ethernet" /\ parsed.ok THEN "Ethernet" ELSE "???"

InnerProtocol(f, parsed) ==
  IF parsed.transport = "tcp" THEN ClassifyTcpPort(f.srcPort, f.dstPort)
  ELSE IF parsed.transport = "udp" THEN ClassifyUdpPort(f.srcPort, f.dstPort)
  ELSE CASE parsed.transport = "icmp4" -> "ICMP"
    [] parsed.transport = "icmp6" -> "ICMPv6"
    [] parsed.net = "ip4" /\ parsed.transport = "none" -> "IPv4"
    [] parsed.net = "ip6" /\ parsed.transport = "none" -> "IPv6"
    [] f.link = "ethernet" /\ f.vlans = 0 /\ f.net = "arp" /\ parsed.ok -> "ARP"
    [] OTHER -> LinkProtocol(f, parsed)

ParsePacket(f) ==
  LET parsed == Parsed(f)
      ports == parsed.transport \in {"tcp", "udp"}
      mac == f.link = "ethernet" /\ parsed.ok
  IN [src |-> IF parsed.net # "none" THEN AddressIn[parsed.net]
              ELSE IF mac THEN AddressIn["mac"] ELSE "",
      proto |-> IF HasMeta(f) THEN LinkProtocol(f, parsed) ELSE InnerProtocol(f, parsed),
      srcPort |-> IF ports THEN f.srcPort ELSE Absent,
      dstPort |-> IF ports THEN f.dstPort ELSE Absent,
      flags |-> IF parsed.transport = "tcp" THEN ExtractTcpFlags(f.flags) ELSE 0,
      vlan |-> IF mac /\ f.vlans > 0 THEN 1 ELSE Absent,
      meta |-> HasMeta(f)]

-----------------------------------------------------------------------------
(* dissect_detail: the layers, each with the ranges of bytes of its fields.*)

DetailLayer(name, ranges) == [name |-> name, ranges |-> ranges]

(* The offset that the ranges of the IP header are counted from.           *)
LinkHeaderLen(link, f) ==
  CASE link = "ethernet" -> 14 [] link = "sll" -> 16 [] link = "null" -> 4 [] link = "raw" -> 0
    [] link = "enc" -> 12 [] link = "pflog" -> PflogLength(f)

DissectLink(f) ==
  CASE f.link = "pflog" /\ HasMeta(f) ->
         <<DetailLayer("pflog", {<<0, 1>>, <<1, 2>>, <<2, 3>>, <<3, 4>>, <<4, 20>>, <<20, 24>>, <<44, 45>>})>>
    [] f.link = "enc" /\ HasMeta(f) -> <<DetailLayer("enc", {<<0, 4>>, <<4, 8>>, <<8, 12>>})>>
    [] f.link = "null" /\ f.captured >= 4 -> <<DetailLayer("null", {<<0, 4>>})>>
    [] f.link = "ethernet" /\ Sliced(f).ok -> <<DetailLayer("ethernet", {<<0, 6>>, <<6, 12>>, <<12, 14>>})>>
    [] f.link = "sll" /\ Sliced(f).ok -> <<DetailLayer("sll", {<<0, 2>>, <<14, 16>>})>>
    [] OTHER -> <<>>

Ipv4Fields == {<<0, 1>>, <<2, 4>>, <<8, 9>>, <<9, 10>>, <<12, 16>>, <<16, 20>>}

DissectNet(f, base) ==
  CASE Sliced(f).net = "ip4" ->
         <<DetailLayer("ip4", {<<base + r[1], base + r[2]>> : r \in Ipv4Fields})>>
    [] Sliced(f).net = "ip6" -> <<DetailLayer("ip6", {})>>
    [] OTHER -> <<>>

DissectTransport(f) ==
  IF Sliced(f).transport \in {"tcp", "udp", "icmp4", "icmp6"}
    THEN <<DetailLayer(Sliced(f).transport, {})>> ELSE <<>>

(* A fault: a link without a header of its own is given up like an         *)
(* unreadable one.                                                         *)
DissectIpLayersHeaded(f) ==
  IF DissectLink(f) = <<>> THEN <<>>
  ELSE DissectNet(f, LinkHeaderLen(f.link, f)) \o DissectTransport(f)

DissectIpLayers(f) ==
  IF f.link \in {"pflog", "enc"} /\ ~HasMeta(f) THEN <<>>
  ELSE DissectNet(f, LinkHeaderLen(f.link, f)) \o DissectTransport(f)

DissectDetail(f) == DissectLink(f) \o DissectIpLayers(f)

-----------------------------------------------------------------------------

FastInit == frame \in Frames

(* A capture with another snapshot length cuts the packet there.           *)
Cut ==
  /\ frame.captured = Whole(frame)
  /\ \E n \in {0, 1, 3, LinkLength(frame) - 1, LinkLength(frame), LinkLength(frame) + 8, Whole(frame) - 1} :
       n \in 0..Whole(frame) /\ frame' = [frame EXCEPT !.captured = n]

FastSpec == FastInit /\ [][Cut]_frame

-----------------------------------------------------------------------------
(* Properties.                                                             *)

NamesOf(layers) == {layers[n].name : n \in DOMAIN layers}

(* The row and the detail pane, which parse the packet apart, agree on     *)
(* what it is for every link and wherever it was cut: ports belong to a    *)
(* layer that has them, an address to one of IP (parse_packet_with_wire_   *)
(* len, dissect_detail).                                                   *)
RowAgreesWithDetail ==
  LET row == ParsePacket(frame)
      names == NamesOf(DissectDetail(frame))
  IN /\ (row.srcPort # Absent) <=> (names \intersect {"tcp", "udp"} # {})
     /\ (row.src \in {AddressIn["ip4"], AddressIn["ip6"]}) <=> (names \intersect {"ip4", "ip6"} # {})
     /\ row.meta <=> (names \intersect {"pflog", "enc"} # {})

(* The direction is shown at byte 44 also if the header of pflog is too    *)
(* short to have one.                                                      *)
DirectionNotInHeader(layer, r) ==
  layer.name = "pflog" /\ PflogLength(frame) <= 44 /\ r = <<44, 45>>

(* The bytes of a field are bytes of the packet, however short it was cut  *)
(* and whatever length the header of pflog names, but for that of a        *)
(* direction which is not there (byte_range).                              *)
RangesInPacket ==
  \A n \in DOMAIN DissectDetail(frame) :
    \A r \in DissectDetail(frame)[n].ranges :
      r[1] < r[2] /\ (r[2] <= frame.captured \/ DirectionNotInHeader(DissectDetail(frame)[n], r))

(* The bytes that are highlighted for a field of the IP header are those   *)
(* that it was read from (dissect_detail: "Link-layer header offset for    *)
(* byte ranges in deeper layers").                                         *)
RangesPointAtFields ==
  \A n \in DOMAIN DissectDetail(frame) :
    DissectDetail(frame)[n].name = "ip4" =>
      DissectDetail(frame)[n].ranges =
        {<<LinkLength(frame) + r[1], LinkLength(frame) + r[2]>> : r \in Ipv4Fields}

(* A request and its reply have one protocol, or their conversation would  *)
(* be counted as two (classify_tcp_port, classify_udp_port, make_key).     *)
ReplyHasSameProtocol ==
  ParsePacket(frame).proto =
    ParsePacket([frame EXCEPT !.srcPort = frame.dstPort, !.dstPort = frame.srcPort]).proto

(* The hierarchy, which has only the name and the flags, puts a packet     *)
(* below the headers that it had (protocol_layers); a TCP segment to the   *)
(* DNS port without any flag is the exception.                             *)
HierarchyFollowsHeaders ==
  LET row == ParsePacket(frame)
      parsed == Parsed(frame)
      layers == Layers(row)
  IN parsed.net # "none" /\ ~row.meta /\ (parsed.transport = "tcp" => row.flags # 0) =>
       /\ layers[2] = (IF parsed.net = "ip4" THEN "IPv4" ELSE "IPv6")
       /\ parsed.transport = "tcp" => layers[3] = "TCP"
       /\ parsed.transport = "udp" => layers[3] = "UDP"

(* A filter on a flag finds the segments that have it: the bits are the    *)
(* same where they are written and where they are read                     *)
(* (extract_tcp_flags, eval_bare_field).                                   *)
FlagsOfHeader ==
  Parsed(frame).transport = "tcp" =>
    \A flag \in DOMAIN FlagBit : EvalBareField(flag, ParsePacket(frame)) <=> flag \in frame.flags

(* A file that is saved is opened with the link type it was captured with  *)
(* (from_pcap, to_pcap).                                                   *)
LinkTypeKept == FromPcap(ToPcap(frame.link)) = frame.link

(* Row, detail, statistics, filters and files agree on what a packet is,   *)
(* for every packet that the parser gets through.                          *)
DissectSound ==
  ~ReadsPastEnd(frame) =>
    /\ RowAgreesWithDetail /\ RangesInPacket /\ ReplyHasSameProtocol
    /\ HierarchyFollowsHeaders /\ FlagsOfHeader /\ LinkTypeKept
=============================================================================
