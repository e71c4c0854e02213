------------------------------- MODULE MCPure -------------------------------
(* Small instances of the evaluation of filters, the statistics, the fast  *)
(* dissection and the cache of AI explanations for TLC.                    *)
(* They share no variable: a behaviour is one of one of them.              *)
EXTENDS FilterEval, StatsDialog, FastDissect, AiCacheSpec

VARIABLE part

MCLower == [c \in {"2", "1", "0", "a", "b", "A", "x"} |-> IF c = "A" THEN "a" ELSE c]
MCRank == [c \in {"2", "1", "0", "a", "b", "x"} |->
             CASE c = "0" -> 0 [] c = "1" -> 1 [] c = "2" -> 2 [] c = "a" -> 10 [] c = "b" -> 11 [] c = "x" -> 33]
MCSpelled == (2 :> <<"2">>) @@ (10 :> <<"1", "0">>)
MCAddressOf == (<<"2">> :> 2) @@ (<<"1", "0">> :> 10) @@ (<<"0", "2">> :> 2)
MCNumberIn == (<<"2">> :> 2) @@ (<<"1", "0">> :> 10) @@ (<<"0", "2">> :> 2)
MCWritten == (0 :> <<"0">>) @@ (1 :> <<"1">>) @@ (2 :> <<"2">>) @@ (10 :> <<"1", "0">>)
MCNames == (<<"x">> :> {<<"x">>, <<"a", "b">>}) @@ (<<"a">> :> {<<"a">>})
MCNameOf == (<<"x">> :> <<"a", "b">>) @@ (<<"a">> :> <<"a">>)
MCPfText == [f \in PfTexts |-> CASE f = "pf.action" -> <<"b", "a">> [] f = "pf.direction" -> <<"a", "A", "b">>
                                 [] f = "pf.ifname" -> <<"2">> [] f = "pf.reason" -> <<>>]
MCPlain == [is |-> "none"]
MCPacket(s, d, ports, flags, info, eth, vlan, link) ==
  [source |-> s, destination |-> d, srcPort |-> ports[1], dstPort |-> ports[2], flags |-> flags,
   protocol |-> IF link = MCPlain THEN <<"x">> ELSE <<"a">>, wireLength |-> 2, info |-> info,
   ethSrc |-> eth[1], ethDst |-> eth[2], vlan |-> vlan, link |-> link]
MCPackets ==
  {MCPacket(<<"2">>, <<"1", "0">>, <<2, 10>>, f, <<"a", "A", "b">>, <<<<"a", "A">>, <<"b">>>>, 2, MCPlain) :
     f \in {0, 1, 2, 4, 8, 16, 32, 18, 63}}
  \union {MCPacket(<<"x">>, <<"2">>, <<Absent, Absent>>, 0, <<>>, <<Absent, Absent>>, Absent, l) :
     l \in {[is |-> "pflog", text |-> MCPfText, rule |-> 10],
            [is |-> "enc", spi |-> 2, flags |-> 1, flagsText |-> <<"a", "b">>]}}
MCValues ==
  {[is |-> "int", n |-> n] : n \in {0, 1, 2, 10}}
  \union {[is |-> "str", w |-> w] :
            w \in {<<"2">>, <<"1", "0">>, <<"0", "2">>, <<"A", "b">>, <<"a", "A", "b">>, <<"b">>}}
  \union {[is |-> "cidr", net |-> n, p |-> p] : n \in {2, 8, 5}, p \in 0..4}

MCStatsPacket(s, d, sp, dp, q, f, n, t) ==
  [src |-> s, dst |-> d, srcPort |-> sp, dstPort |-> dp, proto |-> q, flags |-> f, bytes |-> n, ts |-> t]
MCNumeric == [a \in {"10", "9", "::1"} |-> CASE a = "9" -> 9 [] a = "10" -> 10 [] a = "::1" -> 100]
MCText == [a \in {"10", "9", "::1", "m:1"} |-> CASE a = "10" -> 1 [] a = "9" -> 2 [] a = "::1" -> 3 [] a = "m:1" -> 4]
MCArriving ==
  {MCStatsPacket("10", "9", 5, 1, "TCP", 2, 3, 1), MCStatsPacket("9", "10", 1, 5, "DNS", 2, 0, 2),
   MCStatsPacket("::1", "::1", 5, 1, "UDP", 0, 2, 4), MCStatsPacket("10", "10", 0, 0, "ICMP", 0, 1, 4)}
MCProtos == FoldSet(LAMBDA q, s : Append(s, q), <<>>, KnownProtos)
MCTie == [q \in KnownProtos |-> CHOOSE n \in DOMAIN MCProtos : MCProtos[n] = q]
MCTies == {MCTie, [q \in KnownProtos |-> -MCTie[q]]}

MCAddressIn == [mac |-> "m:1", ip4 |-> "9", ip6 |-> "::1"]
MCFrame(link, vlans, net, ihl, transport, fragment, ports, flags, header) ==
  LET f == [link |-> link, vlans |-> vlans, net |-> net, ihl |-> ihl, transport |-> transport,
            fragment |-> fragment, srcPort |-> ports[1], dstPort |-> ports[2], flags |-> flags,
            header |-> header, captured |-> 0]
  IN  [f EXCEPT !.captured = Whole(f)]
MCPorts == {20, 21, 22, 23, 25, 53, 67, 69, 80, 123, 161, 179, 389, 443, 514, 636, 1812, 3389, 5353, 8080, 9999}
MCPlainFrame == MCFrame("ethernet", 0, "ip4", 20, "tcp", FALSE, <<9999, 443>>, {"syn"}, 0)
MCOver(net) == {"tcp", "udp", IF net = "ip4" THEN "icmp4" ELSE "icmp6", "none"}
MCFrames ==
  {[MCPlainFrame EXCEPT !.transport = t, !.srcPort = p, !.dstPort = q, !.net = n] :
     t \in {"tcp", "udp"}, p \in MCPorts, q \in MCPorts, n \in {"ip4"}}
  \union {MCFrame("ethernet", 0, "ip6", 20, t, FALSE, <<p, q>>, {"syn"}, 0) :
     t \in {"tcp", "udp"}, p \in MCPorts, q \in MCPorts}
  \union {[MCPlainFrame EXCEPT !.flags = s] : s \in SUBSET DOMAIN FlagBit}
  \union UNION {{MCFrame(link, v, net, ihl, t, frag, <<53, 9999>>, {"ack", "psh"}, h) :
                  t \in MCOver(net), frag \in BOOLEAN, ihl \in {20, 24},
                  v \in IF link = "ethernet" THEN 0..2 ELSE {0},
                  h \in IF link = "pflog" THEN {0, 5, 28, 44, 45, 61} ELSE {0}} :
                link \in LinkTypes, net \in {"ip4", "ip6"}}
  \union {MCFrame(link, 0, net, 20, "none", FALSE, <<0, 0>>, {}, 0) :
            link \in LinkTypes, net \in {"arp", "other"}}
  \union {MCFrame("ethernet", v, net, 20, "none", FALSE, <<0, 0>>, {}, 0) :
            v \in {1, 2}, net \in {"arp", "other"}}

MCInit ==
  /\ part \in {"eval", "stats", "dissect", "cache"}
  /\ Init
  /\ IF part = "eval" THEN EvalInit
     ELSE query = [field |-> "len", op |-> "eq", value |-> [is |-> "int", n |-> 0],
                   p |-> CHOOSE p \in Packets : p.flags = 63]
  /\ StatsInit /\ filter # NoFilter /\ (part # "stats" => tab = "proto")
  /\ IF part = "dissect" THEN FastInit
     ELSE frame = MCPlainFrame

MCNext ==
  /\ \/ part = "eval" /\ Ask /\ UNCHANGED <<statsVars, frame, vars>>
     \/ part = "stats" /\ StatsNext /\ UNCHANGED <<query, frame, vars>>
     \/ part = "dissect" /\ Cut /\ UNCHANGED <<query, statsVars, vars>>
     \/ part = "cache" /\ Next /\ UNCHANGED <<query, statsVars, frame>>
  /\ UNCHANGED part

MCSpec == MCInit /\ [][MCNext]_<<part, query, statsVars, frame, vars>>
=============================================================================
