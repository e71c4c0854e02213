----------------------------- MODULE StatsDialog -----------------------------
(***************************************************************************)
(* The statistics dialog of app.rs: four tabs, each computed from the      *)
(* packets in view when it is turned to, when a key changes what it shows, *)
(* and when packets arrive while the dialog is open.                       *)
(***************************************************************************)
EXTENDS Stats

CONSTANTS
  Arriving,      \* packets that the capture may deliver
  Filters,       \* display filters, as the sets of protocols they match
  NoFilter,
  TieOrders,     \* orders in which a hash map lists protocols
  Unset,
  MinBuckets, StartBuckets, MaxBuckets,
  ContentHeight, \* stats_content_height
  MaxPackets, MaxKeys  \* bounds

(* A packet has two addresses and ports that can be compared, and a hash   *)
(* map lists protocols in some order.                                      *)
ASSUME StatsAssumption ==
  /\ Arriving \subseteq [src : DOMAIN Text, dst : DOMAIN Text, srcPort : Int, dstPort : Int,
                         proto : STRING, flags : Nat, bytes : Nat, ts : Int]
  /\ \A Tie \in TieOrders :
       /\ KnownProtos \union {p.proto : p \in Arriving} \subseteq DOMAIN Tie
       /\ Tie \in [DOMAIN Tie -> Int] /\ \A q, r \in DOMAIN Tie : Tie[q] = Tie[r] => q = r
  /\ MinBuckets \in Nat \ {0} /\ MaxBuckets \in Nat

VARIABLES
  packets,   \* PacketStore
  filter,    \* the filter in force
  open,      \* show_stats_dialog
  tab,       \* stats_tab
  aware,     \* stats_filter_aware
  tree,      \* stats_proto_hierarchy, in pre-order
  expanded,  \* stats_proto_expanded, by row
  rows,      \* stats_proto_rows
  selected,  \* stats_proto_selected
  table,     \* stats_conversations and stats_endpoints
  order,     \* the column and the direction that each is sorted by
  cursor,    \* the selected and the first row of each
  graph,     \* stats_io_graph
  buckets, showBytes,
  keys       \* keys pressed, up to MaxKeys

statsVars == <<packets, filter, open, tab, aware, tree, expanded, rows, selected,
               table, order, cursor, graph, buckets, showBytes, keys>>

Tabs == <<"proto", "conv", "ends", "graph">>
Tables == {"conv", "ends"}
Columns ==
  [t \in Tables |->
     IF t = "conv" THEN <<"TotalPackets", "TotalBytes", "PacketsAtoB", "PacketsBtoA", "Duration">>
     ELSE <<"TotalPackets", "TotalBytes", "TxPackets", "RxPackets", "TxBytes", "RxBytes">>]

(* The packets that a setting of aware counts.                             *)
View(ps, f, isAware) ==
  LET its == {i \in DOMAIN ps : isAware /\ f # NoFilter => ps[i].proto \in f}
      places == Arranged(its, {x \in its \X its : x[1] < x[2]})
  IN [n \in DOMAIN places |-> ps[places[n]]]

Rows(t, v) == IF t = "conv" THEN Conversations(v) ELSE Endpoints(v)
Value(t, r, column) == IF t = "conv" THEN ConvValue(r, column) ELSE EndpointValue(r, column)

(* sort_conversations, sort_endpoints.                                     *)
Sorted(t, s, by) == StableSort(s, [n \in DOMAIN s |-> Value(t, s[n], by.column)], by.ascending)

(* compute: by packets in all, rows of one count as the hash map has them. *)
Seen(t, v, r) ==
  IF t = "conv" THEN {2 * i : i \in {j \in DOMAIN v : ConvKey(v[j]) = r.key}}
  ELSE {2 * i : i \in {j \in DOMAIN v : v[j].src = r.key}}
         \union {2 * i + 1 : i \in {j \in DOMAIN v : v[j].dst = r.key}}

HashOrder(t, v, up) ==
  LET first == [r \in Rows(t, v) |-> Min(Seen(t, v, r))]
  IN {x \in (DOMAIN first) \X (DOMAIN first) :
        IF up THEN first[x[1]] < first[x[2]] ELSE first[x[2]] < first[x[1]]}

Compute(t, v, up) ==
  Sorted(t, Arranged(Rows(t, v), HashOrder(t, v, up)), [column |-> "TotalPackets", ascending |-> FALSE])

-----------------------------------------------------------------------------
(* compute_current_stats, for the packets, tab, direction and number of    *)
(* buckets of the next state.                                              *)

ComputeTree(v) ==
  \E nodes \in {BuildTree(v, Tie) : Tie \in TieOrders} :
    /\ tree' = nodes
    /\ expanded' = IF Len(expanded) = Len(nodes) THEN expanded ELSE [n \in DOMAIN nodes |-> TRUE]
    /\ rows' = Flatten(nodes, expanded')

ComputeCurrentStats ==
  LET v == View(packets', filter', aware') IN
  \/ /\ tab' = "proto" /\ ComputeTree(v)
     /\ UNCHANGED <<table, graph>>
  \/ /\ tab' \in Tables
     /\ \E listed \in {Compute(tab', v, up) : up \in BOOLEAN} :
          table' = [table EXCEPT ![tab'] = Sorted(tab', listed, order'[tab'])]
     /\ UNCHANGED <<tree, expanded, rows, graph>>
  \/ /\ tab' = "graph" /\ graph' = IoGraph(v, buckets')
     /\ UNCHANGED <<tree, expanded, rows, table>>

(* The dialog is closed and may have been left at any tab.                 *)
StatsInit ==
  /\ packets = <<>> /\ filter \in Filters \union {NoFilter}
  /\ open = FALSE /\ tab \in Range(Tabs) /\ aware = FALSE
  /\ tree = <<>> /\ expanded = <<>> /\ rows = <<>> /\ selected = 0
  /\ table = [t \in Tables |-> <<>>] /\ graph = Unset
  /\ order = [t \in Tables |-> [column |-> "TotalPackets", ascending |-> FALSE]]
  /\ cursor = [t \in Tables |-> [row |-> 0, top |-> 0]]
  /\ buckets = StartBuckets /\ showBytes = FALSE /\ keys = 0

Settings == <<filter, open, tab, aware, selected, order, cursor, buckets, showBytes, keys>>

(* A fault: an open dialog is left as it is.                               *)
ArriveUncounted ==
  /\ Len(packets) < MaxPackets
  /\ \E p \in Arriving : packets' = Append(packets, p)
  /\ UNCHANGED <<Settings, tree, expanded, rows, table, graph>>

(* drain_capture_packets: a batch is counted if the dialog is open.        *)
StatsArrive ==
  /\ \E batch \in {<<p>> : p \in Arriving} \union (Arriving \X Arriving) :
       /\ Len(packets) + Len(batch) <= MaxPackets
       /\ packets' = packets \o batch
  /\ UNCHANGED Settings
  /\ IF open THEN ComputeCurrentStats ELSE UNCHANGED <<tree, expanded, rows, table, graph>>

Pressed == keys < MaxKeys /\ keys' = keys + 1

(* open_stats_dialog.                                                      *)
StatsOpen ==
  /\ ~open /\ open' = TRUE /\ Pressed
  /\ selected' = 0 /\ cursor' = [t \in Tables |-> [row |-> 0, top |-> 0]]
  /\ UNCHANGED <<packets, filter, tab, aware, order, buckets, showBytes>>
  /\ ComputeCurrentStats

(* close_stats_dialog: what was computed is freed, the settings stay.      *)
StatsClose ==
  /\ open /\ open' = FALSE /\ Pressed
  /\ tree' = <<>> /\ expanded' = <<>> /\ rows' = <<>>
  /\ table' = [t \in Tables |-> <<>>] /\ graph' = Unset
  /\ UNCHANGED <<packets, filter, tab, aware, selected, order, cursor, buckets, showBytes>>

TabAt(t, d) == Tabs[(((CHOOSE n \in 1..4 : Tabs[n] = t) - 1 + d) % 4) + 1]

(* A fault: a tab that was turned to before is shown as it was.            *)
StatsTurnCached ==
  /\ open /\ Pressed
  /\ \E d \in {1, 3} : tab' = TabAt(tab, d)
  /\ UNCHANGED <<packets, filter, open, aware, selected, order, cursor, buckets, showBytes>>
  /\ IF tab' \in Tables /\ table[tab'] # <<>> THEN UNCHANGED <<tree, expanded, rows, table, graph>>
     ELSE ComputeCurrentStats

(* Tab and BackTab.                                                        *)
StatsTurn ==
  /\ open /\ Pressed
  /\ \E d \in {1, 3} : tab' = TabAt(tab, d)
  /\ UNCHANGED <<packets, filter, open, aware, selected, order, cursor, buckets, showBytes>>
  /\ ComputeCurrentStats

(* 'a'.                                                                    *)
StatsAware ==
  /\ open /\ Pressed /\ aware' = ~aware
  /\ UNCHANGED <<packets, filter, open, tab, selected, order, cursor, buckets, showBytes>>
  /\ ComputeCurrentStats

(* j, k, g and G in a list of n rows, at row r.                            *)
Moves(n, r) == {Min({r + 1, n - 1}), Max({r - 1, 0}), 0, n - 1}

StatsProtoMove ==
  /\ open /\ tab = "proto" /\ rows # <<>> /\ Pressed
  /\ selected' \in Moves(Len(rows), selected)
  /\ UNCHANGED <<packets, filter, open, tab, aware, tree, expanded, rows, table, order, cursor, graph, buckets, showBytes>>

(* Enter: the selected row is expanded or collapsed.                       *)
StatsToggle ==
  /\ open /\ tab = "proto" /\ selected < Len(rows) /\ Pressed
  /\ expanded' = [expanded EXCEPT ![selected + 1] = ~@]
  /\ rows' = Flatten(tree, expanded')
  /\ selected' = Min({selected, Max({Len(rows') - 1, 0})})
  /\ UNCHANGED <<packets, filter, open, tab, aware, tree, table, order, cursor, graph, buckets, showBytes>>

(* adjust_stats_conv_scroll, adjust_stats_ep_scroll.                       *)
Scrolled(top, row) ==
  IF row < top THEN row
  ELSE IF row >= top + ContentHeight THEN row - (ContentHeight - 1) ELSE top

StatsTableMove ==
  /\ open /\ tab \in Tables /\ table[tab] # <<>> /\ Pressed
  /\ \E row \in Moves(Len(table[tab]), cursor[tab].row) :
       cursor' = [cursor EXCEPT ![tab] = [row |-> row, top |-> Scrolled(@.top, row)]]
  /\ UNCHANGED <<packets, filter, open, tab, aware, tree, expanded, rows, selected, table, order, graph, buckets, showBytes>>

NextColumn(t, column) ==
  LET n == CHOOSE i \in DOMAIN Columns[t] : Columns[t][i] = column
  IN Columns[t][(n % Len(Columns[t])) + 1]

(* A fault: the direction changes and the rows do not.                     *)
StatsSortLater ==
  /\ open /\ tab \in Tables /\ table[tab] # <<>> /\ Pressed
  /\ order' = [order EXCEPT ![tab].ascending = ~@]
  /\ UNCHANGED <<packets, filter, open, tab, aware, tree, expanded, rows, selected, table, cursor, graph, buckets, showBytes>>

(* s and r: the next column, or the other direction.                       *)
StatsSort ==
  /\ open /\ tab \in Tables /\ table[tab] # <<>> /\ Pressed
  /\ \/ order' = [order EXCEPT ![tab].column = NextColumn(tab, @)]
     \/ order' = [order EXCEPT ![tab].ascending = ~@]
  /\ table' = [table EXCEPT ![tab] = Sorted(tab, @, order'[tab])]
  /\ UNCHANGED <<packets, filter, open, tab, aware, tree, expanded, rows, selected, cursor, graph, buckets, showBytes>>

StatsShowBytes ==
  /\ open /\ tab = "graph" /\ Pressed /\ showBytes' = ~showBytes
  /\ UNCHANGED <<packets, filter, open, tab, aware, tree, expanded, rows, selected, table, order, cursor, graph, buckets>>

(* + and -: the graph in twice or half as many buckets.                    *)
StatsBuckets ==
  /\ open /\ tab = "graph" /\ Pressed
  /\ buckets' \in {Min({buckets * 2, MaxBuckets}), Max({buckets \div 2, MinBuckets})}
  /\ UNCHANGED <<packets, filter, open, tab, aware, selected, order, cursor, showBytes>>
  /\ ComputeCurrentStats

(* Another filter is put in force, which an open dialog does not let one.  *)
StatsFilter ==
  /\ ~open /\ filter' \in Filters \union {NoFilter} /\ Pressed
  /\ UNCHANGED <<packets, open, tab, aware, tree, expanded, rows, selected, table, order, cursor, graph, buckets, showBytes>>

StatsNext ==
  \/ StatsArrive \/ StatsOpen \/ StatsClose \/ StatsTurn \/ StatsAware \/ StatsProtoMove
  \/ StatsToggle \/ StatsTableMove \/ StatsSort \/ StatsShowBytes \/ StatsBuckets \/ StatsFilter

StatsSpec == StatsInit /\ [][StatsNext]_statsVars

-----------------------------------------------------------------------------
(* Properties.                                                             *)

(* What the tab shows is the statistics of the packets in view, in the     *)
(* order that its keys have chosen: whatever arrived, was switched or      *)
(* sorted since the dialog was opened (compute_current_stats).             *)
ShownIsCurrent ==
  open =>
    LET v == View(packets, filter, aware) IN
    /\ tab = "proto" =>
         /\ {tree[n] : n \in DOMAIN tree} = ProtoNodes(v)
         /\ Len(expanded) = Len(tree) /\ rows = Flatten(tree, expanded)
    /\ tab \in Tables =>
         /\ {table[tab][n] : n \in DOMAIN table[tab]} = Rows(tab, v)
         /\ Len(table[tab]) = Cardinality(Rows(tab, v))
    /\ tab = "graph" => graph = IoGraph(v, buckets)

(* The rows of a table are in the order of its column, also after packets  *)
(* were added and after both the column and the direction were changed     *)
(* (sort_conversations, sort_endpoints).                                   *)
TableSorted ==
  open /\ tab \in Tables =>
    \A m, n \in DOMAIN table[tab] : m < n =>
      LET a == Value(tab, table[tab][m], order[tab].column)
          b == Value(tab, table[tab][n], order[tab].column)
      IN IF order[tab].ascending THEN a <= b ELSE a >= b

(* No packet is left out of the hierarchy: each of its protocols has a     *)
(* node below the one of the layer above, and every node of a path counts  *)
(* at least the packets with that path (build_tree, is_child_of).          *)
NoLayerLost ==
  \A i \in DOMAIN packets :
    LET l == Layers(packets[i]) IN
    \A k \in 1..Len(l) :
      \E node \in ProtoNodes(packets) :
        /\ node.path = SubSeq(l, 1, k)
        /\ node.packets >=
             Cardinality({j \in DOMAIN packets : IsPrefix(node.path, Layers(packets[j]))})

(* A node counts the packets whose layers lead to it, so that nodes of one *)
(* depth together count each packet at most once (plans/phase7-statistics: *)
(* "correct counts/percentages").                                          *)
HierarchyByPath ==
  \A node \in ProtoNodes(packets) :
    node.packets =
      Cardinality({i \in DOMAIN packets : IsPrefix(node.path, Layers(packets[i]))})

(* A row is shown only below the node that it belongs to, however nodes    *)
(* were collapsed, expanded and recounted (flatten_node).                  *)
RowsUnderTheirNode ==
  \A n \in DOMAIN rows : Len(rows[n].path) > 1 =>
    \E m \in 1..(n - 1) :
      /\ rows[m].path = SubSeq(rows[n].path, 1, Len(rows[n].path) - 1)
      /\ \A k \in (m + 1)..n : Len(rows[k].path) > Len(rows[m].path)

(* Both directions of an exchange are one conversation, also between two   *)
(* ports of one host and between addresses that are no IP addresses        *)
(* (make_key).                                                             *)
Mirrored(p) ==
  [p EXCEPT !.src = p.dst, !.dst = p.src, !.srcPort = p.dstPort, !.dstPort = p.srcPort]
BothDirections == \A i \in DOMAIN packets : ConvKey(packets[i]) = ConvKey(Mirrored(packets[i]))

(* The two tables agree: an endpoint has sent and received the bytes of    *)
(* its sides of all conversations (conversations.rs, endpoints.rs).        *)
SideBytes(convs, side, addr, way) ==
  SumTo([n \in DOMAIN convs |-> IF convs[n].key[side][1] = addr THEN convs[n][way] ELSE 0], Len(convs))

TablesAgree ==
  \A convs \in {Compute("conv", packets, up) : up \in BOOLEAN}, e \in Endpoints(packets) :
    /\ e.txBytes = SideBytes(convs, "a", e.key, "bytesAtoB") + SideBytes(convs, "b", e.key, "bytesBtoA")
    /\ e.rxBytes = SideBytes(convs, "a", e.key, "bytesBtoA") + SideBytes(convs, "b", e.key, "bytesAtoB")

(* Every packet is in one bucket of the graph, at the edges of the time    *)
(* and when all have one time too (io_graph::compute).                     *)
GraphConserves ==
  \A n \in MinBuckets..MaxBuckets :
    LET g == IoGraph(packets, n) IN
    /\ SumTo(g.packets, n) = Len(packets)
    /\ SumTo(g.bytes, n) = Bytes(packets, DOMAIN packets)

(* The four statistics are those of the packets, and shown as they are.    *)
StatsSound ==
  /\ ShownIsCurrent /\ TableSorted /\ NoLayerLost /\ RowsUnderTheirNode
  /\ BothDirections /\ TablesAgree /\ GraphConserves
=============================================================================
