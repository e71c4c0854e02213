---------------------------- MODULE DetailTree ----------------------------
(***************************************************************************)
(* The detail tree of app.rs: layers that expand into fields, a cursor on  *)
(* a layer or a field, the bytes it highlights, the part that is drawn,    *)
(* and the panes, whose zoom changes the height that is left to the tree.  *)
(* The tree of a packet is replaced when another packet is selected and    *)
(* when its deep dissection arrives; collapsed layers stay collapsed       *)
(* because they are remembered by name.  Layers and fields are numbered    *)
(* from 1, lines from 0; 0 stands for no layer and for no field.           *)
(***************************************************************************)
EXTENDS Integers, Sequences, FiniteSets, SequencesExt

CONSTANTS
  Fast,      \* the layers that dissect_detail gives for each packet
  Deep,      \* those of its deep dissection; a layer has a key (layer_key)
             \* and fields, and of a field only the byte_range counts
  NoRange,   \* None: a field without bytes, or nothing highlighted
  Heights    \* rows the tree has when it is not zoomed or hidden

ASSUME TreeAssumption ==
  /\ DOMAIN Deep = DOMAIN Fast
  /\ Heights \subseteq Nat

Packets == DOMAIN Fast
Panes == <<"packets", "tree", "hex">>

VARIABLES
  shownPacket,   \* the packet whose tree is shown, or 0
  layers,        \* detail.layers, or <<>>
  expanded,      \* expanded_layers
  collapsed,     \* collapsed_layers
  selLayer,      \* selected_layer
  selField,      \* selected_field
  highlight,     \* highlight_range
  treeScroll,    \* detail_scroll_offset
  treeRows,      \* detail_visible_rows, of the last draw
  activePane,    \* active_pane
  zoomed         \* zoomed_pane, or "none"

cursor2 == <<selLayer, selField>>
paneVars == <<activePane, zoomed>>
treeVars == <<shownPacket, layers, expanded, collapsed, cursor2, highlight, treeScroll, treeRows, paneVars>>

Keys == {l.key : l \in UNION {Range(Fast[p]) \union Range(Deep[p]) : p \in Packets}}

ASSUME ShapeAssumption ==
  /\ NoRange \notin Nat \X Nat /\ 0 \notin Packets
  /\ \A p \in Packets : {Fast[p], Deep[p]} \subseteq
       Seq([key : Keys, fields : Seq((Nat \X Nat) \union {NoRange})])

TreeTypeOK ==
  /\ shownPacket \in Packets \union {0}
  /\ layers \in Range(Fast) \union Range(Deep) \union {<<>>}
  /\ expanded \in Seq(BOOLEAN) /\ collapsed \subseteq Keys
  /\ selLayer \in Nat /\ selField \in Nat
  /\ highlight = NoRange \/ highlight \in Nat \X Nat
  /\ treeScroll \in Nat /\ treeRows \in Nat
  /\ activePane \in Range(Panes) /\ zoomed \in Range(Panes) \union {"none"}

-----------------------------------------------------------------------------
(* update_highlight and ensure_detail_visible.                             *)

Least(S) == CHOOSE x \in S : \A y \in S : x <= y
Greatest(S) == CHOOSE x \in S : \A y \in S : x >= y

(* A fault: the bytes of the first field to those of the last.             *)
UnionOfEnds(fields) ==
  LET r == SelectSeq(fields, LAMBDA x : x # NoRange)
  IN  IF r # <<>> /\ Head(r)[1] < Last(r)[2] THEN <<Head(r)[1], Last(r)[2]>> ELSE NoRange

(* The bytes of a layer: from its first field's to its last one's.         *)
Union(fields) ==
  LET r == Range(fields) \ {NoRange}
      start == Least({x[1] : x \in r})
      end == Greatest({x[2] : x \in r})
  IN  IF r # {} /\ start < end THEN <<start, end>> ELSE NoRange

Highlighted(t, l, f) ==
  IF l \notin DOMAIN t THEN NoRange
  ELSE IF f = 0 THEN Union(t[l].fields)
  ELSE IF f \in DOMAIN t[l].fields THEN t[l].fields[f] ELSE NoRange

(* A fault: fields are not counted as lines.                               *)
LineOfLayers(t, ex, l, f) == l - 1 + f

(* The line of the cursor: as many as there are above it, one per layer    *)
(* and one per field of an expanded one.                                   *)
LinesAbove(t, ex, l) ==
  UNION {{m} \X (0..(IF ex[m] THEN Len(t[m].fields) ELSE 0)) : m \in 1..(l - 1)}

LineOf(t, ex, l, f) == Cardinality(LinesAbove(t, ex, l)) + f

Scrolled(line, from, height) ==
  IF line < from THEN line
  ELSE IF line >= from + height THEN line - (height - 1)
  ELSE from

UpdateHighlight(t, ex, l, f, from) ==
  /\ highlight' = Highlighted(t, l, f)
  /\ treeScroll' = IF l \notin DOMAIN t \/ treeRows = 0 THEN from
                   ELSE Scrolled(LineOf(t, ex, l, f), from, treeRows)

-----------------------------------------------------------------------------

TreeInit ==
  /\ shownPacket = 0 /\ layers = <<>> /\ expanded = <<>> /\ collapsed = {}
  /\ selLayer = 0 /\ selField = 0 /\ highlight = NoRange
  /\ treeScroll = 0 /\ treeRows = 10 /\ activePane = "packets" /\ zoomed = "none"

(* A fault: the cursor stays on the field it was on.                       *)
ShowTreeKeepsField(t) ==
  /\ layers' = t
  /\ expanded' = [i \in DOMAIN t |-> t[i].key \notin collapsed]
  /\ selLayer' = IF t # <<>> THEN 1 ELSE 0
  /\ UNCHANGED selField
  /\ UpdateHighlight(t, expanded', selLayer', selField, 0)

(* What select_packet and drain_deep_results do with the layers they got.  *)
ShowTree(t) ==
  /\ layers' = t
  /\ expanded' = [i \in DOMAIN t |-> t[i].key \notin collapsed]
  /\ selLayer' = IF t # <<>> THEN 1 ELSE 0
  /\ selField' = 0
  /\ UpdateHighlight(t, expanded', selLayer', 0, 0)

SelectPacket(p) ==
  /\ shownPacket' = p /\ ShowTree(Fast[p])
  /\ UNCHANGED <<collapsed, treeRows, paneVars>>

(* The answer for the packet that is selected (module DeepDissect), once.  *)
DeepAnswer ==
  /\ shownPacket # 0 /\ layers = Fast[shownPacket]
  /\ ShowTree(Deep[shownPacket])
  /\ UNCHANGED <<shownPacket, collapsed, treeRows, paneVars>>

(* do_open_file; the first packet, if there is one, is selected next.      *)
OpenFile(p) ==
  /\ collapsed' = {} /\ zoomed' = "none"
  /\ \/ /\ p = 0 /\ shownPacket' = 0 /\ layers' = <<>> /\ expanded' = <<>>
        /\ selLayer' = 0 /\ selField' = 0 /\ highlight' = NoRange
        /\ UNCHANGED treeScroll
     \/ /\ p \in Packets /\ shownPacket' = p /\ layers' = Fast[p]
        /\ expanded' = [i \in DOMAIN Fast[p] |-> TRUE]
        /\ selLayer' = (IF Fast[p] # <<>> THEN 1 ELSE 0) /\ selField' = 0
        /\ UpdateHighlight(Fast[p], expanded', selLayer', 0, 0)
  /\ UNCHANGED <<treeRows, activePane>>

-----------------------------------------------------------------------------
(* Keys of the tree.                                                       *)

InTree == layers # <<>> /\ activePane = "tree"

Fields(l) == Len(layers[l].fields)

GoTo(l, f) ==
  /\ selLayer' = l /\ selField' = f
  /\ UpdateHighlight(layers, expanded', l, f, treeScroll)

Still == UNCHANGED <<shownPacket, layers, treeRows, paneVars>>
Moving == InTree /\ Still /\ UNCHANGED <<expanded, collapsed>>

NextLayer == IF selLayer < Len(layers) THEN selLayer + 1 ELSE selLayer

MoveDown ==
  /\ Moving
  /\ IF selField # 0
       THEN IF selField < Fields(selLayer) THEN GoTo(selLayer, selField + 1)
                                           ELSE GoTo(NextLayer, 0)
       ELSE IF expanded[selLayer] /\ Fields(selLayer) > 0 THEN GoTo(selLayer, 1)
                                                          ELSE GoTo(NextLayer, 0)

(* A fault: the last field of a collapsed layer is gone to.                *)
MoveUpInside ==
  /\ Moving
  /\ IF selField # 0 THEN GoTo(selLayer, selField - 1)
     ELSE IF selLayer = 1 THEN GoTo(1, 0)
     ELSE GoTo(selLayer - 1, Fields(selLayer - 1))

MoveUp ==
  /\ Moving
  /\ IF selField # 0 THEN GoTo(selLayer, selField - 1)
     ELSE IF selLayer = 1 THEN GoTo(1, 0)
     ELSE GoTo(selLayer - 1, IF expanded[selLayer - 1] THEN Fields(selLayer - 1) ELSE 0)

(* A fault: an expanded layer is still remembered as collapsed.            *)
SetLayerExpandedOnce(l, on) ==
  /\ expanded' = [expanded EXCEPT ![l] = on]
  /\ collapsed' = IF on THEN collapsed ELSE collapsed \union {layers[l].key}

SetLayerExpanded(l, on) ==
  /\ expanded' = [expanded EXCEPT ![l] = on]
  /\ collapsed' = IF on THEN collapsed \ {layers[l].key} ELSE collapsed \union {layers[l].key}

(* Enter and the space bar.                                                *)
ToggleExpand ==
  /\ InTree /\ Still
  /\ IF selField = 0 THEN SetLayerExpanded(selLayer, ~expanded[selLayer])
                     ELSE UNCHANGED <<expanded, collapsed>>
  /\ GoTo(selLayer, selField)

MoveLeft ==
  /\ InTree /\ Still
  /\ IF selField = 0 /\ expanded[selLayer] THEN SetLayerExpanded(selLayer, FALSE)
                                           ELSE UNCHANGED <<expanded, collapsed>>
  /\ GoTo(selLayer, 0)

MoveRight ==
  /\ InTree /\ Still
  /\ IF selField = 0 /\ ~expanded[selLayer]
       THEN SetLayerExpanded(selLayer, TRUE) /\ GoTo(selLayer, 0)
       ELSE /\ UNCHANGED <<expanded, collapsed>>
            /\ GoTo(selLayer, IF selField = 0 /\ Fields(selLayer) > 0 THEN 1 ELSE selField)

-----------------------------------------------------------------------------
(* The panes.                                                              *)

PaneAt(step) ==
  LET i == CHOOSE i \in 1..3 : Panes[i] = activePane IN Panes[((i + step - 1) % 3) + 1]

(* A fault: the zoom stays on the pane that had the focus.                 *)
SetActivePaneOnly(p) ==
  /\ activePane' = p
  /\ UNCHANGED <<zoomed, shownPacket, layers, expanded, collapsed, cursor2, highlight, treeScroll, treeRows>>

(* set_active_pane: the zoom goes with the focus.                          *)
SetActivePane(p) ==
  /\ activePane' = p
  /\ zoomed' = IF zoomed # "none" THEN p ELSE "none"
  /\ UNCHANGED <<shownPacket, layers, expanded, collapsed, cursor2, highlight, treeScroll, treeRows>>

FocusKey == \E p \in {PaneAt(1), PaneAt(2)} \union Range(Panes) : SetActivePane(p)

ZoomPane ==
  /\ zoomed' = IF zoomed = activePane THEN "none" ELSE activePane
  /\ UNCHANGED <<activePane, shownPacket, layers, expanded, collapsed, cursor2, highlight, treeScroll, treeRows>>

(* A fault: the borders are taken off a tree without any height.           *)
DrawBelow ==
  /\ treeRows' \in IF zoomed \in {"none", "tree"} THEN Heights ELSE {-2}
  /\ UNCHANGED <<shownPacket, layers, expanded, collapsed, cursor2, highlight, treeScroll, paneVars>>

(* The next draw: a tree that is zoomed away has no rows, and a zoomed one *)
(* may have more.                                                          *)
Draw ==
  /\ treeRows' \in CASE zoomed = "none" -> Heights
                     [] zoomed = "tree" -> Heights \union {10}
                     [] OTHER -> {0}
  /\ UNCHANGED <<shownPacket, layers, expanded, collapsed, cursor2, highlight, treeScroll, paneVars>>

TreeKey == MoveDown \/ MoveUp \/ ToggleExpand \/ MoveLeft \/ MoveRight

TreeNext ==
  \/ \E p \in Packets : SelectPacket(p)
  \/ \E p \in Packets \union {0} : OpenFile(p)
  \/ DeepAnswer \/ TreeKey \/ FocusKey \/ ZoomPane \/ Draw

TreeSpec == TreeInit /\ [][TreeNext]_treeVars

-----------------------------------------------------------------------------
(* Properties.                                                             *)

(* The cursor is on a line that is drawn: on a layer of the tree shown, or *)
(* on a field of an expanded one, through every replacement of the tree    *)
(* and every collapse (select_packet, drain_deep_results, the keys).       *)
CursorOnLine ==
  /\ expanded \in [DOMAIN layers -> BOOLEAN]
  /\ IF layers = <<>> THEN cursor2 = <<0, 0>>
     ELSE /\ selLayer \in DOMAIN layers
          /\ selField # 0 => expanded[selLayer] /\ selField <= Fields(selLayer)

(* The hex view highlights the bytes of what the cursor is on, never those *)
(* of a tree that is gone (update_highlight).                              *)
HighlightOfCursor ==
  /\ layers = <<>> => highlight = NoRange
  /\ layers # <<>> /\ selField = 0 =>
       LET covered == {r \in Range(layers[selLayer].fields) : r # NoRange /\ r[1] < r[2]}
       IN  \A r \in covered : highlight # NoRange /\ highlight[1] <= r[1] /\ r[2] <= highlight[2]
  /\ layers # <<>> /\ selField # 0 => highlight = layers[selLayer].fields[selField]

(* A layer looks as the user left its name, in this packet and the next    *)
(* and before and after the deep dissection, unless two layers of one tree *)
(* share the name (set_layer_expanded, layer_key).                         *)
CollapseRemembered ==
  \A l \in DOMAIN layers :
    (\A m \in DOMAIN layers \ {l} : layers[m].key # layers[l].key)
      => (expanded[l] <=> layers[l].key \notin collapsed)

(* The lines of the tree, and those that are above one of them; y is the   *)
(* line below x if it has just those above x and x itself above it.        *)
Lines ==
  UNION {{l} \X (0..(IF expanded[l] THEN Fields(l) ELSE 0)) : l \in DOMAIN layers}
Higher(y) == {x \in Lines : x[1] < y[1] \/ (x[1] = y[1] /\ x[2] < y[2])}
NextLine(x, y) == {x, y} \subseteq Lines /\ Higher(y) = Higher(x) \union {x}

(* Down and Up walk the lines one by one; at the last line, a field, Down  *)
(* goes back to the header of its layer (handle_detail_tree_key and        *)
(* handle_detail_tree_action, the same code twice).                        *)
WalkLines ==
  LET lowest == Higher(cursor2) \union {cursor2} = Lines IN
  /\ MoveDown /\ ~lowest => NextLine(cursor2, cursor2')
  /\ MoveDown /\ lowest => cursor2' = <<Len(layers), 0>>
  /\ MoveUp /\ cursor2 # <<1, 0>> => NextLine(cursor2', cursor2)

(* After every key of the tree the line of the cursor is drawn, if any is, *)
(* though zooming or resizing may have left it outside before              *)
(* (ensure_detail_visible).                                                *)
CursorDrawn ==
  TreeKey /\ treeRows > 0
    => /\ cursor2' \in Lines'
       /\ Cardinality(Higher(cursor2)') \in treeScroll'..(treeScroll' + treeRows - 1)

(* A zoomed pane is the one that has the focus (set_active_pane, ZoomPane, *)
(* do_open_file).                                                          *)
ZoomHasFocus == zoomed \in {"none", activePane}

(* The tree, its cursor, what is highlighted, collapsed and zoomed.        *)
TreeSound ==
  TreeTypeOK /\ CursorOnLine /\ HighlightOfCursor /\ CollapseRemembered /\ ZoomHasFocus

(* What the keys of the tree do to the cursor and to what is drawn.        *)
TreeSteps == [][WalkLines /\ CursorDrawn]_treeVars
=============================================================================
