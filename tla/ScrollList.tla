---------------------------- MODULE ScrollList ----------------------------
(***************************************************************************)
(* The lists that app.rs scrolls: the interface picker, the recent files,  *)
(* the filter presets, and the conversations and endpoints of the          *)
(* statistics dialog, which are counted again while they are shown; and    *)
(* the pages of the help.  A handler assumes a height: a constant for the  *)
(* first three, the height of the last draw for the others.  The lists     *)
(* share no state, so a behaviour is about one of them.  Rows are counted  *)
(* from 0, as in the code.                                                 *)
(***************************************************************************)
EXTENDS Integers

CONSTANTS
  Assumed,   \* the heights the handlers assume: picker 20, recent 8, preset 12
  MaxHeight, \* bound: height of a dialog's content
  MaxRows,   \* bound: rows of a list
  Page       \* lines that a page key moves the help by: 10

ASSUME HeightAssumption ==
  /\ Assumed \in [{"picker", "recent", "preset"} -> Nat \ {0}]
  /\ MaxHeight \in Nat /\ MaxRows \in Nat /\ Page \in Nat \ {0}

VARIABLES
  list,       \* which list this behaviour is about
  shown,      \* its dialog is shown
  rows,       \* number of rows, or of the lines of the help
  selectedRow,
  offset,     \* the first row on the screen, or help_scroll
  height      \* stats_content_height, help_content_height

listVars == <<list, shown, rows, selectedRow, offset, height>>

Fixed == {"picker", "recent", "preset"}
Counted == {"conv", "ep"}

ListTypeOK ==
  /\ list \in Fixed \union Counted \union {"help"} /\ shown \in BOOLEAN
  /\ rows \in Nat /\ selectedRow \in Nat /\ offset \in Nat /\ height \in Nat

AtMost(a, b) == IF a < b THEN a ELSE b
AtLeast(a, b) == IF a > b THEN a ELSE b

(* A fault: the difference is not cut off at 0.                            *)
MinusBelow(a, b) == a - b

(* usize::saturating_sub.                                                  *)
Minus(a, b) == AtLeast(a - b, 0)

(* The height that the adjust_..._scroll functions work with.              *)
Visible == IF list \in Fixed THEN Assumed[list] ELSE AtLeast(height, 1)

(* A fault: the row below the window counts as in it.                      *)
AdjustScrollLate(row) ==
  offset' = IF row < offset THEN row
            ELSE IF row > offset + Visible THEN Minus(row, Visible - 1)
            ELSE offset

(* The adjust_..._scroll functions, five times the same.                   *)
AdjustScroll(row) ==
  offset' = IF row < offset THEN row
            ELSE IF row >= offset + Visible THEN Minus(row, Visible - 1)
            ELSE offset

-----------------------------------------------------------------------------

ListInit ==
  /\ list \in Fixed \union Counted \union {"help"} /\ shown = FALSE
  /\ rows = 0 /\ selectedRow = 0 /\ offset = 0 /\ height \in 0..MaxHeight

(* A fault: the dialog is shown where it was scrolled to.                  *)
ListShowAsLeft(n) ==
  /\ ~shown /\ shown' = TRUE
  /\ list = "preset" => n > 0
  /\ rows' = n
  /\ UNCHANGED <<list, selectedRow, offset, height>>

(* The presets dialog is not shown without one.                            *)
ListShow(n) ==
  /\ ~shown /\ shown' = TRUE
  /\ list = "preset" => n > 0
  /\ rows' = n /\ selectedRow' = 0 /\ offset' = 0
  /\ UNCHANGED <<list, height>>

ListHide ==
  /\ shown /\ shown' = FALSE
  /\ UNCHANGED <<list, rows, selectedRow, offset, height>>

(* A key in a list; the keys of an empty list do nothing that changes it.  *)
InList == shown /\ list # "help" /\ rows > 0 /\ UNCHANGED <<list, shown, rows, height>>

Select(row) == selectedRow' = row /\ AdjustScroll(row)

(* A fault: Down does not look at the number of rows.                      *)
ListDownPast == InList /\ selectedRow < MaxRows + 1 /\ Select(selectedRow + 1)

ListDown == InList /\ Select(AtMost(selectedRow + 1, rows - 1))
ListUp == InList /\ Select(Minus(selectedRow, 1))
ListFirst == InList /\ selectedRow' = 0 /\ offset' = 0
ListLast == InList /\ Select(rows - 1)

(* Another tab, or the filter taken into account or not: the conversations *)
(* and endpoints are counted again and nothing else is done.               *)
Recount(n) ==
  /\ shown /\ list \in Counted /\ rows' = n
  /\ UNCHANGED <<list, shown, selectedRow, offset, height>>

(* A draw in a terminal of another size.                                   *)
Redraw(h) ==
  /\ shown /\ list \notin Fixed /\ height' = h
  /\ UNCHANGED <<list, shown, rows, selectedRow, offset>>

(* A fault: the last line of the help can be scrolled to the top.          *)
HelpEndLast == Minus(rows, 1)

(* handle_help_key.                                                        *)
HelpEnd == Minus(rows, AtLeast(height, 1))

HelpTo(line) ==
  /\ shown /\ list = "help" /\ offset' = line
  /\ UNCHANGED <<list, shown, rows, selectedRow, height>>

HelpForward(by) == HelpTo(AtMost(offset + by, HelpEnd))
HelpBack(by) == HelpTo(Minus(offset, by))

ListKey == ListDown \/ ListUp \/ ListFirst \/ ListLast
HelpKey ==
  \/ \E by \in {1, Page} : HelpForward(by) \/ HelpBack(by)
  \/ HelpTo(0) \/ HelpTo(HelpEnd)

ListNext ==
  \/ \E n \in 0..MaxRows : ListShow(n) \/ Recount(n)
  \/ ListHide \/ ListKey \/ HelpKey
  \/ \E h \in 0..MaxHeight : Redraw(h)

ListSpec == ListInit /\ [][ListNext]_listVars

-----------------------------------------------------------------------------
(* Properties.                                                             *)

(* Where a list is not counted again, its selected row exists: Enter takes *)
(* the one that is shown as selected (picker, presets, recent files).      *)
SelectedRowExists == shown /\ list \in Fixed => selectedRow = 0 \/ selectedRow < rows

(* After each key the selected row is among the rows that the handler      *)
(* takes to be drawn, whatever came before (adjust_..._scroll).            *)
SelectedRowDrawn ==
  (selectedRow # selectedRow' \/ offset # offset') /\ shown /\ list # "help"
    => selectedRow' \in offset'..(offset' + Visible - 1)

(* A list that shrank under its selection gets back to its rows with one   *)
(* key: no step but another count moves the selection out of them, or      *)
(* further from them (handle_stats_conv_key, handle_stats_ep_key).         *)
SelectionReturns ==
  shown /\ shown' /\ rows' = rows /\ rows > 0
    => selectedRow' < rows \/ selectedRow' <= selectedRow

(* No key moves the help beyond its last page, and only a shorter terminal *)
(* leaves it there (handle_help_key).                                      *)
HelpStaysOnText ==
  shown /\ list = "help" /\ offset' > offset => offset' + AtLeast(height, 1) <= rows

(* What every step of a list keeps, whatever was drawn or counted before.  *)
ListSteps ==
  [][/\ ListTypeOK' /\ SelectedRowExists'
     /\ SelectedRowDrawn /\ SelectionReturns /\ HelpStaysOnText]_listVars
=============================================================================
