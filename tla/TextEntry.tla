----------------------------- MODULE TextEntry -----------------------------
(***************************************************************************)
(* The line editors of app.rs: the names in the save, open and export      *)
(* dialogs, and the filter bar with the filter in force.  A cursor counts  *)
(* characters while a Rust string is cut by bytes: char_to_byte_index      *)
(* converts, and an index inside a character, or past the last one, stops  *)
(* the program.  The editors do not share anything, so a behaviour is      *)
(* about one of them.                                                      *)
(***************************************************************************)
EXTENDS Naturals, Sequences, SequencesExt

CONSTANTS
  Char,        \* characters
  Bytes,       \* len_utf8
  Blanks,      \* the characters that trim removes
  Valid,       \* the texts that the filter parser accepts
  Presets,     \* config.filters
  SaveName,    \* default_save_filename, or the last path saved to
  ExportName,  \* export_default_filename
  MaxLen       \* bound: characters in a text

ASSUME CharAssumption == Bytes \in [Char -> Nat \ {0}] /\ Blanks \subseteq Char
ASSUME TextAssumption ==
  /\ Valid \subseteq Seq(Char) /\ Presets \subseteq Seq(Char)
  /\ SaveName \in Seq(Char) /\ ExportName \in Seq(Char)
ASSUME LenAssumption == MaxLen \in Nat
ASSUME NoEmptyFilter == <<>> \notin Valid

VARIABLES
  editor,      \* which editor this behaviour is about
  editing,     \* its dialog is shown, or filter_editing
  text,        \* save_filename, open_input, export_filename or filter_input
  cursor,      \* the corresponding ..._cursor_pos
  crashed,     \* a string was cut where there is no character boundary
  active,      \* active_filter is Some
  activeText,  \* active_filter_text
  filterError  \* filter_error

lineVars == <<text, cursor, crashed>>
filterVars == <<active, activeText, filterError>>
entryVars == <<editor, editing, lineVars, filterVars>>

EntryTypeOK ==
  /\ editor \in {"save", "open", "export", "filter"}
  /\ editing \in BOOLEAN /\ crashed \in BOOLEAN
  /\ text \in Seq(Char) /\ cursor \in Nat
  /\ active \in BOOLEAN /\ activeText \in Seq(Char) /\ filterError \in BOOLEAN

-----------------------------------------------------------------------------
(* Strings.                                                                *)

(* The byte offset of each character, and of the end.                      *)
Offset(t) ==
  LET off[i \in 0..Len(t)] == IF i = 0 THEN 0 ELSE off[i - 1] + Bytes[t[i]] IN off

(* A fault: characters are counted as bytes.                               *)
CharToByteIndexAscii(t, n) == IF n < Len(t) THEN n ELSE Len(t)

CharToByteIndex(t, n) == Offset(t)[IF n < Len(t) THEN n ELSE Len(t)]

IsBoundary(t, b) == \E i \in 0..Len(t) : Offset(t)[i] = b
CharAt(t, b) == CHOOSE i \in 0..Len(t) : Offset(t)[i] = b

(* String::insert and String::remove.                                      *)
InsertAtByte(t, b, c) == InsertAt(t, CharAt(t, b) + 1, c)
RemoveAtByte(t, b) == RemoveAt(t, CharAt(t, b) + 1)

InsertChar(b, c) ==
  IF IsBoundary(text, b)
    THEN text' = InsertAtByte(text, b, c) /\ crashed' = FALSE
    ELSE crashed' = TRUE /\ UNCHANGED text

RemoveChar(b) ==
  IF IsBoundary(text, b) /\ CharAt(text, b) < Len(text)
    THEN text' = RemoveAtByte(text, b) /\ crashed' = FALSE
    ELSE crashed' = TRUE /\ UNCHANGED text

(* str::trim.                                                              *)
Trim(t) ==
  LET inked == {i \in 1..Len(t) : t[i] \notin Blanks}
  IN  IF inked = {} THEN <<>>
      ELSE SubSeq(t, CHOOSE i \in inked : \A j \in inked : i <= j,
                     CHOOSE i \in inked : \A j \in inked : i >= j)

-----------------------------------------------------------------------------
(* Keys in a line, the same code four times.                               *)

Editing == editing /\ ~crashed

TypeChar(c) ==
  /\ Editing /\ Len(text) < MaxLen
  /\ InsertChar(CharToByteIndex(text, cursor), c)
  /\ cursor' = cursor + 1

(* A fault: Backspace removes the character after the cursor.              *)
BackspaceKeyAfter ==
  /\ Editing /\ cursor \in 1..(Len(text) - 1)
  /\ RemoveChar(CharToByteIndex(text, cursor))
  /\ cursor' = cursor - 1

BackspaceKey ==
  /\ Editing /\ cursor > 0
  /\ RemoveChar(CharToByteIndex(text, cursor - 1))
  /\ cursor' = cursor - 1

DeleteKey ==
  /\ Editing /\ cursor < Len(text)
  /\ RemoveChar(CharToByteIndex(text, cursor))
  /\ UNCHANGED cursor

MoveTo(c) == Editing /\ cursor' = c /\ UNCHANGED <<text, crashed>>

(* A fault: Left does not stop at the beginning.                           *)
LeftForever == MoveTo(cursor - 1)

LeftKey == MoveTo(IF cursor > 0 THEN cursor - 1 ELSE 0)
RightKey == MoveTo(IF cursor < Len(text) THEN cursor + 1 ELSE Len(text))

HomeKey == MoveTo(0)
EndKey == MoveTo(Len(text))

LineKey ==
  \/ \E c \in Char : TypeChar(c)
  \/ BackspaceKey \/ DeleteKey \/ LeftKey \/ RightKey \/ HomeKey \/ EndKey

FillIn(t) == text' = t /\ cursor' = Len(t) /\ crashed' = FALSE

-----------------------------------------------------------------------------
(* The dialogs.                                                            *)

EntryInit ==
  /\ editor \in {"save", "open", "export", "filter"}
  /\ editing = FALSE /\ text = <<>> /\ cursor = 0 /\ crashed = FALSE
  /\ active = FALSE /\ activeText = <<>> /\ filterError = FALSE

(* The save dialog.                                                        *)
SaveShow ==
  /\ editor = "save" /\ ~editing /\ editing' = TRUE
  /\ FillIn(SaveName)
  /\ UNCHANGED filterVars

SaveKey ==
  /\ editor = "save"
  /\ LineKey /\ UNCHANGED <<editing, filterVars>>

(* Enter and Esc.                                                          *)
SaveClose ==
  /\ editor = "save" /\ Editing /\ editing' = FALSE
  /\ UNCHANGED <<lineVars, filterVars>>

(* The path in the open dialog.                                            *)
OpenShow ==
  /\ editor = "open" /\ ~editing /\ editing' = TRUE
  /\ FillIn(<<>>)
  /\ UNCHANGED filterVars

OpenKey ==
  /\ editor = "open"
  /\ LineKey /\ UNCHANGED <<editing, filterVars>>

(* Enter does nothing on an empty path.                                    *)
OpenClose(enter) ==
  /\ editor = "open" /\ Editing /\ editing' = FALSE
  /\ enter => text # <<>>
  /\ UNCHANGED <<lineVars, filterVars>>

(* The file name, the second step of the export dialog.                    *)
ExportShow ==
  /\ editor = "export" /\ ~editing /\ editing' = TRUE
  /\ FillIn(ExportName)
  /\ UNCHANGED filterVars

ExportKey ==
  /\ editor = "export"
  /\ LineKey /\ UNCHANGED <<editing, filterVars>>

ExportBack ==
  /\ editor = "export" /\ Editing /\ editing' = FALSE
  /\ UNCHANGED <<lineVars, filterVars>>

-----------------------------------------------------------------------------
(* The filter bar.                                                         *)

(* start_filter_edit.                                                      *)
FilterShow ==
  /\ editor = "filter" /\ ~editing /\ editing' = TRUE
  /\ FillIn(activeText) /\ filterError' = FALSE
  /\ UNCHANGED <<active, activeText>>

FilterKey ==
  /\ editor = "filter"
  /\ LineKey /\ UNCHANGED <<editing, filterVars>>

(* A fault: the text of a filter that does not parse is kept as the active *)
(* one.                                                                    *)
ApplyFilterKeepsText(t) ==
  /\ active' = (t \in Valid) /\ activeText' = t /\ filterError' = (t \notin Valid)

(* apply_filter.                                                           *)
ApplyFilter(t) ==
  IF t \in Valid
    THEN active' = TRUE /\ activeText' = t /\ filterError' = FALSE
    ELSE active' = FALSE /\ activeText' = <<>> /\ filterError' = TRUE

(* clear_filter.                                                           *)
ClearFilter ==
  /\ active' = FALSE /\ activeText' = <<>> /\ filterError' = FALSE
  /\ FillIn(<<>>)

FilterEnter ==
  /\ editor = "filter" /\ Editing /\ editing' = FALSE
  /\ IF Trim(text) = <<>> THEN ClearFilter
                          ELSE ApplyFilter(Trim(text)) /\ UNCHANGED lineVars

FilterEsc ==
  /\ editor = "filter" /\ Editing /\ editing' = FALSE
  /\ filterError' = FALSE /\ text' = activeText
  /\ UNCHANGED <<cursor, crashed, active, activeText>>

(* Enter in the preset picker.                                             *)
FilterPreset(t) ==
  /\ editor = "filter" /\ ~editing
  /\ ApplyFilter(t) /\ text' = t
  /\ UNCHANGED <<editing, cursor, crashed>>

(* do_open_file.                                                           *)
FileOpened ==
  /\ editor = "filter" /\ ~editing
  /\ ClearFilter
  /\ UNCHANGED editing

FilterNext ==
  \/ FilterShow \/ FilterKey \/ FilterEnter \/ FilterEsc
  \/ \E t \in Presets : FilterPreset(t)
  \/ FileOpened

EntryNext ==
  /\ \/ SaveShow \/ SaveKey \/ SaveClose
     \/ OpenShow \/ OpenKey \/ \E enter \in BOOLEAN : OpenClose(enter)
     \/ ExportShow \/ ExportKey \/ ExportBack
     \/ FilterNext
  /\ UNCHANGED editor

EntrySpec == EntryInit /\ [][EntryNext]_entryVars

-----------------------------------------------------------------------------
(* Properties.                                                             *)

(* No string is cut inside or beyond a character, and the cursor that      *)
(* splits the text on the screen is in it, whatever was typed, filled in   *)
(* or left behind by another way of closing (char_to_byte_index, render of *)
(* the filter bar).                                                        *)
NoCutInsideChar == ~crashed /\ (editing => cursor <= Len(text))

(* The bar shows the text of the filter that is in force, and a text only  *)
(* while one is.                                                           *)
ShownFilterInForce == (active <=> activeText # <<>>) /\ (active => activeText \in Valid)

(* The editors stay within their text, and the bar tells the truth.        *)
EntrySound == EntryTypeOK /\ NoCutInsideChar /\ ShownFilterInForce

(* Every key does to text and cursor what it does to a zipper: while a     *)
(* line is edited the editor is one (abstract module Zipper).              *)
Line == INSTANCE Zipper WITH
  before <- IF editing THEN SubSeq(text, 1, cursor) ELSE <<>>,
  after <- IF editing THEN SubSeq(text, cursor + 1, Len(text)) ELSE <<>>

IsZipper == Line!EditSpec

(* What a comment says and the code does not do.                           *)

(* apply_filter: a previous filter stays active when the new one does not  *)
(* parse.                                                                  *)
FailedFilterKeepsOld == [][filterError' /\ active => active']_entryVars
=============================================================================
