------------------------------ MODULE Bindings ------------------------------
(***************************************************************************)
(* Key bindings: the configuration file that the program finds when it is  *)
(* started (config/mod.rs), the table that is built from the strings in it *)
(* (config/keys.rs), and what the main loop does with a key, by that table *)
(* and by the keys that are fixed (handle_key of app.rs and the handlers   *)
(* of the dialogs that use the table).  A key string is the sequence of    *)
(* its parts between plus signs; a key, and an event, is a set of          *)
(* modifiers and a code.                                                   *)
(***************************************************************************)
EXTENDS Naturals, Sequences, FiniteSets, FiniteSetsExt

CONSTANTS
  ConfigFiles, \* what a file sets: from actions to key strings
  Absent,      \* there is no such file
  Garbled,     \* a file that is not TOML
  LowerWord,   \* to_lowercase, of the parts of key strings
  UpperOf,     \* to_ascii_uppercase, of the letters
  OtherChars   \* characters that are no such letters

Letters == DOMAIN UpperOf
Capitals == {UpperOf[c] : c \in Letters}

VARIABLES
  override,     \* config.keys: the strings that the file sets
  bindings,     \* key_bindings: from keys to actions
  openDialog,   \* the dialog that has the keys, or "none"
  traceOverlay, \* show_trace_overlay
  focus,        \* active_pane
  capturing     \* capture_state is Capturing

bindVars == <<override, bindings, openDialog, traceOverlay, focus, capturing>>

-----------------------------------------------------------------------------
(* KeyConfig::default, in the order in which the table is filled.          *)
Defaults == <<
  <<"Quit", <<"q">>>>, <<"ForceQuit", <<"Ctrl", "c">>>>, <<"NextPane", <<"Tab">>>>,
  <<"PrevPane", <<"Shift", "BackTab">>>>, <<"FocusPacketTable", <<"1">>>>,
  <<"FocusDetailTree", <<"2">>>>, <<"FocusHexView", <<"3">>>>, <<"FocusKernelTrace", <<"4">>>>,
  <<"Save", <<"s">>>>, <<"QuickSave", <<"w">>>>, <<"Open", <<"o">>>>, <<"Filter", <<"/">>>>,
  <<"Export", <<"e">>>>, <<"Stats", <<"Shift", "S">>>>, <<"InterfacePicker", <<"n">>>>,
  <<"StopCapture", <<"Esc">>>>, <<"ToggleAutoScroll", <<"f">>>>, <<"FilterPresets", <<"p">>>>,
  <<"MoveDown", <<"j">>>>, <<"MoveUp", <<"k">>>>, <<"MoveFirst", <<"g">>>>,
  <<"MoveLast", <<"G">>>>, <<"PageDown", <<"PageDown">>>>, <<"PageUp", <<"PageUp">>>>,
  <<"ToggleExpand", <<"Enter">>>>, <<"TogglePathTrace", <<"Shift", "P">>>>, <<"Help", <<"?">>>>,
  <<"ZoomPane", <<"z">>>>, <<"NextPacket", <<"ae">>>>, <<"PrevPacket", <<"oe">>>>,
  <<"IpInfo", <<"i">>>>, <<"ContainerInfo", <<"c">>>>, <<"AiPacketInfo", <<"Shift", "I">>>> >>

Actions == {Defaults[n][1] : n \in DOMAIN Defaults}
Navigation == {"MoveDown", "MoveUp", "MoveFirst", "MoveLast", "PageDown", "PageUp", "ToggleExpand"}

BindTypeOK ==
  /\ override \in {f \in ConfigFiles : DOMAIN f \subseteq Actions}
  /\ openDialog \in {"none", "ipinfo", "container", "ai"}
  /\ traceOverlay \in BOOLEAN /\ capturing \in BOOLEAN
  /\ focus \in {"packets", "tree", "hex"}

-----------------------------------------------------------------------------
(* parse_key_string.                                                       *)

NoKey == [mods |-> {}, code |-> ""]

Modifier == [ctrl |-> "ctrl", control |-> "ctrl", shift |-> "shift", alt |-> "alt"]

Named ==
  [tab |-> "Tab", backtab |-> "BackTab", esc |-> "Esc", escape |-> "Esc", enter |-> "Enter",
   return |-> "Enter", space |-> " ", backspace |-> "Backspace", delete |-> "Delete",
   del |-> "Delete", home |-> "Home", end |-> "End", pageup |-> "PageUp", pgup |-> "PageUp",
   pagedown |-> "PageDown", pgdn |-> "PageDown", up |-> "Up", down |-> "Down", left |-> "Left",
   right |-> "Right", f1 |-> "F1", f2 |-> "F2", f3 |-> "F3", f4 |-> "F4", f5 |-> "F5", f6 |-> "F6",
   f7 |-> "F7", f8 |-> "F8", f9 |-> "F9", f10 |-> "F10", f11 |-> "F11", f12 |-> "F12"]

(* Words that are one character.                                           *)
Chars == Letters \union Capitals \union OtherChars

(* What is used of the alphabet: the words of the default keys are letters *)
(* or other characters, or names of keys, and no name is one character.    *)
ASSUME CharAssumption ==
  /\ {"c", "e", "f", "g", "i", "j", "k", "n", "o", "p", "q", "s", "w", "z"} \subseteq Letters
  /\ UpperOf["g"] = "G" /\ UpperOf["i"] = "I" /\ UpperOf["p"] = "P" /\ UpperOf["s"] = "S"
  /\ {"1", "2", "3", "4", "/", "?", "ae", "oe"} \subseteq OtherChars
  /\ Letters \intersect Capitals = {} /\ OtherChars \intersect (Letters \union Capitals) = {}
  /\ "" \notin Chars /\ \A w \in DOMAIN Named : Named[w] # " " => Named[w] \notin Chars
ASSUME LowerAssumption ==
  /\ \A w \in Chars : LowerWord[w] \notin DOMAIN Named
  /\ LowerWord["Ctrl"] = "ctrl" /\ LowerWord["Shift"] = "shift"
  /\ LowerWord["Tab"] = "tab" /\ LowerWord["BackTab"] = "backtab" /\ LowerWord["Esc"] = "esc"
  /\ LowerWord["PageDown"] = "pagedown" /\ LowerWord["PageUp"] = "pageup" /\ LowerWord["Enter"] = "enter"

(* A file sets keys of actions; what else is in it is ignored.             *)
ASSUME FileAssumption ==
  <<>> \in ConfigFiles /\ \A f \in ConfigFiles : DOMAIN f \subseteq Actions

(* A fault: the key is taken from the string in lower case.                *)
CodeOfLower(mods, w) ==
  IF LowerWord[w] \in DOMAIN Named THEN Named[LowerWord[w]] ELSE IF w \in Chars THEN LowerWord[w] ELSE ""

CodeOf(mods, w) ==
  IF LowerWord[w] \in DOMAIN Named THEN Named[LowerWord[w]]
  ELSE IF w \notin Chars THEN ""
  ELSE IF "shift" \in mods /\ w \in Letters THEN UpperOf[w] ELSE w

ParseKeyString(s) ==
  LET front == {LowerWord[s[i]] : i \in 1..(Len(s) - 1)}
      mods == {Modifier[w] : w \in front}
  IN IF front \subseteq DOMAIN Modifier /\ CodeOf(mods, s[Len(s)]) # ""
       THEN [mods |-> mods, code |-> CodeOf(mods, s[Len(s)])]
       ELSE NoKey

-----------------------------------------------------------------------------
(* KeyBindings::from_config.                                               *)

(* A fault: a string that is no key leaves the action without one.         *)
KeyOfStrict(o, n) == ParseKeyString(IF Defaults[n][1] \in DOMAIN o THEN o[Defaults[n][1]] ELSE Defaults[n][2])

(* The key of the n-th action: an empty string, and one that is no key,    *)
(* stand for the default.                                                  *)
KeyOf(o, n) ==
  LET a == Defaults[n][1]
      user == IF a \in DOMAIN o THEN ParseKeyString(o[a]) ELSE NoKey
  IN IF user # NoKey THEN user ELSE ParseKeyString(Defaults[n][2])

Plain(code) == [mods |-> {}, code |-> code]

Aliases == [Down |-> "MoveDown", Up |-> "MoveUp", Home |-> "MoveFirst", End |-> "MoveLast"]

(* The table: of several actions with one key the last has it, and the     *)
(* arrow keys are added where no action has them.                          *)
Table(o) ==
  LET bound == [n \in DOMAIN Defaults |-> KeyOf(o, n)]
      keys == {bound[n] : n \in DOMAIN bound}
      free == {Plain(c) : c \in DOMAIN Aliases} \ keys
  IN [k \in keys \union free |->
        IF k \in keys THEN Defaults[Max({n \in DOMAIN bound : bound[n] = k})][1]
        ELSE Aliases[k.code]]

ActionFor(key) == IF key \in DOMAIN bindings THEN bindings[key] ELSE "None"

(* The event that the terminal sends for a key: a letter with Shift is an  *)
(* upper-case one, and an upper-case one comes with Shift.                 *)
EventOf(key) ==
  IF key.code \in Capitals THEN [key EXCEPT !.mods = @ \union {"shift"}]
  ELSE IF "shift" \in key.mods /\ key.code \in Letters THEN [key EXCEPT !.code = UpperOf[@]]
  ELSE key

-----------------------------------------------------------------------------
(* What a key does while a dialog is shown, without one, and in the pane   *)
(* that has the focus when no action takes it.                             *)

(* A fault: the key that opened the dialog does not close it.              *)
CloseByQuitAlone(d) == IF d = "ai" THEN {} ELSE {"Quit"}

CloseActions(d) ==
  CASE d = "ipinfo" -> {"Quit", "IpInfo"} [] d = "container" -> {"Quit", "ContainerInfo"} [] OTHER -> {}

InDialog(d, key) ==
  LET a == ActionFor(key)
      fixed == d = "ai" /\ key.code \in {"Left", "Right", "Up", "Down", "PageUp", "PageDown", "Enter", " "}
      leaves == \/ d = "ai" /\ key.code = "Esc"
                \/ d # "ai" /\ a \in CloseActions(d)
                \/ d # "ai" /\ a \notin {"NextPacket", "PrevPacket"} /\ key.code = "Esc"
  IN CASE leaves -> "Close"
       [] fixed -> "Fixed"
       [] ~leaves /\ ~fixed /\ a \in {"NextPacket", "PrevPacket"} -> a
       [] OTHER -> "None"

TableKeys ==
  [j |-> "MoveDown", Down |-> "MoveDown", k |-> "MoveUp", Up |-> "MoveUp", g |-> "MoveFirst",
   Home |-> "MoveFirst", G |-> "MoveLast", End |-> "MoveLast", PageDown |-> "PageDown", PageUp |-> "PageUp"]
TreeKeys ==
  [j |-> "MoveDown", Down |-> "MoveDown", k |-> "MoveUp", Up |-> "MoveUp", Enter |-> "ToggleExpand",
   Left |-> "Collapse", Right |-> "Expand"]

(* handle_packet_table_key, handle_detail_tree_key: they do not look at    *)
(* the modifiers.                                                          *)
InPane(key) ==
  CASE focus = "packets" /\ key.code \in DOMAIN TableKeys -> TableKeys[key.code]
    [] focus = "tree" /\ key.code \in DOMAIN TreeKeys -> TreeKeys[key.code]
    [] focus = "tree" /\ key.code = " " -> "ToggleExpand"
    [] OTHER -> "None"

(* A fault: the key that quits at once is not handled.                     *)
TakenUnlessForced(a) ==
  /\ a \notin {"None", "ForceQuit"}
  /\ a = "InterfacePicker" => ~capturing
  /\ a \in {"StopCapture", "ToggleAutoScroll"} => capturing

(* The guards of the match arms.                                           *)
Taken(a) ==
  /\ a # "None"
  /\ a = "InterfacePicker" => ~capturing
  /\ a \in {"StopCapture", "ToggleAutoScroll"} => capturing

Did(key) ==
  LET a == ActionFor(key)
  IN CASE openDialog # "none" -> InDialog(openDialog, key)
       [] openDialog = "none" /\ traceOverlay /\ key.code = "Esc" -> "CloseOverlay"
       [] openDialog = "none" /\ traceOverlay /\ key.code = "Down" -> "NextPacket"
       [] openDialog = "none" /\ traceOverlay /\ key.code = "Up" -> "PrevPacket"
       [] OTHER -> IF Taken(a) THEN a ELSE InPane(key)

-----------------------------------------------------------------------------
(* Keys that are pressed.                                                  *)

(* A fault: the trace overlay is a pane like the others.                   *)
CycleOfFour == [packets |-> "tree", tree |-> "hex", hex |-> "trace", trace |-> "packets"]

Cycle == [packets |-> "tree", tree |-> "hex", hex |-> "packets"]
CycleBack == [packets |-> "hex", tree |-> "packets", hex |-> "tree"]

FocusAfter(did) ==
  CASE did = "NextPane" -> Cycle[focus] [] did = "PrevPane" -> CycleBack[focus]
    [] did = "FocusPacketTable" -> "packets" [] did = "FocusDetailTree" -> "tree"
    [] did = "FocusHexView" -> "hex" [] OTHER -> focus

Opened == [IpInfo |-> "ipinfo", ContainerInfo |-> "container", AiPacketInfo |-> "ai"]

Press(key) ==
  LET did == Did(EventOf(key))
  IN /\ focus' = IF openDialog = "none" THEN FocusAfter(did) ELSE focus
     /\ traceOverlay' = CASE did = "FocusKernelTrace" -> ~traceOverlay [] did = "CloseOverlay" -> FALSE
                     [] did = "TogglePathTrace" -> TRUE [] OTHER -> traceOverlay
     /\ openDialog' = CASE did = "Close" -> "none"
                        [] openDialog = "none" /\ did \in DOMAIN Opened -> Opened[did]
                        [] OTHER -> openDialog
     /\ capturing' = (capturing /\ did # "StopCapture")
     /\ UNCHANGED <<override, bindings>>

(* The interface picker, which has keys of its own.                        *)
CaptureBegins ==
  /\ Did(ParseKeyString(<<"n">>)) = "InterfacePicker" /\ openDialog = "none"
  /\ capturing' = TRUE
  /\ UNCHANGED <<override, bindings, openDialog, traceOverlay, focus>>

(* Config::config_path: the file of the user who called sudo counts when   *)
(* there is no other.                                                      *)
ConfigFile(own, sudo) == IF own = Absent THEN sudo ELSE own

(* Config::load: without a file, or with one that cannot be parsed, every  *)
(* setting has its default.                                                *)
Load(file) == IF file \in {Absent, Garbled} THEN <<>> ELSE file

Files == ConfigFiles \union {Absent, Garbled}

BindStart(dialog) ==
  /\ override \in {Load(ConfigFile(own, sudo)) : own \in Files, sudo \in Files}
  /\ bindings = Table(override)
  /\ openDialog = dialog /\ traceOverlay = FALSE
  /\ focus = "packets" /\ capturing \in BOOLEAN

BindInit == BindStart("none")

FixedKeys == {Plain("Esc"), Plain("Down"), Plain("Up"), Plain("Home")}

BindNext ==
  \/ \E n \in DOMAIN Defaults : Press(KeyOf(override, n))
  \/ \E key \in FixedKeys : Press(key)
  \/ CaptureBegins

BindSpec == BindInit /\ [][BindNext]_bindVars

-----------------------------------------------------------------------------
(* Properties.                                                             *)

(* Every action that keeps its default key, while the file gives what the  *)
(* terminal sends for it to no other, is what that key does without a      *)
(* dialog, wherever the focus is, as the keys that the trace overlay has   *)
(* for itself are none of them; "G" is bound without the Shift that it     *)
(* comes with, and works in the packet table alone, by its fixed key       *)
(* (from_config, handle_key).                                              *)
DefaultsWork ==
  openDialog = "none" =>
    \A n \in DOMAIN Defaults :
      LET a == Defaults[n][1]
          key == ParseKeyString(Defaults[n][2])
          given == {ParseKeyString(override[b]) : b \in DOMAIN override \ {a}}
      IN /\ a \in DOMAIN override => ParseKeyString(override[a]) = NoKey
         /\ EventOf(key) \notin given
         /\ a = "MoveLast" => focus = "packets"
         /\ Taken(a)
         => Did(EventOf(key)) = IF traceOverlay /\ a = "StopCapture" THEN "CloseOverlay" ELSE a

(* No file takes away every way to leave a dialog, if it changes only two  *)
(* keys: Esc, the key that opened it, or the one that quits                *)
(* (handle_ipinfo_key, handle_container_key, handle_ai_overlay_key).       *)
DialogHasExit ==
  openDialog # "none" /\ Cardinality(DOMAIN override) <= 2 =>
    \/ Did(Plain("Esc")) = "Close"
    \/ \E n \in DOMAIN Defaults : Did(EventOf(KeyOf(override, n))) = "Close"

(* With one changed key the program can still be left by a key             *)
(* (from_config: a later action takes the key of an earlier one).          *)
QuitRemains ==
  openDialog = "none" /\ Cardinality(DOMAIN override) <= 1 =>
    \E n \in DOMAIN Defaults : Did(EventOf(KeyOf(override, n))) \in {"Quit", "ForceQuit"}

(* A key that does not parse is the same as one that is not set: the file  *)
(* with it and the file without it give the same table ("Invalid bindings  *)
(* fall back to defaults").                                                *)
InvalidIsDefault ==
  LET valid == {a \in DOMAIN override : ParseKeyString(override[a]) # NoKey}
  IN valid # DOMAIN override => bindings = Table([a \in valid |-> override[a]])

(* Whatever the file says, the keys lead somewhere and out again.          *)
KeysSound == BindTypeOK /\ DefaultsWork /\ DialogHasExit /\ QuitRemains /\ InvalidIsDefault

(* A key that the user gives to one action does that action                *)
(* (KeyConfig: filter = "f").                                              *)
UserKeyWins ==
  openDialog = "none" /\ ~traceOverlay =>
    \A a \in DOMAIN override :
      LET key == ParseKeyString(override[a])
      IN key # NoKey /\ (\A b \in DOMAIN override \ {a} : override[b] # override[a]) /\ Taken(a) =>
           Did(EventOf(key)) = a
=============================================================================
