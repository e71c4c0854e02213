------------------------------ MODULE Session ------------------------------
(***************************************************************************)
(* The session (app.rs, session management and key dispatch;              *)
(* capture/save.rs, capture/file.rs, session/recent.rs): the packets on    *)
(* the table, whether they are saved, the files they come from and go to,  *)
(* the dialogs that ask about them, and the ways the program ends.         *)
(*                                                                         *)
(* The main loop alternates a drain, which lists packets of a running      *)
(* capture, with at most one key.  A key goes to the open dialog of the    *)
(* highest priority, or to the global bindings.  The file system may       *)
(* refuse a file, run full in the middle of one, or hold one that is not a *)
(* capture.                                                                *)
(***************************************************************************)
EXTENDS Integers, Sequences, SequencesExt, FiniteSets

CONSTANTS
  Path,        \* paths the user can name
  Canon,       \* std::fs::canonicalize, a function from Path to Path
  Disk0,       \* what the paths hold when the program starts
  Missing,     \* no file
  Garbage,     \* a file that load_pcap cannot read to its end
  MaxRecent,   \* MAX_RECENT
  MaxPackets,  \* bound: packets captured in a behaviour
  None

ASSUME PathAssumption ==
  /\ None \notin Path
  /\ Canon \in [Path -> Path]
  /\ \A p \in Path : Canon[Canon[p]] = Canon[p]
ASSUME DiskAssumption ==
  /\ Disk0 \in [Path -> Range(Disk0)]
  /\ \A p \in Path : Disk0[p] \in {Missing, Garbage} \/ Disk0[p] \in Seq(Range(Disk0[p]))
ASSUME RecentAssumption == MaxRecent \in Nat \ {0}
ASSUME BoundAssumption == MaxPackets \in Nat

VARIABLES
  phase,          \* "drain" or "key": where the loop of run is; "leaving", "gone"
  ending,         \* history: which statement reset running
  open,           \* the show_ flags that are set, and filter_editing
  exportStep,     \* export_step
  openMode,       \* open_mode
  openSelected,   \* open_selected_recent
  quitAfterSave,  \* quit_after_save
  capture,        \* capture_state
  live,           \* live_capture is Some
  arrived,        \* history: packets captured so far
  store,          \* the packets of the store
  modified,       \* modified_since_save
  filePath,       \* file_path
  lastSave,       \* last_save_path
  recent,         \* recent_files
  recentOnDisk,   \* recent.json
  disk,           \* what is at each canonical path
  origin,         \* history: the file last loaded, or saved to in full
  spoilt,         \* history: a later write of this program went over it
  home            \* history: the paths this document was loaded from or saved to

dialogVars == <<open, exportStep, openMode, openSelected, quitAfterSave>>
captureVars == <<capture, live>>
originVars == <<origin, spoilt>>
storeVars == <<store, modified, originVars, arrived>>
fileVars == <<filePath, lastSave, recent, recentOnDisk, disk, home>>
vars == <<phase, ending, dialogVars, captureVars, storeVars, fileVars>>

(* handle_key asks the dialogs in this order.                              *)
Priority == <<"help", "quit", "stats", "ipinfo", "container", "ai", "export",
              "save", "open", "preset", "picker", "filter">>

Modal == Range(Priority)

HasKeys(d) ==
  /\ d \in open
  /\ \A e \in open : \E i, j \in DOMAIN Priority :
       Priority[i] = d /\ Priority[j] = e /\ i <= j

NoDialog == open = {}

TypeOK ==
  /\ phase \in {"drain", "key", "leaving", "gone"}
  /\ ending \in {"", "clean", "saved", "discarded", "forced", "picker"}
  /\ open \subseteq Modal /\ quitAfterSave \in BOOLEAN
  /\ exportStep \in {"FormatSelect", "FilenameInput"}
  /\ openMode \in {"TextInput", "RecentList"} /\ openSelected \in Nat
  /\ capture \in {"Idle", "Capturing", "Stopped"} /\ live \in BOOLEAN
  /\ arrived \in 0..MaxPackets /\ modified \in BOOLEAN
  /\ filePath \in Path \cup {None} /\ lastSave \in Path \cup {None}
  /\ home \subseteq Path /\ origin \in Path \cup {None} /\ spoilt \in BOOLEAN
  /\ recent \in Seq(Path) /\ recentOnDisk \in Seq(Path)
  /\ DOMAIN disk = Path

-----------------------------------------------------------------------------
(* Files.                                                                  *)

Contents(p) == disk[Canon[p]]
Put(p, c) == disk' = [disk EXCEPT ![Canon[p]] = c]
Spoil(p) == spoilt' = (spoilt \/ origin = Canon[p])
Readable(p) == Contents(p) \notin {Missing, Garbage}

(* Vec::retain: a list without some names.                                 *)
Retained(list, gone) ==
  LET upTo[n \in 0..Len(list)] ==
        IF n = 0 THEN <<>>
        ELSE IF list[n] \in gone THEN upTo[n - 1] ELSE Append(upTo[n - 1], list[n])
  IN upTo[Len(list)]

(* A fault: add without the retain.                                        *)
WithRecentAgain(p) ==
  LET all == <<Canon[p]>> \o recent
  IN  SubSeq(all, 1, IF Len(all) < MaxRecent THEN Len(all) ELSE MaxRecent)

(* RecentFiles::add.                                                       *)
WithRecent(p) ==
  LET all == <<Canon[p]>> \o Retained(recent, {Canon[p], p})
  IN  SubSeq(all, 1, IF Len(all) < MaxRecent THEN Len(all) ELSE MaxRecent)

(* The list is written out at once.  An error is ignored; recent.json then *)
(* holds the old list, or something that reads as no list.                 *)
AddRecent(p) ==
  /\ recent' = WithRecent(p)
  /\ recentOnDisk' \in {recent', recentOnDisk, <<>>}

(* is_modified.                                                            *)
IsModified == modified /\ store # <<>>

(* A fault: add does not note that the store changed.                      *)
ListedUnnoticed(n) ==
  /\ arrived + n <= MaxPackets
  /\ arrived' = arrived + n
  /\ store' = store \o [i \in 1..n |-> arrived + i]
  /\ modified' = modified

(* PacketStore::add, for the next n packets of the capture.                *)
Listed(n) ==
  /\ arrived + n <= MaxPackets
  /\ arrived' = arrived + n
  /\ store' = store \o [i \in 1..n |-> arrived + i]
  /\ modified' = (modified \/ n > 0)

MarkSaved == modified' = FALSE

(* A fault: what is still in the buffer of the writer is never flushed.    *)
SaveDoneUnflushed(p) ==
  /\ store # <<>>
  /\ Put(p, Front(store))
  /\ MarkSaved
  /\ origin' = Canon[p] /\ spoilt' = FALSE /\ home' = home \cup {p}
  /\ lastSave' = p
  /\ AddRecent(p)

(* do_save when save_pcap writes and flushes everything.                   *)
SaveDone(p) ==
  /\ store # <<>>
  /\ Put(p, store)
  /\ MarkSaved
  /\ origin' = Canon[p] /\ spoilt' = FALSE /\ home' = home \cup {p}
  /\ lastSave' = p
  /\ AddRecent(p)

(* A fault: the packets count as saved whatever save_pcap returned.        *)
SaveFailedMarked(p) ==
  /\ UNCHANGED disk
  /\ MarkSaved
  /\ UNCHANGED <<originVars, home, lastSave, recent, recentOnDisk>>

(* do_save when it does not: before the file is created, or with a part of *)
(* the packets written.  The error goes to the status line.                *)
SaveFailed(p) ==
  /\ \/ UNCHANGED <<disk, spoilt>>
     \/ /\ Put(p, Garbage) \/ \E n \in 0..(Len(store) - 1) : Put(p, SubSeq(store, 1, n))
        /\ Spoil(p)
  /\ UNCHANGED <<modified, origin, home, lastSave, recent, recentOnDisk>>

DoSave(p) ==
  /\ SaveDone(p) \/ SaveFailed(p)
  /\ UNCHANGED <<store, arrived, filePath, captureVars>>

-----------------------------------------------------------------------------
(* The loop.                                                               *)

(* When run enters its loop: a file is loaded, a capture is running, or    *)
(* the interface picker is shown, unless the interfaces cannot be listed.  *)
Init ==
  /\ phase = "drain" /\ ending = "" /\ quitAfterSave = FALSE
  /\ exportStep = "FormatSelect" /\ openMode = "RecentList" /\ openSelected = 0
  /\ arrived = 0 /\ modified = FALSE /\ lastSave = None /\ disk = Disk0 /\ spoilt = FALSE
  /\ \/ \E p \in Path :
          /\ Disk0[Canon[p]] \notin {Missing, Garbage}
          /\ store = Disk0[Canon[p]] /\ filePath = p /\ home = {p} /\ origin = Canon[p]
          /\ recent = <<Canon[p]>> /\ recentOnDisk \in {<<>>, recent}
          /\ capture = "Idle" /\ live = FALSE /\ open = {}
     \/ /\ store = <<>> /\ filePath = None /\ home = {} /\ origin = None
        /\ recent = <<>> /\ recentOnDisk = <<>>
        /\ \/ capture = "Capturing" /\ live = TRUE /\ open = {}
           \/ capture = "Idle" /\ live = FALSE /\ open \in {{}, {"picker"}}

(* drain_capture_packets: packets arrive while live_capture is there, and  *)
(* it may be found dead.                                                   *)
Drain ==
  /\ phase = "drain"
  /\ phase' = "key"
  /\ \/ /\ live
        /\ \E n \in 0..(MaxPackets - arrived) : Listed(n)
        /\ capture' \in {capture, IF capture = "Capturing" THEN "Stopped" ELSE capture}
     \/ ~live /\ UNCHANGED <<store, modified, arrived, capture>>
  /\ UNCHANGED <<ending, dialogVars, live, originVars, fileVars>>

(* What every key handler has in common; why is "" when running stays set. *)
KeyStep(why) ==
  /\ phase = "key"
  /\ phase' = IF why = "" THEN "drain" ELSE "leaving"
  /\ ending' = why

(* A key without effect on the session, or Event::Tick.                    *)
Tick ==
  /\ KeyStep("")
  /\ UNCHANGED <<dialogVars, captureVars, storeVars, fileVars>>

(* The drain after the loop; then LiveCapture is dropped.                  *)
Leave ==
  /\ phase = "leaving"
  /\ phase' = "gone"
  /\ IF live THEN \E n \in 0..(MaxPackets - arrived) : Listed(n)
             ELSE UNCHANGED <<store, modified, arrived>>
  /\ live' = FALSE
  /\ UNCHANGED <<ending, dialogVars, capture, originVars, fileVars>>

Gone == phase = "gone" /\ UNCHANGED vars

-----------------------------------------------------------------------------
(* Captures.                                                               *)

(* stop_capture: the last drain, then the capture is dropped.              *)
StopCapture ==
  /\ \E n \in 0..(MaxPackets - arrived) : Listed(n)
  /\ live' = FALSE /\ capture' = "Stopped"

KeyStop ==
  /\ KeyStep("") /\ NoDialog
  /\ capture = "Capturing"
  /\ StopCapture
  /\ UNCHANGED <<dialogVars, originVars, fileVars>>

(* open_interface_picker; the list can fail.                               *)
KeyPicker ==
  /\ KeyStep("") /\ NoDialog
  /\ capture # "Capturing" /\ filePath = None
  /\ open' = {"picker"}
  /\ UNCHANGED <<exportStep, openMode, openSelected, quitAfterSave, captureVars, storeVars, fileVars>>

(* Enter in the picker: start_capture succeeds, or fails before it changed *)
(* anything.                                                               *)
PickerEnter ==
  /\ KeyStep("") /\ HasKeys("picker")
  /\ open' = open \ {"picker"}
  /\ \/ capture' = "Capturing" /\ live' = TRUE
     \/ UNCHANGED captureVars
  /\ UNCHANGED <<exportStep, openMode, openSelected, quitAfterSave, storeVars, fileVars>>

(* Esc in the picker ends a program that has nothing to show.              *)
PickerEsc ==
  /\ HasKeys("picker")
  /\ KeyStep(IF capture = "Idle" /\ filePath = None /\ store = <<>> THEN "picker" ELSE "")
  /\ open' = open \ {"picker"}
  /\ UNCHANGED <<exportStep, openMode, openSelected, quitAfterSave, captureVars, storeVars, fileVars>>

-----------------------------------------------------------------------------
(* Saving and quitting.                                                    *)

ShowSave == open' = open \cup {"save"}

(* open_save_dialog.                                                       *)
KeySave ==
  /\ KeyStep("") /\ NoDialog
  /\ store # <<>> /\ ShowSave
  /\ UNCHANGED <<exportStep, openMode, openSelected, quitAfterSave, captureVars, storeVars, fileVars>>

(* quick_save.                                                             *)
QuickSave ==
  /\ KeyStep("") /\ NoDialog
  /\ store # <<>>
  /\ \/ lastSave # None /\ DoSave(lastSave) /\ UNCHANGED open
     \/ /\ lastSave = None /\ ShowSave
        /\ UNCHANGED <<captureVars, storeVars, fileVars>>
  /\ UNCHANGED <<exportStep, openMode, openSelected, quitAfterSave>>

(* Enter in the save dialog with a file name.                              *)
SaveEnter(p) ==
  /\ HasKeys("save")
  /\ KeyStep(IF quitAfterSave THEN "saved" ELSE "")
  /\ open' = open \ {"save"} /\ quitAfterSave' = FALSE
  /\ DoSave(p)
  /\ UNCHANGED <<exportStep, openMode, openSelected>>

(* A fault: leaving the dialog forgets to withdraw the wish to quit.       *)
SaveEscKeepsWish ==
  /\ KeyStep("") /\ HasKeys("save")
  /\ open' = open \ {"save"}
  /\ UNCHANGED <<quitAfterSave, exportStep, openMode, openSelected, captureVars, storeVars, fileVars>>

(* Esc in the save dialog, or Enter on a blank name.                       *)
SaveEsc ==
  /\ KeyStep("") /\ HasKeys("save")
  /\ open' = open \ {"save"} /\ quitAfterSave' = FALSE
  /\ UNCHANGED <<exportStep, openMode, openSelected, captureVars, storeVars, fileVars>>

(* try_quit.                                                               *)
TryQuit ==
  /\ NoDialog
  /\ KeyStep(IF IsModified THEN "" ELSE "clean")
  /\ open' = IF IsModified THEN {"quit"} ELSE open
  /\ UNCHANGED <<exportStep, openMode, openSelected, quitAfterSave, captureVars, storeVars, fileVars>>

ForceQuit ==
  /\ KeyStep("forced") /\ NoDialog
  /\ UNCHANGED <<dialogVars, captureVars, storeVars, fileVars>>

(* "s" in the quit confirmation: running is reset whatever do_save did.    *)
QuitSave ==
  /\ HasKeys("quit")
  /\ \/ /\ lastSave # None /\ KeyStep("saved") /\ DoSave(lastSave)
        /\ open' = open \ {"quit"} /\ UNCHANGED quitAfterSave
     \/ /\ lastSave = None /\ KeyStep("")
        /\ open' = (open \ {"quit"}) \cup (IF store = <<>> THEN {} ELSE {"save"})
        /\ quitAfterSave' = TRUE
        /\ UNCHANGED <<captureVars, storeVars, fileVars>>
  /\ UNCHANGED <<exportStep, openMode, openSelected>>

(* "d" and "c".                                                            *)
QuitDiscard ==
  /\ KeyStep("discarded") /\ HasKeys("quit")
  /\ open' = open \ {"quit"}
  /\ UNCHANGED <<exportStep, openMode, openSelected, quitAfterSave, captureVars, storeVars, fileVars>>

QuitCancel ==
  /\ KeyStep("") /\ HasKeys("quit")
  /\ open' = open \ {"quit"} /\ quitAfterSave' = FALSE
  /\ UNCHANGED <<exportStep, openMode, openSelected, captureVars, storeVars, fileVars>>

-----------------------------------------------------------------------------
(* Opening files.                                                          *)

(* A fault: the line highlighted before stays highlighted.                 *)
KeyOpenSameLine ==
  /\ KeyStep("") /\ NoDialog
  /\ recent' = recentOnDisk
  /\ openMode' = IF recent' = <<>> THEN "TextInput" ELSE "RecentList"
  /\ open' = {"open"}
  /\ UNCHANGED <<openSelected, exportStep, quitAfterSave, captureVars, storeVars,
                 filePath, lastSave, recentOnDisk, disk, home>>

(* open_open_dialog: the list is read again from recent.json.              *)
KeyOpen ==
  /\ KeyStep("") /\ NoDialog
  /\ recent' = recentOnDisk
  /\ openSelected' = 0
  /\ openMode' = IF recent' = <<>> THEN "TextInput" ELSE "RecentList"
  /\ open' = {"open"}
  /\ UNCHANGED <<exportStep, quitAfterSave, captureVars, storeVars,
                 filePath, lastSave, recentOnDisk, disk, home>>

OpenTab ==
  /\ KeyStep("") /\ HasKeys("open")
  /\ recent # <<>>
  /\ openMode' = IF openMode = "TextInput" THEN "RecentList" ELSE "TextInput"
  /\ UNCHANGED <<open, exportStep, openSelected, quitAfterSave, captureVars, storeVars, fileVars>>

(* A fault: up from the first line.                                        *)
OpenMoveBelowZero ==
  /\ KeyStep("") /\ HasKeys("open")
  /\ openMode = "RecentList" /\ recent # <<>>
  /\ openSelected' = openSelected - 1
  /\ UNCHANGED <<open, exportStep, openMode, quitAfterSave, captureVars, storeVars, fileVars>>

(* handle_open_recent_list: down, up, first, last.                         *)
OpenMove ==
  /\ KeyStep("") /\ HasKeys("open")
  /\ openMode = "RecentList" /\ recent # <<>>
  /\ openSelected' \in {IF openSelected < Len(recent) - 1 THEN openSelected + 1 ELSE openSelected,
                        IF openSelected > 0 THEN openSelected - 1 ELSE 0,
                        0, Len(recent) - 1}
  /\ UNCHANGED <<open, exportStep, openMode, quitAfterSave, captureVars, storeVars, fileVars>>

OpenEsc ==
  /\ KeyStep("") /\ HasKeys("open")
  /\ open' = open \ {"open"}
  /\ UNCHANGED <<exportStep, openMode, openSelected, quitAfterSave, captureVars, storeVars, fileVars>>

(* do_open_file of a file that load_pcap reads: the session is replaced.   *)
Load(p) ==
  /\ Readable(p)
  /\ store' = Contents(p) /\ modified' = FALSE
  /\ origin' = Canon[p] /\ spoilt' = FALSE
  /\ capture' = "Idle" /\ live' = FALSE
  /\ arrived' \in arrived..(IF capture = "Capturing" THEN MaxPackets ELSE arrived)
  /\ filePath' = p /\ home' = {p}
  /\ AddRecent(p)
  /\ UNCHANGED <<lastSave, disk>>

(* A fault: the store is cleared before the file is read.                  *)
LoadFailedCleared(p) ==
  /\ ~Readable(p)
  /\ store' = <<>> /\ modified' = FALSE
  /\ capture' = "Idle" /\ live' = FALSE
  /\ UNCHANGED <<arrived, originVars, fileVars>>

(* do_open_file of any other: only the capture is stopped.                 *)
LoadFailed(p) ==
  /\ ~Readable(p)
  /\ IF capture = "Capturing" THEN StopCapture
                              ELSE UNCHANGED <<store, modified, arrived, captureVars>>
  /\ UNCHANGED <<originVars, fileVars>>

(* Enter in the open dialog.                                               *)
OpenEnter(p) ==
  /\ KeyStep("") /\ HasKeys("open")
  /\ openMode = "RecentList" => openSelected < Len(recent) /\ p = recent[openSelected + 1]
  /\ open' = open \ {"open"}
  /\ Load(p) \/ LoadFailed(p)
  /\ UNCHANGED <<exportStep, openMode, openSelected, quitAfterSave>>

-----------------------------------------------------------------------------
(* The other dialogs.                                                      *)

(* The export dialog: two steps, Esc goes back one.                        *)
KeyExport ==
  /\ KeyStep("") /\ NoDialog
  /\ store # <<>>
  /\ open' = {"export"} /\ exportStep' = "FormatSelect"
  /\ UNCHANGED <<openMode, openSelected, quitAfterSave, captureVars, storeVars, fileVars>>

ExportNext ==
  /\ KeyStep("") /\ HasKeys("export")
  /\ exportStep' = IF exportStep = "FormatSelect" THEN "FilenameInput" ELSE "FormatSelect"
  /\ UNCHANGED <<open, openMode, openSelected, quitAfterSave, captureVars, storeVars, fileVars>>

(* do_export writes a text, all of it, a part, or nothing; or the name is  *)
(* blank, or the first step is left.                                       *)
ExportClose(p) ==
  /\ KeyStep("") /\ HasKeys("export")
  /\ open' = open \ {"export"}
  /\ \/ UNCHANGED <<disk, spoilt>>
     \/ exportStep = "FilenameInput" /\ Put(p, Garbage) /\ Spoil(p)
  /\ UNCHANGED <<exportStep, openMode, openSelected, quitAfterSave, captureVars, store,
                 modified, arrived, origin, filePath, lastSave, recent, recentOnDisk, home>>

(* Help, statistics, filter bar and presets open at any time; the dialogs  *)
(* about a packet only when one is selected.  (AiOverlay, IpLookup and     *)
(* Capture say what they do.)                                              *)
Plain == {"help", "stats", "filter", "preset"}
AboutPacket == {"ipinfo", "container", "ai"}

(* A fault: help is opened above a dialog, which stays.                    *)
KeyShowAbove(d) ==
  /\ KeyStep("")
  /\ d = "help"
  /\ open' = open \cup {d}
  /\ UNCHANGED <<exportStep, openMode, openSelected, quitAfterSave, captureVars, storeVars, fileVars>>

KeyShow(d) ==
  /\ KeyStep("") /\ NoDialog
  /\ d \in Plain \/ (d \in AboutPacket /\ store # <<>>)
  /\ open' = {d}
  /\ UNCHANGED <<exportStep, openMode, openSelected, quitAfterSave, captureVars, storeVars, fileVars>>

Hide(d) ==
  /\ KeyStep("") /\ HasKeys(d)
  /\ d \in Plain \cup AboutPacket
  /\ open' = open \ {d}
  /\ UNCHANGED <<exportStep, openMode, openSelected, quitAfterSave, captureVars, storeVars, fileVars>>

DialogNext ==
  \/ KeyExport \/ ExportNext \/ \E p \in Path : ExportClose(p)
  \/ \E d \in Plain \cup AboutPacket : KeyShow(d) \/ Hide(d)

FileNext ==
  \/ KeySave \/ QuickSave \/ SaveEsc
  \/ KeyOpen \/ OpenTab \/ OpenMove \/ OpenEsc
  \/ \E p \in Path : SaveEnter(p) \/ OpenEnter(p)

QuitNext == TryQuit \/ ForceQuit \/ QuitSave \/ QuitDiscard \/ QuitCancel

Next ==
  \/ Drain \/ Tick \/ Leave \/ Gone
  \/ KeyStop \/ KeyPicker \/ PickerEnter \/ PickerEsc
  \/ FileNext \/ QuitNext \/ DialogNext

Spec == Init /\ [][Next]_vars

-----------------------------------------------------------------------------
(* Properties.                                                             *)

(* try_quit ends the program without a question only when every packet on  *)
(* the table is in a file: the one last loaded, or last saved to in full,  *)
(* still holds exactly them (is_modified, add, mark_saved after save_pcap, *)
(* do_open_file).  The exception is that this program wrote over that file *)
(* in between, by a save that failed or by an export: nothing then notes   *)
(* that the packets are in no file any more.                               *)
UnmodifiedIsKept ==
  ~IsModified => store = <<>> \/ (origin # None /\ (spoilt \/ disk[origin] = store))

(* At most one dialog is open, so that handle_key gives every key to the   *)
(* dialog the user sees on top.                                            *)
OneDialog == Cardinality(open) <= 1

(* The wish to quit after the save ends with the save dialog: a save asked *)
(* for later never ends the program.                                       *)
WishOnlyWhileSaving == quitAfterSave => "save" \in open

(* One dialog has the keys, and what is to follow it ends with it.         *)
DialogSound == OneDialog /\ WishOnlyWhileSaving

(* No file is listed twice as recent, under any of its names, in memory or *)
(* in recent.json.                                                         *)
RecentOnce == IsInjective(recent) /\ IsInjective(recentOnDisk)

(* The highlighted line of the recent list exists whenever Enter would     *)
(* open it, although the list is read anew and the mode toggles.           *)
RecentLineExists ==
  "open" \in open /\ openMode = "RecentList" => openSelected \in 0..(Len(recent) - 1)

(* The list of recent files names each once and the highlighted one.       *)
RecentSound == TypeOK /\ RecentOnce /\ RecentLineExists

(* Packets leave the table only for those of a file that was read to its   *)
(* end: a file that cannot be read takes nothing away.                     *)
OnlyAFileReplaces ==
  [][IsPrefix(store, store') \/ (filePath' # None /\ store' = disk'[Canon[filePath']])]_vars

(* What the documentation says and the code does not do.                   *)

(* The confirmation's Save quits after the save completes.                 *)
SavedBeforeQuit ==
  ending = "saved" /\ phase = "leaving" => \E p \in Path : disk[Canon[p]] = store

(* Unmodified packets are in a file, without the exception.                *)
UnmodifiedIsOnDisk == ~IsModified => store = <<>> \/ (origin # None /\ disk[origin] = store)

(* Opening a file resets the entire session state: a path saved to before  *)
(* is not where a quick save of this document goes.                        *)
LastSaveIsOfThisDocument == lastSave = None \/ lastSave \in home
=============================================================================
