--------------------------- MODULE Session_proofs ---------------------------
(***************************************************************************)
(* Proofs about Session, for any files, names of files and packets.        *)
(***************************************************************************)
EXTENDS Session, SequenceTheorems, FiniteSetTheorems, WellFoundedInduction, TLAPS

(* What a packet on the table or in a file may be.                         *)
Packet ==
  Nat \cup UNION {Range(Disk0[p]) : p \in {q \in Path : Disk0[q] \notin {Missing, Garbage}}}

Stored ==
  /\ store \in Seq(Packet) /\ arrived \in Nat
  /\ disk \in [Path -> Seq(Packet) \cup {Missing, Garbage}]

(* One dialog at most is open.                                             *)
AloneOpen == \E d \in Modal : open \subseteq {d}

(* The program asks before it quits only while there is something to lose. *)
AskedOverPackets == "quit" \in open => store # <<>>

(* The packets are in the file they came from or went to, or that file was *)
(* written over, or they are marked as modified.                           *)
SavedUnlessModified ==
  /\ origin \in Path \cup {None} /\ spoilt \in BOOLEAN
  /\ \/ modified \/ store = <<>>
     \/ origin # None /\ (spoilt \/ disk[origin] = store)

DialogInv == AloneOpen /\ AskedOverPackets /\ WishOnlyWhileSaving
SessionInv == Stored /\ DialogInv /\ SavedUnlessModified

-----------------------------------------------------------------------------
(* Lists of packets that grow.                                             *)

LEMMA ListedStep ==
  ASSUME Stored, NEW n \in Nat, Listed(n)
  PROVE  /\ store' \in Seq(Packet) /\ arrived' \in Nat
         /\ store # <<>> => store' # <<>>
         /\ n = 0 => store' = store
         /\ IsPrefix(store, store')
         /\ modified' = (modified \/ n > 0)
<1> DEFINE new == [i \in 1..n |-> arrived + i]
<1>1. new \in Seq(Packet) /\ Len(new) = n
  <2>1. \A i \in 1..n : arrived + i \in Packet
    BY DEF Packet, Stored
  <2> QED
    BY <2>1
<1>2. store' = store \o new /\ arrived' = arrived + n /\ modified' = (modified \/ n > 0)
  BY DEF Listed
<1>3. store' \in Seq(Packet) /\ Len(store') = Len(store) + n
  BY <1>1, <1>2, ConcatProperties DEF Stored
<1>4. \A i \in 1..Len(store) : store'[i] = store[i]
  BY <1>1, <1>2, ConcatProperties DEF Stored
<1>5. n = 0 => store' = store
  BY <1>3, <1>4, SeqEqual DEF Stored
<1>6. IsPrefix(store, store')
  BY <1>3, <1>4 DEF IsPrefix, Stored
<1>7. arrived' \in Nat
  BY <1>2 DEF Stored
<1>8. store # <<>> => store' # <<>>
  BY <1>3, EmptySeq DEF Stored
<1> QED
  BY <1>2, <1>3, <1>5, <1>6, <1>7, <1>8

(* What the program does with one file.                                    *)

LEMMA ContentsTyped ==
  ASSUME Stored, NEW p \in Path
  PROVE  Canon[p] \in Path /\ Contents(p) \in Seq(Packet) \cup {Missing, Garbage}
  BY PathAssumption DEF Contents, Stored

(* A write that is not a save in full: the file it went to may be the one  *)
(* the packets are in.                                                     *)
LEMMA Spoiling ==
  ASSUME Stored, SavedUnlessModified, NEW p \in Path,
         NEW c \in Seq(Packet) \cup {Missing, Garbage},
         Put(p, c), Spoil(p), UNCHANGED <<store, arrived, modified, origin>>
  PROVE  Stored' /\ SavedUnlessModified'
<1>1. Canon[p] \in Path /\ disk' = [disk EXCEPT ![Canon[p]] = c]
  BY PathAssumption DEF Put
<1>2. Stored'
  BY <1>1 DEF Stored
<1>3. spoilt' = (spoilt \/ origin = Canon[p])
  BY DEF Spoil
<1>4. CASE origin = Canon[p]
  BY <1>1, <1>2, <1>3, <1>4, PathAssumption DEF SavedUnlessModified
<1>5. CASE origin # Canon[p]
  <2>1. origin # None => disk'[origin] = disk[origin]
    BY <1>1, <1>5 DEF Stored, SavedUnlessModified
  <2> QED
    BY <1>2, <1>3, <1>5, <2>1 DEF SavedUnlessModified
<1> QED
  BY <1>4, <1>5

LEMMA SaveStep ==
  ASSUME Stored, SavedUnlessModified, NEW p \in Path, DoSave(p)
  PROVE  Stored' /\ SavedUnlessModified' /\ store' = store
<1>1. UNCHANGED <<store, arrived>>
  BY DEF DoSave
<1>2. CASE SaveDone(p)
  BY <1>1, <1>2, ContentsTyped, PathAssumption DEF Stored, SavedUnlessModified, SaveDone, Put, MarkSaved
<1>3. CASE SaveFailed(p)
  <2>1. \A n \in 0..(Len(store) - 1) : SubSeq(store, 1, n) \in Seq(Packet)
    BY SubSeqProperties DEF Stored
  <2>2. CASE UNCHANGED <<disk, spoilt>>
    BY <1>1, <1>3, <2>2 DEF Stored, SavedUnlessModified, SaveFailed
  <2>3. ASSUME NEW c \in Seq(Packet) \cup {Missing, Garbage}, Put(p, c), Spoil(p)
        PROVE  Stored' /\ SavedUnlessModified'
    BY <1>1, <1>3, <2>3, Spoiling DEF SaveFailed
  <2> QED
    BY <1>1, <1>3, <2>1, <2>2, <2>3 DEF SaveFailed
<1> QED
  BY <1>2, <1>3, <1>1 DEF DoSave

LEMMA LoadStep ==
  ASSUME Stored, NEW p \in Path, Load(p)
  PROVE  Stored' /\ SavedUnlessModified' /\ store' = disk'[Canon[p]] /\ filePath' = p
<1>1. Contents(p) \in Seq(Packet)
  BY ContentsTyped DEF Load, Readable
<1>2. arrived' \in Nat
  BY BoundAssumption DEF Load, Stored
<1> QED
  BY <1>1, <1>2, ContentsTyped, PathAssumption DEF Stored, SavedUnlessModified, Load, Contents

(* StopCapture, and Drain and Leave while there is a capture.              *)
LEMMA ListingKeeps ==
  ASSUME Stored, SavedUnlessModified, \E n \in 0..(MaxPackets - arrived) : Listed(n),
         UNCHANGED <<disk, originVars>>
  PROVE  /\ Stored' /\ SavedUnlessModified' /\ IsPrefix(store, store')
         /\ store # <<>> => store' # <<>>
<1>1. PICK n \in 0..(MaxPackets - arrived) : Listed(n)
  OBVIOUS
<1>2. n \in Nat
  BY BoundAssumption DEF Stored
<1>3. /\ store' \in Seq(Packet) /\ arrived' \in Nat /\ IsPrefix(store, store')
      /\ store # <<>> => store' # <<>>
      /\ n = 0 => store' = store
      /\ modified' = (modified \/ n > 0)
  BY <1>1, <1>2, ListedStep
<1>4. Stored'
  BY <1>3 DEF Stored
<1>5. SavedUnlessModified'
  <2>1. CASE n = 0
    BY <1>3, <2>1 DEF SavedUnlessModified, originVars
  <2>2. CASE n > 0
    BY <1>3, <2>2 DEF SavedUnlessModified, originVars
  <2> QED
    BY <1>2, <2>1, <2>2
<1> QED
  BY <1>3, <1>4, <1>5

LEMMA Unlisted ==
  ASSUME Stored, SavedUnlessModified, UNCHANGED <<store, arrived, modified, originVars, disk>>
  PROVE  Stored' /\ SavedUnlessModified' /\ IsPrefix(store, store')
         /\ store' = store
  BY DEF Stored, SavedUnlessModified, originVars, IsPrefix

LEMMA LoadFailedStep ==
  ASSUME Stored, SavedUnlessModified, NEW p \in Path, LoadFailed(p)
  PROVE  Stored' /\ SavedUnlessModified' /\ IsPrefix(store, store')
<1>1. UNCHANGED <<disk, originVars>>
  BY DEF LoadFailed, fileVars
<1>2. CASE capture = "Capturing"
  BY <1>1, <1>2, ListingKeeps DEF LoadFailed, StopCapture
<1>3. CASE capture # "Capturing"
  BY <1>1, <1>3, Unlisted DEF LoadFailed
<1> QED
  BY <1>2, <1>3

-----------------------------------------------------------------------------
(* Dialogs.                                                                *)

LEMMA Dialogs ==
  {"picker", "save", "quit", "open", "export"} \cup Plain \cup AboutPacket \subseteq Modal
<1>1. \A i \in 1..12 : Priority[i] \in Modal
  BY DEF Modal, Range, Priority
<1>2. /\ Priority[1] = "help" /\ Priority[2] = "quit" /\ Priority[3] = "stats" /\ Priority[4] = "ipinfo"
      /\ Priority[5] = "container" /\ Priority[6] = "ai" /\ Priority[7] = "export" /\ Priority[8] = "save"
      /\ Priority[9] = "open" /\ Priority[10] = "preset" /\ Priority[11] = "picker" /\ Priority[12] = "filter"
  BY DEF Priority
<1> HIDE DEF Priority
<1> QED
  BY <1>1, <1>2 DEF Plain, AboutPacket

LEMMA OnlyOpen ==
  ASSUME AloneOpen, NEW d, d \in open
  PROVE  open = {d}
  BY DEF AloneOpen

(* Steps that open a dialog when there is none, or close the one there is. *)
LEMMA DialogKept ==
  ASSUME DialogInv, UNCHANGED <<open, quitAfterSave>>, store # <<>> => store' # <<>>
  PROVE  DialogInv'
  BY DEF DialogInv, AloneOpen, AskedOverPackets, WishOnlyWhileSaving

LEMMA DialogOpened ==
  ASSUME DialogInv, NEW d \in Modal, d # "quit", open = {}, open' = {d}, UNCHANGED quitAfterSave
  PROVE  DialogInv'
  BY DEF DialogInv, AloneOpen, AskedOverPackets, WishOnlyWhileSaving

LEMMA DialogClosed ==
  ASSUME DialogInv, NEW d \in open, open' = open \ {d},
         quitAfterSave' = FALSE \/ (d # "save" /\ UNCHANGED quitAfterSave)
  PROVE  DialogInv'
<1>1. open = {d} /\ open' = {}
  BY OnlyOpen DEF DialogInv
<1>2. quitAfterSave' = FALSE
  BY <1>1 DEF DialogInv, WishOnlyWhileSaving
<1>3. AloneOpen'
  BY <1>1 DEF AloneOpen, DialogInv
<1> QED
  BY <1>1, <1>2, <1>3 DEF DialogInv, AskedOverPackets, WishOnlyWhileSaving

-----------------------------------------------------------------------------
(* Every step.                                                             *)

LEMMA SessionInitially == Init => SessionInv
<1> SUFFICES ASSUME Init PROVE SessionInv
  OBVIOUS
<1>1. \A p \in Path : Disk0[p] \in {Missing, Garbage} \/ Disk0[p] \in Seq(Packet)
  <2> SUFFICES ASSUME NEW p \in Path, Disk0[p] \notin {Missing, Garbage}
               PROVE  Disk0[p] \in Seq(Packet)
    OBVIOUS
  <2>1. Disk0[p] \in Seq(Range(Disk0[p])) /\ Range(Disk0[p]) \subseteq Packet
    BY DiskAssumption DEF Packet
  <2> QED
    BY <2>1
<1>2. Disk0 \in [Path -> Seq(Packet) \cup {Missing, Garbage}]
  BY <1>1, DiskAssumption
<1>3. Stored
  <2>1. store \in Seq(Packet)
    <3>1. CASE store = <<>>
      BY <3>1
    <3>2. ASSUME NEW p \in Path, Disk0[Canon[p]] \notin {Missing, Garbage}, store = Disk0[Canon[p]]
          PROVE  store \in Seq(Packet)
      BY <1>1, <3>2, PathAssumption
    <3> QED
      BY <3>1, <3>2 DEF Init
  <2> QED
    BY <1>2, <2>1 DEF Init, Stored
<1>4. AloneOpen
  BY Dialogs DEF Init, AloneOpen
<1>5. SavedUnlessModified
  <2>1. origin \in Path \cup {None}
    <3>1. origin = None \/ \E p \in Path : origin = Canon[p]
      BY Zenon DEF Init
    <3> QED
      BY <3>1, PathAssumption
  <2>2. spoilt \in BOOLEAN
    BY DEF Init
  <2>3. store = <<>> \/ (origin \in Path /\ disk[origin] = store)
    BY PathAssumption DEF Init
  <2> QED
    BY <2>1, <2>2, <2>3, PathAssumption DEF SavedUnlessModified
<1> QED
  BY <1>3, <1>4, <1>5 DEF Init, SessionInv, DialogInv, AskedOverPackets, WishOnlyWhileSaving

(* The packets on the table after a step: more of them, or those of a file.*)
Grows == IsPrefix(store, store') \/ (filePath' # None /\ store' = disk'[Canon[filePath']])

Good == SessionInv' /\ Grows

(* Steps that leave packets and files alone.                               *)
LEMMA TableUntouched ==
  ASSUME SessionInv, DialogInv', UNCHANGED <<store, arrived, modified, originVars, disk>>
  PROVE  Good
  BY Unlisted DEF SessionInv, Good, Grows

LEMMA DrainSteps ==
  ASSUME SessionInv, Drain \/ Leave
  PROVE  Good
<1>1. UNCHANGED <<open, quitAfterSave, disk, originVars>>
  BY DEF Drain, Leave, dialogVars, fileVars
<1>2. Stored' /\ SavedUnlessModified' /\ IsPrefix(store, store') /\ (store # <<>> => store' # <<>>)
  <2>1. CASE live
    BY <1>1, <2>1, ListingKeeps DEF Drain, Leave, SessionInv
  <2>2. CASE ~live
    BY <1>1, <2>2, Unlisted DEF Drain, Leave, SessionInv
  <2> QED
    BY <2>1, <2>2
<1> QED
  BY <1>1, <1>2, DialogKept DEF SessionInv, Good, Grows

LEMMA CaptureSteps ==
  ASSUME SessionInv, KeyStop \/ KeyPicker \/ PickerEnter \/ PickerEsc
  PROVE  Good
<1>1. CASE KeyStop
  <2>1. UNCHANGED <<open, quitAfterSave, disk, originVars>> /\ \E n \in 0..(MaxPackets - arrived) : Listed(n)
    BY <1>1 DEF KeyStop, StopCapture, dialogVars, fileVars
  <2> QED
    BY <2>1, ListingKeeps, DialogKept DEF SessionInv, Good, Grows
<1>2. CASE KeyPicker
  <2>1. open = {} /\ open' = {"picker"} /\ UNCHANGED <<quitAfterSave, store, arrived, modified, originVars, disk>>
    BY <1>2 DEF KeyPicker, NoDialog, storeVars, fileVars
  <2> QED
    BY <2>1, DialogOpened, Dialogs, TableUntouched DEF SessionInv
<1>3. CASE PickerEnter \/ PickerEsc
  <2>1. "picker" \in open /\ open' = open \ {"picker"}
        /\ UNCHANGED <<quitAfterSave, store, arrived, modified, originVars, disk>>
    BY <1>3 DEF PickerEnter, PickerEsc, HasKeys, storeVars, fileVars
  <2> QED
    BY <2>1, DialogClosed, TableUntouched DEF SessionInv
<1> QED
  BY <1>1, <1>2, <1>3

LEMMA SaveSteps ==
  ASSUME SessionInv, KeySave \/ QuickSave \/ SaveEsc \/ \E p \in Path : SaveEnter(p), lastSave \in Path \cup {None}
  PROVE  Good
<1>1. CASE KeySave
  <2>1. open = {} /\ open' = {"save"} /\ UNCHANGED <<quitAfterSave, store, arrived, modified, originVars, disk>>
    BY <1>1 DEF KeySave, NoDialog, ShowSave, storeVars, fileVars
  <2> QED
    BY <2>1, DialogOpened, Dialogs, TableUntouched DEF SessionInv
<1>2. CASE QuickSave
  <2>1. CASE lastSave # None /\ DoSave(lastSave) /\ UNCHANGED open
    <3>1. Stored' /\ SavedUnlessModified' /\ store' = store /\ UNCHANGED <<open, quitAfterSave>>
      BY <1>2, <2>1, SaveStep DEF SessionInv, QuickSave
    <3> QED
      BY <3>1, DialogKept DEF SessionInv, Good, Grows, IsPrefix
  <2>2. CASE lastSave = None /\ ShowSave /\ UNCHANGED <<captureVars, storeVars, fileVars>>
    <3>1. open = {} /\ open' = {"save"} /\ UNCHANGED <<quitAfterSave, store, arrived, modified, originVars, disk>>
      BY <1>2, <2>2 DEF QuickSave, NoDialog, ShowSave, storeVars, fileVars
    <3> QED
      BY <3>1, DialogOpened, Dialogs, TableUntouched DEF SessionInv
  <2> QED
    BY <1>2, <2>1, <2>2 DEF QuickSave
<1>3. CASE SaveEsc
  <2>1. "save" \in open /\ open' = open \ {"save"} /\ quitAfterSave' = FALSE
        /\ UNCHANGED <<store, arrived, modified, originVars, disk>>
    BY <1>3 DEF SaveEsc, HasKeys, storeVars, fileVars
  <2> QED
    BY <2>1, DialogClosed, TableUntouched DEF SessionInv
<1>4. ASSUME NEW p \in Path, SaveEnter(p) PROVE Good
  <2>1. "save" \in open /\ open' = open \ {"save"} /\ quitAfterSave' = FALSE /\ DoSave(p)
    BY <1>4 DEF SaveEnter, HasKeys
  <2>2. Stored' /\ SavedUnlessModified' /\ store' = store
    BY <2>1, SaveStep DEF SessionInv
  <2>3. DialogInv'
    BY <2>1, DialogClosed DEF SessionInv
  <2>4. Grows
    BY <2>2 DEF Grows, IsPrefix
  <2> QED
    BY <2>2, <2>3, <2>4 DEF SessionInv, Good
<1> QED
  BY <1>1, <1>2, <1>3, <1>4

LEMMA QuitSteps ==
  ASSUME SessionInv, QuitNext, lastSave \in Path \cup {None}
  PROVE  Good
<1>1. CASE TryQuit
  <2>1. open = {} /\ open' \in {open, {"quit"}} /\ (open' = {"quit"} => store # <<>>)
        /\ UNCHANGED <<quitAfterSave, store, arrived, modified, originVars, disk>>
    BY <1>1 DEF TryQuit, NoDialog, IsModified, storeVars, fileVars
  <2>2. DialogInv'
    BY <2>1, Dialogs DEF SessionInv, DialogInv, AloneOpen, AskedOverPackets, WishOnlyWhileSaving
  <2> QED
    BY <2>1, <2>2, TableUntouched
<1>2. CASE ForceQuit
  <2>1. UNCHANGED <<open, quitAfterSave, store, arrived, modified, originVars, disk>>
    BY <1>2 DEF ForceQuit, dialogVars, storeVars, fileVars
  <2> QED
    BY <2>1, DialogKept, TableUntouched DEF SessionInv
<1>3. CASE QuitSave
  <2>1. "quit" \in open /\ open = {"quit"} /\ store # <<>> /\ quitAfterSave = FALSE
    <3>1. "quit" \in open /\ open = {"quit"}
      BY <1>3, OnlyOpen DEF QuitSave, HasKeys, SessionInv, DialogInv
    <3> QED
      BY <3>1 DEF SessionInv, DialogInv, AskedOverPackets, WishOnlyWhileSaving
  <2>2. CASE lastSave # None /\ DoSave(lastSave) /\ open' = open \ {"quit"} /\ UNCHANGED quitAfterSave
    <3>1. Stored' /\ SavedUnlessModified' /\ store' = store
      BY <2>2, SaveStep DEF SessionInv
    <3>2. DialogInv'
      BY <2>1, <2>2, DialogClosed DEF SessionInv
    <3> QED
      BY <3>1, <3>2 DEF SessionInv, Good, Grows, IsPrefix
  <2>3. CASE /\ lastSave = None /\ quitAfterSave' = TRUE
             /\ open' = (open \ {"quit"}) \cup (IF store = <<>> THEN {} ELSE {"save"})
             /\ UNCHANGED <<captureVars, storeVars, fileVars>>
    <3>1. open' = {"save"} /\ UNCHANGED <<store, arrived, modified, originVars, disk>>
      BY <2>1, <2>3 DEF storeVars, fileVars
    <3>2. DialogInv'
      BY <3>1, Dialogs DEF DialogInv, AloneOpen, AskedOverPackets, WishOnlyWhileSaving
    <3> QED
      BY <3>1, <3>2, TableUntouched
  <2> QED
    BY <1>3, <2>2, <2>3 DEF QuitSave
<1>4. CASE QuitDiscard \/ QuitCancel
  <2>1. "quit" \in open /\ open' = open \ {"quit"}
        /\ (quitAfterSave' = FALSE \/ UNCHANGED quitAfterSave)
        /\ UNCHANGED <<store, arrived, modified, originVars, disk>>
    BY <1>4 DEF QuitDiscard, QuitCancel, HasKeys, storeVars, fileVars
  <2> QED
    BY <2>1, DialogClosed, TableUntouched DEF SessionInv
<1> QED
  BY <1>1, <1>2, <1>3, <1>4 DEF QuitNext

LEMMA OpenSteps ==
  ASSUME SessionInv, KeyOpen \/ OpenTab \/ OpenMove \/ OpenEsc \/ \E p \in Path : OpenEnter(p)
  PROVE  Good
<1>1. CASE KeyOpen
  <2>1. open = {} /\ open' = {"open"} /\ UNCHANGED <<quitAfterSave, store, arrived, modified, originVars, disk>>
    BY <1>1 DEF KeyOpen, NoDialog, storeVars
  <2> QED
    BY <2>1, DialogOpened, Dialogs, TableUntouched DEF SessionInv
<1>2. CASE OpenTab \/ OpenMove
  <2>1. UNCHANGED <<open, quitAfterSave, store, arrived, modified, originVars, disk>>
    BY <1>2 DEF OpenTab, OpenMove, storeVars, fileVars
  <2> QED
    BY <2>1, DialogKept, TableUntouched DEF SessionInv
<1>3. CASE OpenEsc
  <2>1. "open" \in open /\ open' = open \ {"open"}
        /\ UNCHANGED <<quitAfterSave, store, arrived, modified, originVars, disk>>
    BY <1>3 DEF OpenEsc, HasKeys, storeVars, fileVars
  <2> QED
    BY <2>1, DialogClosed, TableUntouched DEF SessionInv
<1>4. ASSUME NEW p \in Path, OpenEnter(p) PROVE Good
  <2>1. "open" \in open /\ open' = open \ {"open"} /\ UNCHANGED quitAfterSave
    BY <1>4 DEF OpenEnter, HasKeys
  <2>2. DialogInv'
    BY <2>1, DialogClosed DEF SessionInv
  <2>3. CASE Load(p)
    BY <2>2, <2>3, LoadStep, PathAssumption DEF SessionInv, Good, Grows
  <2>4. CASE LoadFailed(p)
    BY <2>2, <2>4, LoadFailedStep DEF SessionInv, Good, Grows
  <2> QED
    BY <1>4, <2>3, <2>4 DEF OpenEnter
<1> QED
  BY <1>1, <1>2, <1>3, <1>4

LEMMA OtherSteps ==
  ASSUME SessionInv, DialogNext
  PROVE  Good
<1>1. CASE KeyExport
  <2>1. open = {} /\ open' = {"export"} /\ UNCHANGED <<quitAfterSave, store, arrived, modified, originVars, disk>>
    BY <1>1 DEF KeyExport, NoDialog, storeVars, fileVars
  <2> QED
    BY <2>1, DialogOpened, Dialogs, TableUntouched DEF SessionInv
<1>2. CASE ExportNext
  <2>1. UNCHANGED <<open, quitAfterSave, store, arrived, modified, originVars, disk>>
    BY <1>2 DEF ExportNext, storeVars, fileVars
  <2> QED
    BY <2>1, DialogKept, TableUntouched DEF SessionInv
<1>3. ASSUME NEW p \in Path, ExportClose(p) PROVE Good
  <2>1. /\ "export" \in open /\ open' = open \ {"export"}
        /\ UNCHANGED <<disk, spoilt>> \/ (Put(p, Garbage) /\ Spoil(p))
        /\ UNCHANGED <<quitAfterSave, store, arrived, modified, origin>>
    BY <1>3 DEF ExportClose, HasKeys, storeVars
  <2>2. Stored' /\ SavedUnlessModified'
    <3>1. CASE UNCHANGED <<disk, spoilt>>
      BY <2>1, <3>1 DEF SessionInv, Stored, SavedUnlessModified
    <3>2. CASE Put(p, Garbage) /\ Spoil(p)
      BY <2>1, <3>2, Spoiling DEF SessionInv
    <3> QED
      BY <2>1, <3>1, <3>2
  <2>3. IsPrefix(store, store')
    BY <2>1 DEF SessionInv, Stored, IsPrefix
  <2> QED
    BY <2>1, <2>2, <2>3, DialogClosed DEF SessionInv, Good, Grows
<1>4. ASSUME NEW d \in Plain \cup AboutPacket, KeyShow(d) PROVE Good
  <2>1. open = {} /\ open' = {d} /\ UNCHANGED <<quitAfterSave, store, arrived, modified, originVars, disk>>
    BY <1>4 DEF KeyShow, NoDialog, storeVars, fileVars
  <2>2. d \in Modal /\ d # "quit"
    BY Dialogs DEF Plain, AboutPacket
  <2> QED
    BY <2>1, <2>2, DialogOpened, TableUntouched DEF SessionInv
<1>5. ASSUME NEW d \in Plain \cup AboutPacket, Hide(d) PROVE Good
  <2>1. d \in open /\ open' = open \ {d} /\ d # "save"
        /\ UNCHANGED <<quitAfterSave, store, arrived, modified, originVars, disk>>
    BY <1>5 DEF Hide, HasKeys, storeVars, fileVars, Plain, AboutPacket
  <2> QED
    BY <2>1, DialogClosed, TableUntouched DEF SessionInv
<1> QED
  BY <1>1, <1>2, <1>3, <1>4, <1>5 DEF DialogNext

(* The path of the last save, which a quick save and the confirmation of   *)
(* quitting use.                                                           *)
LastSaveNamed == lastSave \in Path \cup {None}

LEMMA LastSaveStep == LastSaveNamed /\ [Next]_vars => LastSaveNamed'
<1> SUFFICES ASSUME LastSaveNamed, [Next]_vars PROVE LastSaveNamed'
  OBVIOUS
<1> USE DEF LastSaveNamed
<1>1. ASSUME NEW p \in Path, DoSave(p) PROVE LastSaveNamed'
  BY <1>1 DEF DoSave, SaveDone, SaveFailed
<1>2. CASE Drain \/ Tick \/ Leave \/ Gone \/ UNCHANGED vars
  BY <1>2 DEF Drain, Tick, Leave, Gone, vars, fileVars
<1>3. CASE KeyStop \/ KeyPicker \/ PickerEnter \/ PickerEsc
  BY <1>3 DEF KeyStop, KeyPicker, PickerEnter, PickerEsc, fileVars
<1>4. CASE FileNext
  BY <1>1, <1>4 DEF FileNext, KeySave, QuickSave, SaveEsc, KeyOpen, OpenTab, OpenMove, OpenEsc, SaveEnter,
                    OpenEnter, Load, LoadFailed, fileVars
<1>5. CASE QuitNext
  BY <1>1, <1>5 DEF QuitNext, TryQuit, ForceQuit, QuitSave, QuitDiscard, QuitCancel, fileVars
<1>6. CASE DialogNext
  BY <1>6 DEF DialogNext, KeyExport, ExportNext, ExportClose, KeyShow, Hide, fileVars
<1> QED
  BY <1>2, <1>3, <1>4, <1>5, <1>6 DEF Next

LEMMA SessionStep == SessionInv /\ LastSaveNamed /\ [Next]_vars => Good
<1> SUFFICES ASSUME SessionInv, LastSaveNamed, [Next]_vars PROVE Good
  OBVIOUS
<1>1. CASE Tick \/ Gone \/ UNCHANGED vars
  <2>1. UNCHANGED <<open, quitAfterSave, store, arrived, modified, originVars, disk>>
    BY <1>1 DEF Tick, Gone, vars, dialogVars, storeVars, fileVars
  <2> QED
    BY <2>1, DialogKept, TableUntouched DEF SessionInv
<1>2. CASE Drain \/ Leave
  BY <1>2, DrainSteps
<1>3. CASE FileNext
  BY <1>3, SaveSteps, OpenSteps DEF FileNext, LastSaveNamed
<1>4. CASE QuitNext
  BY <1>4, QuitSteps DEF LastSaveNamed
<1> QED
  BY <1>1, <1>2, <1>3, <1>4, CaptureSteps, OtherSteps DEF Next

LEMMA SessionInvariant == Spec => [](SessionInv /\ LastSaveNamed)
<1>1. Init => SessionInv /\ LastSaveNamed
  BY SessionInitially DEF Init, LastSaveNamed
<1>2. SessionInv /\ LastSaveNamed /\ [Next]_vars => SessionInv' /\ LastSaveNamed'
  BY SessionStep, LastSaveStep DEF Good
<1> QED
  BY <1>1, <1>2, PTL DEF Spec

-----------------------------------------------------------------------------

(* try_quit asks nothing only when the file last loaded or saved to in     *)
(* full still holds exactly the packets on the table, or when there are    *)
(* none, or when a failed save or an export of this program went over that *)
(* file.                                                                   *)
THEOREM KeptUnlessModified == Spec => []UnmodifiedIsKept
<1>1. SessionInv => UnmodifiedIsKept
  BY DEF SessionInv, SavedUnlessModified, UnmodifiedIsKept, IsModified
<1> QED
  BY <1>1, SessionInvariant, PTL

(* handle_key finds at most one dialog to give a key to, and the wish to   *)
(* quit after a save (quit_after_save) does not outlive the save dialog.   *)
THEOREM DialogsInOrder == Spec => []DialogSound
<1>1. SessionInv => OneDialog
  <2> SUFFICES ASSUME AloneOpen PROVE Cardinality(open) <= 1
    BY DEF SessionInv, DialogInv, OneDialog
  <2>1. PICK d \in Modal : open = {} \/ open = {d}
    BY DEF AloneOpen
  <2> QED
    BY <2>1, FS_EmptySet, FS_Singleton
<1>2. SessionInv => DialogSound
  BY <1>1 DEF SessionInv, DialogInv, DialogSound
<1> QED
  BY <1>2, SessionInvariant, PTL

(* Packets on the table make room only for those of a file that was read   *)
(* to its end (do_open_file).                                              *)
THEOREM TableGrows == Spec => OnlyAFileReplaces
<1>1. SessionInv /\ LastSaveNamed /\ [Next]_vars
      => [IsPrefix(store, store') \/ (filePath' # None /\ store' = disk'[Canon[filePath']])]_vars
  BY SessionStep DEF Good, Grows
<1> QED
  BY <1>1, SessionInvariant, PTL DEF Spec, OnlyAFileReplaces

-----------------------------------------------------------------------------
(* The list of recent files.                                               *)

(* Induction over the naturals, for sets of them.                          *)
LEMMA SetInduction ==
  ASSUME NEW S, S \subseteq Nat, 0 \in S, \A n \in S : n + 1 \in S
  PROVE  S = Nat
<1> DEFINE R == OpToRel(<, Nat)
           T == Nat \ S
<1>1. IsWellFoundedOn(R, Nat)
  BY NatLessThanWellFounded
<1>2. \A x, y \in Nat : x < y => <<x, y>> \in R
  BY DEF OpToRel
<1> SUFFICES ASSUME T # {} PROVE FALSE
  OBVIOUS
<1> HIDE DEF R
<1>3. PICK x \in T : \A y \in T : ~ (<<y, x>> \in R)
  <2>1. T \subseteq Nat
    OBVIOUS
  <2> QED
    BY <1>1, <2>1, WFMin, Zenon
<1>4. x - 1 \in Nat /\ x - 1 < x /\ (x - 1) + 1 = x
  BY <1>3
<1>5. x - 1 \notin T
  BY <1>2, <1>3, <1>4
<1> QED
  BY <1>3, <1>4, <1>5

(* What is retained of the first n names, from what is of fewer.           *)
RetainOne(u, list, gone, n) ==
  IF n = 0 THEN <<>>
  ELSE IF list[n] \in gone THEN u[n - 1] ELSE Append(u[n - 1], list[n])

Retains(u, list, gone, k) ==
  u \in [0..k -> Seq(Path)] /\ \A n \in 0..k : u[n] = RetainOne(u, list, gone, n)

LEMMA SomethingRetains ==
  ASSUME NEW list \in Seq(Path), NEW gone
  PROVE  \E u : Retains(u, list, gone, Len(list))
<1> DEFINE Has(k) == \E u : Retains(u, list, gone, k)
           S == {k \in Nat : k <= Len(list) => Has(k)}
<1>1. 0 \in S
  <2> DEFINE u == [n \in 0..0 |-> <<>>]
  <2>1. Retains(u, list, gone, 0)
    BY DEF Retains, RetainOne
  <2> QED
    BY <2>1
<1>2. ASSUME NEW k \in S PROVE k + 1 \in S
  <2>1. k \in Nat /\ k + 1 \in Nat
    OBVIOUS
  <2>2. ASSUME k + 1 <= Len(list) PROVE Has(k + 1)
    <3>1. k <= Len(list) /\ k + 1 \in 1..Len(list)
      BY <2>1, <2>2, LenProperties
    <3>2. PICK u : Retains(u, list, gone, k)
      BY <3>1
    <3>3. u \in [0..k -> Seq(Path)] /\ u[k] \in Seq(Path) /\ \A n \in 0..k : u[n] = RetainOne(u, list, gone, n)
      BY <2>1, <3>2 DEF Retains
    <3> DEFINE last == IF list[k + 1] \in gone THEN u[k] ELSE Append(u[k], list[k + 1])
               v == [n \in 0..(k + 1) |-> IF n = k + 1 THEN last ELSE u[n]]
    <3>4. last \in Seq(Path)
      <4>1. list[k + 1] \in Path
        BY <3>1, ElementOfSeq
      <4> QED
        BY <3>3, <4>1, AppendProperties
    <3> HIDE DEF last
    <3>5. v \in [0..(k + 1) -> Seq(Path)]
      <4>1. \A n \in 0..(k + 1) : n # k + 1 => n \in 0..k
        BY <2>1
      <4> QED
        BY <3>3, <3>4, <4>1
    <3>6. v[k + 1] = last /\ \A n \in 0..k : v[n] = u[n]
      BY <2>1
    <3> HIDE DEF v
    <3>7. ASSUME NEW n \in 0..(k + 1) PROVE v[n] = RetainOne(v, list, gone, n)
      <4>1. CASE n = k + 1
        <5>1. n # 0 /\ n - 1 = k /\ k \in 0..k
          BY <2>1, <4>1
        <5> QED
          BY <3>6, <4>1, <5>1 DEF RetainOne, last
      <4>2. CASE n # k + 1
        <5>1. n \in 0..k /\ (n = 0 \/ n - 1 \in 0..k)
          BY <2>1, <4>2
        <5> QED
          BY <3>3, <3>6, <5>1 DEF RetainOne
      <4> QED
        BY <4>1, <4>2
    <3>8. Retains(v, list, gone, k + 1)
      BY <3>5, <3>7 DEF Retains
    <3> QED
      BY <3>8
  <2> HIDE DEF Has
  <2> QED
    BY <2>1, <2>2
<1>3. S \subseteq Nat
  OBVIOUS
<1> HIDE DEF S
<1>4. S = Nat
  BY <1>1, <1>2, <1>3, SetInduction
<1>5. Len(list) \in S /\ Len(list) <= Len(list)
  BY <1>4, LenProperties
<1> QED
  BY <1>5 DEF S

(* A list without repetitions, of the first n names of another at most.    *)
Partly(out, list, gone, n) ==
  /\ out \in Seq(Path) /\ IsInjective(out)
  /\ \A i \in 1..Len(out) : \E j \in 1..n : out[i] = list[j] /\ out[i] \notin gone

LEMMA RetainedOnce ==
  ASSUME NEW list \in Seq(Path), IsInjective(list), NEW gone
  PROVE  Partly(Retained(list, gone), list, gone, Len(list))
<1> DEFINE w == CHOOSE u : u = [n \in 0..Len(list) |-> RetainOne(u, list, gone, n)]
<1>1. Len(list) \in Nat /\ DOMAIN list = 1..Len(list)
  BY LenProperties
<1>2. PICK u : Retains(u, list, gone, Len(list))
  BY SomethingRetains
<1>3. w = [n \in 0..Len(list) |-> RetainOne(w, list, gone, n)]
  <2>1. u = [n \in 0..Len(list) |-> RetainOne(u, list, gone, n)]
    BY <1>2 DEF Retains
  <2> QED
    BY <2>1
<1>4. Retained(list, gone) = w[Len(list)]
  BY DEF Retained, RetainOne
<1> HIDE DEF w
<1> DEFINE S == {n \in Nat : n <= Len(list) => Partly(w[n], list, gone, n)}
<1>5. 0 \in S
  <2>1. w[0] = <<>>
    BY <1>1, <1>3 DEF RetainOne
  <2>2. Partly(<<>>, list, gone, 0)
    <3>1. <<>> \in Seq(Path) /\ Len(<<>>) = 0 /\ DOMAIN <<>> = {}
      BY EmptySeq
    <3> QED
      BY <3>1 DEF Partly, IsInjective
  <2> QED
    BY <2>1, <2>2
<1>6. ASSUME NEW n \in S PROVE n + 1 \in S
  <2>1. n \in Nat /\ n + 1 \in Nat
    OBVIOUS
  <2>2. ASSUME n + 1 <= Len(list) PROVE Partly(w[n + 1], list, gone, n + 1)
    <3>1. /\ n + 1 \in 1..Len(list) /\ n + 1 \in 0..Len(list) /\ n <= Len(list)
          /\ (n + 1) - 1 = n /\ n + 1 # 0 /\ n + 1 \in 1..(n + 1)
          /\ \A j \in 1..n : j \in 1..(n + 1) /\ j # n + 1 /\ j \in 1..Len(list)
      BY <1>1, <2>1, <2>2
    <3>2. Partly(w[n], list, gone, n)
      BY <3>1
    <3>3. w[n + 1] = RetainOne(w, list, gone, n + 1)
      BY <1>3, <3>1
    <3>4. w[n + 1] = IF list[n + 1] \in gone THEN w[n] ELSE Append(w[n], list[n + 1])
      BY <3>1, <3>3 DEF RetainOne
    <3>5. CASE list[n + 1] \in gone
      BY <3>1, <3>2, <3>4, <3>5 DEF Partly
    <3>6. CASE list[n + 1] \notin gone
      <4> DEFINE o == w[n]  x == list[n + 1]
      <4>1. x \in Path
        BY <3>1, ElementOfSeq
      <4>2. o \in Seq(Path) /\ Len(o) \in Nat /\ DOMAIN o = 1..Len(o)
        BY <3>2, LenProperties DEF Partly
      <4>3. /\ Append(o, x) \in Seq(Path) /\ Len(Append(o, x)) = Len(o) + 1
            /\ \A i \in 1..Len(o) : Append(o, x)[i] = o[i]
            /\ Append(o, x)[Len(o) + 1] = x
        BY <4>1, <4>2, AppendProperties
      <4>4. DOMAIN Append(o, x) = 1..(Len(o) + 1)
        BY <4>3, LenProperties
      <4>5. \A i \in 1..Len(o) : o[i] # x
        <5>1. \A j \in 1..n : list[j] # list[n + 1]
          BY <1>1, <3>1 DEF IsInjective
        <5> QED
          BY <3>2, <5>1 DEF Partly
      <4>6. \A i, j \in 1..Len(o) : o[i] = o[j] => i = j
        BY <3>2, <4>2 DEF Partly, IsInjective
      <4>7. \A i \in 1..Len(o) : \E j \in 1..n : o[i] = list[j] /\ o[i] \notin gone
        BY <3>2 DEF Partly
      <4>8. w[n + 1] = Append(o, x) /\ x \notin gone /\ x = list[n + 1]
        BY <3>4, <3>6
      <4> HIDE DEF o, x
      <4>9. IsInjective(Append(o, x))
        BY <4>2, <4>3, <4>4, <4>5, <4>6 DEF IsInjective
      <4>10. \A i \in 1..(Len(o) + 1) : \E j \in 1..(n + 1) : Append(o, x)[i] = list[j] /\ Append(o, x)[i] \notin gone
        <5>1. ASSUME NEW i \in 1..(Len(o) + 1)
              PROVE  \E j \in 1..(n + 1) : Append(o, x)[i] = list[j] /\ Append(o, x)[i] \notin gone
          <6>1. CASE i \in 1..Len(o)
            BY <3>1, <4>3, <4>7, <6>1
          <6>2. CASE i = Len(o) + 1
            BY <3>1, <4>3, <4>8, <6>2
          <6> QED
            BY <4>2, <6>1, <6>2
        <5> QED
          BY <5>1
      <4> QED
        BY <4>3, <4>8, <4>9, <4>10 DEF Partly
    <3> QED
      BY <3>5, <3>6
  <2> QED
    BY <2>1, <2>2
<1>7. S \subseteq Nat
  OBVIOUS
<1> HIDE DEF S
<1>8. S = Nat
  BY <1>5, <1>6, <1>7, SetInduction
<1>9. Len(list) \in S /\ Len(list) <= Len(list)
  BY <1>1, <1>8
<1> QED
  BY <1>4, <1>9 DEF S

Once(list) == list \in Seq(Path) /\ IsInjective(list)

(* RecentFiles::add keeps a list without repetitions.                      *)
LEMMA WithRecentOnce ==
  ASSUME Once(recent), NEW p \in Path
  PROVE  Once(WithRecent(p))
<1> DEFINE c == Canon[p]
           others == Retained(recent, {c, p})
           all == <<c>> \o others
           k == IF Len(all) < MaxRecent THEN Len(all) ELSE MaxRecent
<1>1. c \in Path
  BY PathAssumption
<1>2. Partly(others, recent, {c, p}, Len(recent))
  BY RetainedOnce DEF Once
<1> HIDE DEF others
<1>3. others \in Seq(Path) /\ Len(others) \in Nat /\ DOMAIN others = 1..Len(others) /\ IsInjective(others)
      /\ \A i \in 1..Len(others) : others[i] # c
  BY <1>2, LenProperties DEF Partly
<1>4. WithRecent(p) = SubSeq(all, 1, k)
  BY DEF WithRecent, others
<1>5. <<c>> \in Seq(Path) /\ Len(<<c>>) = 1 /\ <<c>>[1] = c
  BY <1>1
<1> HIDE DEF c
<1>6. /\ all \in Seq(Path) /\ Len(all) = 1 + Len(others)
      /\ \A i \in 1..(1 + Len(others)) : all[i] = IF i <= 1 THEN <<c>>[i] ELSE others[i - 1]
  BY <1>3, <1>5, ConcatProperties
<1> HIDE DEF all
<1>7. all[1] = c /\ \A i \in 2..(1 + Len(others)) : all[i] = others[i - 1] /\ i - 1 \in 1..Len(others)
  BY <1>3, <1>5, <1>6
<1>8. \A i, j \in 1..Len(all) : all[i] = all[j] => i = j
  <2> SUFFICES ASSUME NEW i \in 1..Len(all), NEW j \in 1..Len(all), all[i] = all[j] PROVE i = j
    OBVIOUS
  <2>1. (i = 1 \/ i \in 2..(1 + Len(others))) /\ (j = 1 \/ j \in 2..(1 + Len(others)))
    BY <1>3, <1>6
  <2>2. CASE i = 1 /\ j \in 2..(1 + Len(others))
    BY <1>3, <1>7, <2>2
  <2>3. CASE j = 1 /\ i \in 2..(1 + Len(others))
    BY <1>3, <1>7, <2>3
  <2>4. CASE i \in 2..(1 + Len(others)) /\ j \in 2..(1 + Len(others))
    <3>1. others[i - 1] = others[j - 1] /\ i - 1 \in 1..Len(others) /\ j - 1 \in 1..Len(others)
      BY <1>7, <2>4
    <3>2. i - 1 = j - 1
      BY <1>3, <3>1 DEF IsInjective
    <3> QED
      BY <3>2
  <2> QED
    BY <2>1, <2>2, <2>3, <2>4
<1>9. k \in 0..Len(all) /\ Len(all) \in Nat
  BY <1>3, <1>6, RecentAssumption
<1> HIDE DEF k
<1>10. \A i \in 1..k : i \in 1..Len(all) /\ all[i] \in Path
  BY <1>6, <1>9, LenProperties
<1>11. /\ SubSeq(all, 1, k) \in Seq(Path) /\ Len(SubSeq(all, 1, k)) = k
       /\ \A i \in 1..k : SubSeq(all, 1, k)[i] = all[i]
  BY <1>9, <1>10, SubSeqProperties
<1>12. DOMAIN SubSeq(all, 1, k) = 1..k
  BY <1>11, LenProperties
<1>13. IsInjective(SubSeq(all, 1, k))
  BY <1>8, <1>10, <1>11, <1>12 DEF IsInjective
<1> QED
  BY <1>4, <1>11, <1>13 DEF Once

-----------------------------------------------------------------------------
(* The dialogs' modes, and the highlighted line of the recent files.       *)

Modes ==
  /\ phase \in {"drain", "key", "leaving", "gone"}
  /\ ending \in {"", "clean", "saved", "discarded", "forced", "picker"}
  /\ quitAfterSave \in BOOLEAN /\ modified \in BOOLEAN
  /\ exportStep \in {"FormatSelect", "FilenameInput"}
  /\ capture \in {"Idle", "Capturing", "Stopped"} /\ live \in BOOLEAN
  /\ arrived \in 0..MaxPackets
  /\ filePath \in Path \cup {None} /\ home \subseteq Path

(* Whatever the mode: Tab may be pressed next.                             *)
LineExists ==
  "open" \in open =>
    /\ recent # <<>> => openSelected < Len(recent)
    /\ openMode = "RecentList" => recent # <<>>

RecentInv ==
  /\ Once(recent) /\ Once(recentOnDisk)
  /\ openMode \in {"TextInput", "RecentList"} /\ openSelected \in Nat
  /\ LineExists

(* What a step may do to the list and its line.                            *)
Unopened == "open" \in open' => "open" \in open

ListKept == UNCHANGED <<recent, recentOnDisk, openMode, openSelected>> /\ Unopened
ListAdded(p) == AddRecent(p) /\ UNCHANGED <<openMode, openSelected>> /\ "open" \notin open'

RecentMoves ==
  ListKept \/ (\E p \in Path : ListAdded(p)) \/ KeyOpen \/ OpenTab \/ OpenMove

LEMMA MovesKeepRecent ==
  ASSUME RecentInv, RecentMoves
  PROVE  RecentInv'
<1>1. CASE ListKept
  BY <1>1 DEF ListKept, Unopened, RecentInv, Once, LineExists
<1>2. ASSUME NEW p \in Path, ListAdded(p) PROVE RecentInv'
  <2>1. recent' = WithRecent(p) /\ recentOnDisk' \in {recent', recentOnDisk, <<>>}
    BY <1>2 DEF ListAdded, AddRecent
  <2>2. Once(WithRecent(p))
    BY WithRecentOnce DEF RecentInv
  <2>3. Once(<<>>)
    BY EmptySeq DEF Once, IsInjective
  <2>4. Once(recent') /\ Once(recentOnDisk')
    BY <2>1, <2>2, <2>3 DEF RecentInv
  <2> QED
    BY <1>2, <2>4 DEF ListAdded, RecentInv, Once, LineExists
<1>3. CASE KeyOpen
  <2>1. /\ recent' = recentOnDisk /\ recentOnDisk' = recentOnDisk /\ openSelected' = 0
        /\ openMode' = IF recent' = <<>> THEN "TextInput" ELSE "RecentList"
    BY <1>3 DEF KeyOpen
  <2>2. recent' # <<>> => 0 < Len(recent')
    BY <2>1, EmptySeq DEF RecentInv, Once
  <2> QED
    BY <2>1, <2>2 DEF RecentInv, Once, LineExists
<1>4. CASE OpenTab
  <2>1. /\ recent # <<>> /\ UNCHANGED <<recent, recentOnDisk, openSelected, open>>
        /\ openMode' = IF openMode = "TextInput" THEN "RecentList" ELSE "TextInput"
    BY <1>4 DEF OpenTab, fileVars
  <2> QED
    BY <2>1 DEF RecentInv, Once, LineExists
<1>5. CASE OpenMove
  <2>1. /\ recent # <<>> /\ UNCHANGED <<recent, recentOnDisk, openMode, open>> /\ "open" \in open
        /\ openSelected' \in {IF openSelected < Len(recent) - 1 THEN openSelected + 1 ELSE openSelected,
                              IF openSelected > 0 THEN openSelected - 1 ELSE 0,
                              0, Len(recent) - 1}
    BY <1>5 DEF OpenMove, HasKeys, fileVars
  <2>2. openSelected \in Nat /\ openSelected < Len(recent) /\ Len(recent) \in Nat
    BY <2>1, LenProperties DEF RecentInv, Once, LineExists
  <2>3. openSelected' \in Nat /\ openSelected' < Len(recent)
    BY <2>1, <2>2
  <2> QED
    BY <2>1, <2>3 DEF RecentInv, Once, LineExists
<1> QED
  BY <1>1, <1>2, <1>3, <1>4, <1>5 DEF RecentMoves

LEMMA SaveMoves ==
  ASSUME NEW p \in Path, DoSave(p), UNCHANGED <<openMode, openSelected>>, "open" \notin open'
  PROVE  RecentMoves
<1>1. CASE SaveDone(p)
  <2>1. ListAdded(p)
    BY <1>1 DEF SaveDone, ListAdded
  <2> QED
    BY <2>1 DEF RecentMoves
<1>2. CASE SaveFailed(p)
  BY <1>2 DEF SaveFailed, RecentMoves, ListKept, Unopened
<1> QED
  BY <1>1, <1>2 DEF DoSave

LEMMA NextMoves ==
  ASSUME SessionInv, LastSaveNamed, [Next]_vars
  PROVE  RecentMoves
<1>0. ListKept => RecentMoves
  BY DEF RecentMoves
<1>1. ASSUME Tick \/ Drain \/ Leave \/ Gone \/ KeyStop \/ ForceQuit \/ UNCHANGED vars PROVE ListKept
  BY <1>1 DEF Tick, Drain, Leave, Gone, KeyStop, ForceQuit, vars, dialogVars, fileVars, ListKept, Unopened
<1>2. ASSUME KeyPicker \/ PickerEnter \/ PickerEsc PROVE ListKept
  BY <1>2 DEF KeyPicker, PickerEnter, PickerEsc, fileVars, ListKept, Unopened
<1>3. ASSUME KeySave \/ SaveEsc PROVE ListKept
  BY <1>3 DEF KeySave, ShowSave, SaveEsc, fileVars, ListKept, Unopened
<1>4. CASE QuickSave
  <2>1. open = {} /\ UNCHANGED <<openMode, openSelected>>
    BY <1>4 DEF QuickSave, NoDialog
  <2>2. CASE lastSave # None /\ DoSave(lastSave) /\ UNCHANGED open
    BY <2>1, <2>2, SaveMoves DEF LastSaveNamed
  <2>3. CASE lastSave = None /\ ShowSave /\ UNCHANGED <<captureVars, storeVars, fileVars>>
    BY <1>0, <2>1, <2>3 DEF ShowSave, fileVars, ListKept, Unopened
  <2> QED
    BY <1>4, <2>2, <2>3 DEF QuickSave
<1>5. ASSUME NEW p \in Path, SaveEnter(p) PROVE RecentMoves
  <2>1. "save" \in open /\ open' = open \ {"save"} /\ DoSave(p) /\ UNCHANGED <<openMode, openSelected>>
    BY <1>5 DEF SaveEnter, HasKeys
  <2>2. open = {"save"}
    BY <2>1, OnlyOpen DEF SessionInv, DialogInv
  <2> QED
    BY <2>1, <2>2, SaveMoves
<1>6. CASE KeyOpen \/ OpenTab \/ OpenMove
  BY <1>6 DEF RecentMoves
<1>7. ASSUME OpenEsc PROVE ListKept
  BY <1>7 DEF OpenEsc, fileVars, ListKept, Unopened
<1>8. ASSUME NEW p \in Path, OpenEnter(p) PROVE RecentMoves
  <2>1. open' = open \ {"open"} /\ UNCHANGED <<openMode, openSelected>>
    BY <1>8 DEF OpenEnter
  <2>2. CASE Load(p)
    <3>1. ListAdded(p)
      BY <2>1, <2>2 DEF Load, ListAdded
    <3> QED
      BY <3>1 DEF RecentMoves
  <2>3. CASE LoadFailed(p)
    BY <1>0, <2>1, <2>3 DEF LoadFailed, fileVars, ListKept, Unopened
  <2> QED
    BY <1>8, <2>2, <2>3 DEF OpenEnter
<1>9. ASSUME TryQuit \/ QuitDiscard \/ QuitCancel PROVE ListKept
  BY <1>9 DEF TryQuit, QuitDiscard, QuitCancel, fileVars, ListKept, Unopened
<1>10. CASE QuitSave
  <2>1. "quit" \in open /\ UNCHANGED <<openMode, openSelected>>
    BY <1>10 DEF QuitSave, HasKeys
  <2>2. open = {"quit"}
    BY <2>1, OnlyOpen DEF SessionInv, DialogInv
  <2>3. CASE lastSave # None /\ DoSave(lastSave) /\ open' = open \ {"quit"}
    BY <2>1, <2>2, <2>3, SaveMoves DEF LastSaveNamed
  <2>4. CASE open' = (open \ {"quit"}) \cup (IF store = <<>> THEN {} ELSE {"save"})
             /\ UNCHANGED <<captureVars, storeVars, fileVars>>
    BY <1>0, <2>1, <2>2, <2>4 DEF fileVars, ListKept, Unopened
  <2> QED
    BY <1>10, <2>3, <2>4 DEF QuitSave
<1>11. ASSUME KeyExport \/ ExportNext \/ \E p \in Path : ExportClose(p) PROVE ListKept
  BY <1>11 DEF KeyExport, ExportNext, ExportClose, fileVars, ListKept, Unopened
<1>12. ASSUME NEW d \in Plain \cup AboutPacket, KeyShow(d) \/ Hide(d) PROVE ListKept
  BY <1>12 DEF KeyShow, Hide, Plain, AboutPacket, fileVars, ListKept, Unopened
<1> QED
  BY <1>0, <1>1, <1>2, <1>3, <1>4, <1>5, <1>6, <1>7, <1>8, <1>9, <1>10, <1>11, <1>12
  DEF Next, FileNext, QuitNext, DialogNext

(* The modes, action by action.                                            *)

ModesKept ==
  UNCHANGED <<exportStep, quitAfterSave, capture, live, arrived, modified, filePath, home>>

KeyPhase == phase' \in {"drain", "leaving"}
            /\ ending' \in {"", "clean", "saved", "discarded", "forced", "picker"}

LEMMA ListingModes ==
  ASSUME Modes, \E n \in 0..(MaxPackets - arrived) : Listed(n)
  PROVE  arrived' \in 0..MaxPackets /\ modified' \in BOOLEAN
<1>1. PICK n \in 0..(MaxPackets - arrived) : Listed(n)
  OBVIOUS
<1>2. arrived' \in 0..MaxPackets
  <2>1. arrived' = arrived + n /\ arrived + n <= MaxPackets
    BY <1>1 DEF Listed
  <2>2. arrived \in 0..MaxPackets
    BY DEF Modes
  <2>3. n \in 0..(MaxPackets - arrived)
    BY <1>1
  <2> HIDE DEF Modes
  <2> QED
    BY <2>1, <2>2, <2>3, BoundAssumption
<1>3. modified' \in BOOLEAN
  BY <1>1 DEF Listed, Modes
<1> QED
  BY <1>2, <1>3

LEMMA SavedModes ==
  ASSUME Modes, NEW p \in Path, DoSave(p)
  PROVE  UNCHANGED <<arrived, filePath, capture, live>> /\ modified' \in BOOLEAN /\ home' \subseteq Path
<1>1. CASE SaveDone(p)
  BY <1>1 DEF DoSave, SaveDone, MarkSaved, captureVars, Modes
<1>2. CASE SaveFailed(p)
  BY <1>2 DEF DoSave, SaveFailed, captureVars, Modes
<1> QED
  BY <1>1, <1>2 DEF DoSave

LEMMA LoadedModes ==
  ASSUME Modes, NEW p \in Path, Load(p) \/ LoadFailed(p)
  PROVE  /\ capture' \in {"Idle", "Capturing", "Stopped"} /\ live' \in BOOLEAN
         /\ arrived' \in 0..MaxPackets /\ modified' \in BOOLEAN
         /\ filePath' \in Path \cup {None} /\ home' \subseteq Path
<1>1. CASE Load(p)
  <2>1. arrived' \in 0..MaxPackets
    <3>1. arrived \in 0..MaxPackets /\ arrived' \in arrived..(IF capture = "Capturing" THEN MaxPackets ELSE arrived)
      BY <1>1 DEF Load, Modes
    <3> QED
      BY <3>1, BoundAssumption
  <2> QED
    BY <1>1, <2>1 DEF Load, Modes
<1>2. CASE LoadFailed(p)
  <2>1. UNCHANGED <<filePath, home>>
    BY <1>2 DEF LoadFailed, fileVars
  <2>2. CASE capture = "Capturing"
    BY <1>2, <2>1, <2>2, ListingModes DEF LoadFailed, StopCapture, Modes
  <2>3. CASE capture # "Capturing"
    BY <1>2, <2>1, <2>3 DEF LoadFailed, captureVars, Modes
  <2> QED
    BY <2>2, <2>3
<1> QED
  BY <1>1, <1>2

LEMMA ModesStep ==
  ASSUME Modes, LastSaveNamed, [Next]_vars
  PROVE  Modes'
<1>0. ASSUME KeyPhase, ModesKept PROVE Modes'
  BY <1>0 DEF KeyPhase, ModesKept, Modes
<1>1. ASSUME NEW why \in {"", "clean", "saved", "discarded", "forced", "picker"}, KeyStep(why) PROVE KeyPhase
  BY <1>1 DEF KeyStep, KeyPhase
<1>2. CASE Drain \/ Leave
  <2>1. phase' \in {"key", "gone"} /\ UNCHANGED <<ending, quitAfterSave, exportStep, filePath, home>>
    BY <1>2 DEF Drain, Leave, dialogVars, fileVars
  <2>2. arrived' \in 0..MaxPackets /\ modified' \in BOOLEAN
    BY <1>2, ListingModes DEF Drain, Leave, Modes
  <2>3. capture' \in {"Idle", "Capturing", "Stopped"} /\ live' \in BOOLEAN
    BY <1>2 DEF Drain, Leave, Modes
  <2> QED
    BY <2>1, <2>2, <2>3 DEF Modes
<1>3. CASE Gone \/ UNCHANGED vars
  BY <1>3 DEF Gone, vars, dialogVars, captureVars, storeVars, fileVars, Modes
<1>4. CASE Tick \/ ForceQuit
  BY <1>0, <1>1, <1>4 DEF Tick, ForceQuit, dialogVars, captureVars, storeVars, fileVars, ModesKept
<1>5. CASE KeyStop
  <2>1. arrived' \in 0..MaxPackets /\ modified' \in BOOLEAN /\ capture' = "Stopped" /\ live' = FALSE
    BY <1>5, ListingModes DEF KeyStop, StopCapture
  <2>2. KeyPhase /\ UNCHANGED <<quitAfterSave, exportStep, filePath, home>>
    BY <1>1, <1>5 DEF KeyStop, dialogVars, fileVars
  <2> QED
    BY <2>1, <2>2 DEF KeyPhase, Modes
<1>6. CASE PickerEnter
  <2>1. capture' \in {"Idle", "Capturing", "Stopped"} /\ live' \in BOOLEAN
    BY <1>6 DEF PickerEnter, captureVars, Modes
  <2>2. KeyPhase /\ UNCHANGED <<quitAfterSave, exportStep, filePath, home, arrived, modified>>
    BY <1>1, <1>6 DEF PickerEnter, storeVars, fileVars
  <2> QED
    BY <2>1, <2>2 DEF KeyPhase, Modes
<1>7. CASE KeyPicker \/ PickerEsc
  <2>1. KeyPhase
    BY <1>1, <1>7 DEF KeyPicker, PickerEsc
  <2> QED
    BY <1>0, <1>7, <2>1 DEF KeyPicker, PickerEsc, captureVars, storeVars, fileVars, ModesKept
<1>8. CASE KeySave
  BY <1>0, <1>1, <1>8 DEF KeySave, captureVars, storeVars, fileVars, ModesKept
<1>9. CASE QuickSave
  <2>1. KeyPhase /\ UNCHANGED <<quitAfterSave, exportStep>>
    BY <1>1, <1>9 DEF QuickSave
  <2>2. CASE lastSave # None /\ DoSave(lastSave)
    <3>1. UNCHANGED <<arrived, filePath, capture, live>> /\ modified' \in BOOLEAN /\ home' \subseteq Path
      BY <2>2, SavedModes DEF LastSaveNamed
    <3> QED
      BY <2>1, <3>1 DEF KeyPhase, Modes
  <2>3. CASE UNCHANGED <<captureVars, storeVars, fileVars>>
    BY <1>0, <2>1, <2>3 DEF captureVars, storeVars, fileVars, ModesKept
  <2> QED
    BY <1>9, <2>2, <2>3 DEF QuickSave
<1>10. ASSUME NEW p \in Path, SaveEnter(p) PROVE Modes'
  <2>1. KeyPhase /\ quitAfterSave' = FALSE /\ exportStep' = exportStep
    BY <1>1, <1>10 DEF SaveEnter
  <2>2. UNCHANGED <<arrived, filePath, capture, live>> /\ modified' \in BOOLEAN /\ home' \subseteq Path
    BY <1>10, SavedModes DEF SaveEnter
  <2> QED
    BY <2>1, <2>2 DEF KeyPhase, Modes
<1>11. CASE SaveEsc \/ QuitCancel
  <2>1. KeyPhase /\ quitAfterSave' = FALSE /\ UNCHANGED <<exportStep, captureVars, storeVars, fileVars>>
    BY <1>1, <1>11 DEF SaveEsc, QuitCancel
  <2> QED
    BY <2>1 DEF captureVars, storeVars, fileVars, KeyPhase, Modes
<1>12. CASE TryQuit \/ QuitDiscard
  <2>1. KeyPhase
    BY <1>1, <1>12 DEF TryQuit, QuitDiscard
  <2> QED
    BY <1>0, <1>12, <2>1 DEF TryQuit, QuitDiscard, captureVars, storeVars, fileVars, ModesKept
<1>13. CASE QuitSave
  <2>1. KeyPhase /\ exportStep' = exportStep
    BY <1>1, <1>13 DEF QuitSave
  <2>2. CASE lastSave # None /\ DoSave(lastSave) /\ UNCHANGED quitAfterSave
    <3>1. UNCHANGED <<arrived, filePath, capture, live>> /\ modified' \in BOOLEAN /\ home' \subseteq Path
      BY <2>2, SavedModes DEF LastSaveNamed
    <3> QED
      BY <2>1, <2>2, <3>1 DEF KeyPhase, Modes
  <2>3. CASE quitAfterSave' = TRUE /\ UNCHANGED <<captureVars, storeVars, fileVars>>
    BY <2>1, <2>3 DEF captureVars, storeVars, fileVars, KeyPhase, Modes
  <2> QED
    BY <1>13, <2>2, <2>3 DEF QuitSave
<1>14. CASE KeyOpen
  BY <1>0, <1>1, <1>14 DEF KeyOpen, captureVars, storeVars, ModesKept
<1>15. CASE OpenTab \/ OpenMove \/ OpenEsc
  <2>1. KeyPhase
    BY <1>1, <1>15 DEF OpenTab, OpenMove, OpenEsc
  <2> QED
    BY <1>0, <1>15, <2>1 DEF OpenTab, OpenMove, OpenEsc, captureVars, storeVars, fileVars, ModesKept
<1>16. ASSUME NEW p \in Path, OpenEnter(p) PROVE Modes'
  <2>1. KeyPhase /\ UNCHANGED <<quitAfterSave, exportStep>>
    BY <1>1, <1>16 DEF OpenEnter
  <2>2. Load(p) \/ LoadFailed(p)
    BY <1>16 DEF OpenEnter
  <2>3. /\ capture' \in {"Idle", "Capturing", "Stopped"} /\ live' \in BOOLEAN
        /\ arrived' \in 0..MaxPackets /\ modified' \in BOOLEAN
        /\ filePath' \in Path \cup {None} /\ home' \subseteq Path
    BY <2>2, LoadedModes
  <2> QED
    BY <2>1, <2>3 DEF KeyPhase, Modes
<1>17. CASE KeyExport \/ ExportNext
  <2>1. KeyPhase /\ exportStep' \in {"FormatSelect", "FilenameInput"}
        /\ UNCHANGED <<quitAfterSave, captureVars, storeVars, fileVars>>
    BY <1>1, <1>17 DEF KeyExport, ExportNext
  <2> QED
    BY <2>1 DEF captureVars, storeVars, fileVars, KeyPhase, Modes
<1>18. CASE \E p \in Path : ExportClose(p)
  BY <1>0, <1>1, <1>18 DEF ExportClose, captureVars, storeVars, ModesKept
<1>19. ASSUME NEW d \in Plain \cup AboutPacket, KeyShow(d) \/ Hide(d) PROVE Modes'
  <2>1. KeyPhase
    BY <1>1, <1>19 DEF KeyShow, Hide
  <2> QED
    BY <1>0, <1>19, <2>1 DEF KeyShow, Hide, captureVars, storeVars, fileVars, ModesKept
<1> QED
  BY <1>2, <1>3, <1>4, <1>5, <1>6, <1>7, <1>8, <1>9, <1>10, <1>11, <1>12, <1>13, <1>14, <1>15, <1>16,
     <1>17, <1>18, <1>19 DEF Next, FileNext, QuitNext, DialogNext

LEMMA RecentInitially == Init => Modes /\ RecentInv
<1> SUFFICES ASSUME Init PROVE Modes /\ RecentInv
  OBVIOUS
<1>1. Once(<<>>)
  BY EmptySeq DEF Once, IsInjective
<1>2. \A p \in Path : Once(<<Canon[p]>>)
  BY PathAssumption DEF Once, IsInjective
<1>3. "open" \notin open
  <2>1. open \in {{}, {"picker"}}
    BY Zenon DEF Init
  <2> QED
    BY <2>1
<1>4. Once(recent) /\ Once(recentOnDisk)
  BY <1>1, <1>2 DEF Init
<1>5. RecentInv
  BY <1>3, <1>4 DEF Init, RecentInv, LineExists
<1>6. Modes
  <2>1. arrived \in 0..MaxPackets
    <3>1. arrived = 0
      BY Zenon DEF Init
    <3> QED
      BY <3>1, BoundAssumption
  <2>2. capture \in {"Idle", "Capturing", "Stopped"} /\ live \in BOOLEAN
    BY DEF Init
  <2>3. filePath \in Path \cup {None} /\ home \subseteq Path
    BY DEF Init
  <2>4. /\ phase \in {"drain", "key", "leaving", "gone"}
        /\ ending \in {"", "clean", "saved", "discarded", "forced", "picker"}
        /\ quitAfterSave \in BOOLEAN /\ modified \in BOOLEAN
        /\ exportStep \in {"FormatSelect", "FilenameInput"}
    BY DEF Init
  <2> QED
    BY <2>1, <2>2, <2>3, <2>4 DEF Modes
<1> QED
  BY <1>5, <1>6

(* RecentFiles::add lists a file once whatever name it was opened under,   *)
(* in memory and in recent.json, and the line that Enter would open is one *)
(* of the list although add, open_open_dialog and Tab change both.         *)
THEOREM RecentFilesInOrder == Spec => []RecentSound
<1>1. Init => SessionInv /\ LastSaveNamed /\ Modes /\ RecentInv
  BY SessionInitially, RecentInitially DEF Init, LastSaveNamed
<1>2. SessionInv /\ LastSaveNamed /\ Modes /\ RecentInv /\ [Next]_vars
      => SessionInv' /\ LastSaveNamed' /\ Modes' /\ RecentInv'
  BY SessionStep, LastSaveStep, ModesStep, NextMoves, MovesKeepRecent DEF Good
<1>3. SessionInv /\ LastSaveNamed /\ Modes /\ RecentInv => RecentSound
  <2> SUFFICES ASSUME SessionInv, LastSaveNamed, Modes, RecentInv PROVE RecentSound
    OBVIOUS
  <2>1. open \subseteq Modal
    BY DEF SessionInv, DialogInv, AloneOpen
  <2>2. DOMAIN disk = Path /\ origin \in Path \cup {None} /\ spoilt \in BOOLEAN
    BY DEF SessionInv, Stored, SavedUnlessModified
  <2>3. TypeOK
    BY <2>1, <2>2 DEF LastSaveNamed, Modes, RecentInv, Once, TypeOK
  <2>4. RecentOnce
    BY DEF RecentInv, Once, RecentOnce
  <2>5. RecentLineExists
    <3>1. Len(recent) \in Nat
      BY LenProperties DEF RecentInv, Once
    <3> QED
      BY <3>1 DEF RecentInv, LineExists, RecentLineExists
  <2> QED
    BY <2>3, <2>4, <2>5 DEF RecentSound
<1> QED
  BY <1>1, <1>2, <1>3, PTL DEF Spec

=============================================================================
