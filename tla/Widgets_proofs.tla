--------------------------- MODULE Widgets_proofs ---------------------------
(***************************************************************************)
(* Proofs about the parts of the screen that keep a state of their own:    *)
(* the lists (ScrollList), the line editors (TextEntry), the IP dialog     *)
(* (IpLookup) and the detail tree (DetailTree).  They share no variable.   *)
(***************************************************************************)
EXTENDS ScrollList, TextEntry, IpLookup, DetailTree, SequenceTheorems, FiniteSetTheorems, WellFoundedInduction, TLAPS

-----------------------------------------------------------------------------
(* Lists.                                                                  *)

ListInv == ListTypeOK /\ SelectedRowExists

ListStep == ListInv' /\ SelectedRowDrawn /\ SelectionReturns /\ HelpStaysOnText

LEMMA ListInitially == ListInit => ListInv
<1> SUFFICES ASSUME ListInit PROVE ListInv
  OBVIOUS
<1>1. list \in Fixed \union Counted \union {"help"} /\ shown = FALSE
  BY DEF ListInit
<1>2. rows = 0 /\ selectedRow = 0 /\ offset = 0 /\ height \in Nat
  BY HeightAssumption DEF ListInit
<1> QED
  BY <1>1, <1>2 DEF ListInv, ListTypeOK, SelectedRowExists

(* A handler scrolls so that the row it selects is drawn.                  *)
LEMMA SelectDraws ==
  ASSUME ListInv, UNCHANGED <<list, height>>, NEW row \in Nat, Select(row)
  PROVE  selectedRow' = row /\ offset' \in Nat /\ row \in offset'..(offset' + Visible - 1)
<1>1. Visible \in Nat /\ Visible >= 1
  <2>1. CASE list \in Fixed
    <3>1. Assumed[list] \in Nat \ {0}
      BY <2>1, HeightAssumption DEF Fixed
    <3> QED
      BY <2>1, <3>1 DEF Visible
  <2>2. CASE list \notin Fixed
    BY <2>2 DEF Visible, AtLeast, ListInv, ListTypeOK
  <2> QED
    BY <2>1, <2>2
<1>2. offset \in Nat
  BY DEF ListInv, ListTypeOK
<1>3. /\ selectedRow' = row
      /\ offset' = IF row < offset THEN row ELSE IF row >= offset + Visible THEN Minus(row, Visible - 1) ELSE offset
  BY DEF Select, AdjustScroll
<1> HIDE DEF Visible
<1> QED
  BY <1>1, <1>2, <1>3 DEF Minus, AtLeast

LEMMA KeySteps ==
  ASSUME ListInv, ListKey
  PROVE  ListStep
<1>1. /\ shown /\ list # "help" /\ rows > 0 /\ UNCHANGED <<list, shown, rows, height>>
      /\ rows \in Nat /\ selectedRow \in Nat /\ offset \in Nat
  BY DEF ListKey, ListDown, ListUp, ListFirst, ListLast, InList, ListInv, ListTypeOK
<1>2. ASSUME NEW row \in Nat, Select(row), row < rows \/ row <= selectedRow
      PROVE  ListStep
  <2>1. selectedRow' = row /\ offset' \in Nat /\ row \in offset'..(offset' + Visible - 1)
    BY <1>1, <1>2, SelectDraws
  <2>2. list \in Fixed => selectedRow' = 0 \/ selectedRow' < rows
    BY <1>1, <1>2, <2>1 DEF ListInv, SelectedRowExists
  <2>3. ListInv'
    BY <1>1, <2>1, <2>2 DEF ListInv, ListTypeOK, SelectedRowExists
  <2>4. SelectedRowDrawn
    BY <2>1 DEF SelectedRowDrawn
  <2>5. SelectionReturns /\ HelpStaysOnText
    BY <1>1, <1>2, <2>1 DEF SelectionReturns, HelpStaysOnText
  <2> QED
    BY <2>3, <2>4, <2>5 DEF ListStep
<1>3. CASE ListDown
  <2>1. AtMost(selectedRow + 1, rows - 1) \in Nat /\ AtMost(selectedRow + 1, rows - 1) < rows
    BY <1>1 DEF AtMost
  <2> QED
    BY <1>2, <1>3, <2>1 DEF ListDown
<1>4. CASE ListUp
  <2>1. Minus(selectedRow, 1) \in Nat /\ Minus(selectedRow, 1) <= selectedRow
    BY <1>1 DEF Minus, AtLeast
  <2> QED
    BY <1>2, <1>4, <2>1 DEF ListUp
<1>5. CASE ListFirst
  <2>1. selectedRow' = 0 /\ offset' = 0 /\ Visible \in Nat /\ Visible >= 1
    <3>1. list \in Fixed => Assumed[list] \in Nat \ {0}
      BY HeightAssumption DEF Fixed
    <3> QED
      BY <1>5, <3>1 DEF ListFirst, Visible, AtLeast, ListInv, ListTypeOK
  <2> QED
    BY <1>1, <2>1
    DEF ListStep, ListInv, ListTypeOK, SelectedRowExists, SelectedRowDrawn, SelectionReturns, HelpStaysOnText
<1>6. CASE ListLast
  <2>1. rows - 1 \in Nat /\ rows - 1 < rows
    BY <1>1
  <2> QED
    BY <1>2, <1>6, <2>1 DEF ListLast
<1> QED
  BY <1>3, <1>4, <1>5, <1>6 DEF ListKey

LEMMA HelpSteps ==
  ASSUME ListInv, HelpKey
  PROVE  ListStep
<1>1. rows \in Nat /\ offset \in Nat /\ height \in Nat
  BY DEF ListInv, ListTypeOK
<1>2. HelpEnd \in Nat /\ (HelpEnd > 0 => HelpEnd + AtLeast(height, 1) <= rows)
  BY <1>1 DEF HelpEnd, Minus, AtLeast
<1>3. ASSUME NEW line \in Nat, HelpTo(line), line > offset => line + AtLeast(height, 1) <= rows
      PROVE  ListStep
  <2>1. /\ offset' = line /\ list = "help" /\ UNCHANGED <<list, shown, rows, selectedRow, height>>
    BY <1>3 DEF HelpTo
  <2> QED
    BY <1>3, <2>1
    DEF ListStep, ListInv, ListTypeOK, SelectedRowExists, SelectedRowDrawn, SelectionReturns, HelpStaysOnText
<1>4. ASSUME NEW by \in {1, Page}, HelpForward(by) PROVE ListStep
  <2>1. by \in Nat
    BY HeightAssumption
  <2>2. AtMost(offset + by, HelpEnd) \in Nat /\ AtMost(offset + by, HelpEnd) <= HelpEnd
    BY <1>1, <1>2, <2>1 DEF AtMost
  <2>3. AtLeast(height, 1) \in Nat
    BY <1>1 DEF AtLeast
  <2>4. AtMost(offset + by, HelpEnd) > offset => AtMost(offset + by, HelpEnd) + AtLeast(height, 1) <= rows
    BY <1>1, <1>2, <2>2, <2>3
  <2> QED
    BY <1>3, <1>4, <2>2, <2>4 DEF HelpForward
<1>5. ASSUME NEW by \in {1, Page}, HelpBack(by) PROVE ListStep
  <2>1. Minus(offset, by) \in Nat /\ ~(Minus(offset, by) > offset)
    BY <1>1, HeightAssumption DEF Minus, AtLeast
  <2> QED
    BY <1>3, <1>5, <2>1 DEF HelpBack
<1>6. CASE HelpTo(0)
  BY <1>1, <1>3, <1>6
<1>7. CASE HelpTo(HelpEnd)
  BY <1>1, <1>2, <1>3, <1>7
<1> QED
  BY <1>4, <1>5, <1>6, <1>7 DEF HelpKey

LEMMA ListNextStep == ListInv /\ [ListNext]_listVars => ListInv' /\ [ListStep]_listVars
<1> SUFFICES ASSUME ListInv, ListNext PROVE ListStep
  BY DEF ListStep, listVars, ListInv, ListTypeOK, SelectedRowExists
<1> USE DEF ListInv, ListTypeOK, SelectedRowExists, ListStep, SelectedRowDrawn, SelectionReturns, HelpStaysOnText
<1>1. ASSUME NEW n \in 0..MaxRows, ListShow(n) PROVE ListStep
  BY <1>1, HeightAssumption DEF ListShow
<1>2. ASSUME NEW n \in 0..MaxRows, Recount(n) PROVE ListStep
  BY <1>2, HeightAssumption DEF Recount, Counted, Fixed
<1>3. CASE ListHide
  <2>1. shown' = FALSE
    BY <1>3 DEF ListHide
  <2>2. UNCHANGED <<list, rows, selectedRow, offset, height>>
    BY <1>3 DEF ListHide
  <2>3. ListTypeOK' /\ SelectedRowExists'
    BY <2>1, <2>2
  <2>4. SelectedRowDrawn /\ SelectionReturns /\ HelpStaysOnText
    BY <2>1, <2>2
  <2> QED
    BY <2>3, <2>4
<1>4. ASSUME NEW h \in 0..MaxHeight, Redraw(h) PROVE ListStep
  BY <1>4, HeightAssumption DEF Redraw
<1> QED
  BY <1>1, <1>2, <1>3, <1>4, KeySteps, HelpSteps DEF ListNext

(* Every key of every list leaves the selected row among the rows drawn    *)
(* (adjust_..._scroll, for any height and number of rows), on a row that   *)
(* exists, and the help on its last page (handle_help_key), whatever was   *)
(* counted again or drawn at another height in between.                    *)
THEOREM RowsInView == ListSpec => ListSteps
<1>1. ListInv /\ [ListNext]_listVars
      => [ListTypeOK' /\ SelectedRowExists' /\ SelectedRowDrawn /\ SelectionReturns /\ HelpStaysOnText]_listVars
  BY ListNextStep DEF ListStep, ListInv
<1>2. ListInv /\ [ListNext]_listVars => ListInv'
  BY ListNextStep
<1> QED
  BY <1>1, <1>2, ListInitially, PTL DEF ListSpec, ListSteps

-----------------------------------------------------------------------------
(* Sequences.                                                              *)

LEMMA Removed ==
  ASSUME NEW S, NEW s \in Seq(S), NEW i \in 1..Len(s)
  PROVE  /\ RemoveAt(s, i) \in Seq(S) /\ Len(RemoveAt(s, i)) = Len(s) - 1
         /\ \A k \in 1..(Len(s) - 1) : RemoveAt(s, i)[k] = IF k < i THEN s[k] ELSE s[k + 1]
<1>1. Len(s) \in Nat /\ i \in Nat /\ i >= 1 /\ i <= Len(s)
  BY LenProperties
<1>2. /\ SubSeq(s, 1, i - 1) \in Seq(S) /\ Len(SubSeq(s, 1, i - 1)) = i - 1
      /\ \A k \in 1..(i - 1) : SubSeq(s, 1, i - 1)[k] = s[k]
  BY <1>1, SubSeqProperties
<1>3. /\ SubSeq(s, i + 1, Len(s)) \in Seq(S) /\ Len(SubSeq(s, i + 1, Len(s))) = Len(s) - i
      /\ \A k \in 1..(Len(s) - i) : SubSeq(s, i + 1, Len(s))[k] = s[i + k]
  BY <1>1, SubSeqProperties
<1> DEFINE l == SubSeq(s, 1, i - 1)  r == SubSeq(s, i + 1, Len(s))
<1>4. RemoveAt(s, i) = l \o r
  BY DEF RemoveAt
<1> HIDE DEF l, r
<1>5. l \in Seq(S) /\ Len(l) = i - 1 /\ (\A k \in 1..(i - 1) : l[k] = s[k])
  BY <1>2 DEF l
<1>6. r \in Seq(S) /\ Len(r) = Len(s) - i /\ (\A k \in 1..(Len(s) - i) : r[k] = s[i + k])
  BY <1>3 DEF r
<1>7. /\ l \o r \in Seq(S) /\ Len(l \o r) = Len(l) + Len(r)
      /\ \A k \in 1..(Len(l) + Len(r)) : (l \o r)[k] = IF k <= Len(l) THEN l[k] ELSE r[k - Len(l)]
  BY <1>5, <1>6, ConcatProperties
<1>8. ASSUME NEW k \in 1..(Len(s) - 1)
      PROVE  (l \o r)[k] = IF k < i THEN s[k] ELSE s[k + 1]
  <2>1. CASE k < i
    BY <1>1, <1>5, <1>6, <1>7, <2>1
  <2>2. CASE ~(k < i)
    <3>1. (l \o r)[k] = r[k - (i - 1)] /\ k - (i - 1) \in 1..(Len(s) - i)
      BY <1>1, <1>5, <1>6, <1>7, <2>2
    <3>2. r[k - (i - 1)] = s[i + (k - (i - 1))] /\ i + (k - (i - 1)) = k + 1
      BY <1>1, <1>6, <3>1
    <3> QED
      BY <2>2, <3>1, <3>2
  <2> QED
    BY <2>1, <2>2
<1>9. Len(l \o r) = Len(s) - 1
  BY <1>1, <1>5, <1>6, <1>7
<1> QED
  BY <1>4, <1>7, <1>8, <1>9

-----------------------------------------------------------------------------
(* The IP dialog.                                                          *)

Caches == [Public \union Special -> Answers \union {"special", Unknown}]
Asked == [address : Public, at : Answers \union {"origin", "name", "dead"}]

(* Each address is asked for once at most, and what is in flight is what   *)
(* is asked for and what died being asked for.                             *)
AskedOnce(ls) == \A i, j \in DOMAIN ls : ls[i].address = ls[j].address => i = j
DeadAreDead(ls, dead) == \A i \in DOMAIN ls : ls[i].address \in dead <=> ls[i].at = "dead"
FlightIs(fl, ls, dead) == fl = {ls[i].address : i \in DOMAIN ls} \union dead

Flight(fl, ls, dead) == AskedOnce(ls) /\ DeadAreDead(ls, dead) /\ FlightIs(fl, ls, dead)

IpInv ==
  /\ IpTypeOK /\ Flight(inFlight, lookups, died)
  /\ PendingIsInFlight /\ DialogOfOnePacket
  /\ dialog => resolved \in DOMAIN Ends

(* The state between the two addresses of a packet.                        *)
Midway(s) ==
  /\ s.cache \in Caches /\ s.inFlight \subseteq Public /\ s.lookups \in Seq(Asked)
  /\ Flight(s.inFlight, s.lookups, died)

LEMMA AfterKeeps ==
  ASSUME died \subseteq Public, NEW s, Midway(s), NEW a \in Address
  PROVE  Midway(After(s, a)) /\ s.inFlight \subseteq After(s, a).inFlight
<1>1. After(s, a).cache \in Caches
  BY DEF Midway, After, Caches
<1>2. CASE ~Begins(s, a)
  BY <1>1, <1>2 DEF Midway, After
<1>3. CASE Begins(s, a)
  <2> DEFINE new == [address |-> a, at |-> "origin"]
             ls == s.lookups
  <2>1. a \in Public /\ a \notin s.inFlight
    BY <1>3 DEF Begins
  <2>2. new \in Asked
    BY <2>1 DEF Asked
  <2>3. ls \in Seq(Asked) /\ Len(ls) \in Nat /\ DOMAIN ls = 1..Len(ls)
    BY LenProperties DEF Midway
  <2>4. /\ After(s, a).inFlight = s.inFlight \union {a}
        /\ After(s, a).lookups = Append(ls, new)
    BY <1>3 DEF After
  <2>5. Append(ls, new) \in Seq(Asked) /\ DOMAIN Append(ls, new) = 1..(Len(ls) + 1)
        /\ Append(ls, new)[Len(ls) + 1] = new
        /\ \A i \in 1..Len(ls) : Append(ls, new)[i] = ls[i]
    BY <2>2, <2>3, AppendProperties
  <2>6. Flight(s.inFlight, ls, died)
    BY DEF Midway
  <2>7. a \notin died /\ \A i \in DOMAIN ls : ls[i].address # a
    BY <2>1, <2>6 DEF Flight, FlightIs
  <2>8. new.address = a /\ new.at = "origin"
    OBVIOUS
  <2> HIDE DEF new, ls
  <2>9. AskedOnce(Append(ls, new))
    BY <2>3, <2>5, <2>6, <2>7, <2>8 DEF Flight, AskedOnce
  <2>10. DeadAreDead(Append(ls, new), died)
    BY <2>3, <2>5, <2>6, <2>7, <2>8 DEF Flight, DeadAreDead
  <2>11. FlightIs(s.inFlight \union {a}, Append(ls, new), died)
    <3>1. \A b \in s.inFlight \union {a} : b \in {Append(ls, new)[i].address : i \in DOMAIN Append(ls, new)} \union died
      BY <2>3, <2>5, <2>6, <2>8 DEF Flight, FlightIs
    <3>2. \A b \in {Append(ls, new)[i].address : i \in DOMAIN Append(ls, new)} \union died : b \in s.inFlight \union {a}
      BY <2>3, <2>5, <2>6, <2>8 DEF Flight, FlightIs
    <3> QED
      BY <3>1, <3>2 DEF FlightIs
  <2>12. s.inFlight \subseteq Public
    BY DEF Midway
  <2> QED
    BY <1>1, <2>1, <2>4, <2>5, <2>9, <2>10, <2>11, <2>12 DEF Midway, Flight
<1> QED
  BY <1>2, <1>3

(* What is shown of an address that is not answered is in flight.          *)
LEMMA ShownSound ==
  ASSUME NEW s, Midway(s), NEW a \in Address
  PROVE  /\ ShownAs(s, a) \in Shown
         /\ a \in NotIp => ShownAs(s, a) = Unknown
         /\ a \notin NotIp => ShownAs(s, a) # Unknown /\ ShownAs(s, a).address = a
         /\ a \notin NotIp /\ ShownAs(s, a).info = "pending" => a \in After(s, a).inFlight
<1>1. CASE a \in NotIp
  BY <1>1 DEF ShownAs, Shown
<1>2. CASE a \notin NotIp
  <2> DEFINE info == CASE a \in Special -> "special"
                       [] s.cache[a] # Unknown -> s.cache[a]
                       [] OTHER -> "pending"
  <2>1. ShownAs(s, a) = [address |-> a, info |-> info]
    BY <1>2 DEF ShownAs
  <2>2. a \in Public \union Special /\ s.cache[a] \in Answers \union {"special", Unknown}
    BY <1>2 DEF Address, Midway, Caches
  <2>3. info = "special" \/ info \in Answers \/ info = "pending"
    BY <2>2
  <2>4. info = "pending" => a \in Public /\ s.cache[a] = Unknown
    BY <2>2 DEF Answers
  <2>5. a \in Public /\ s.cache[a] = Unknown => a \in After(s, a).inFlight
    BY DEF After, Begins
  <2> HIDE DEF info
  <2>6. [address |-> a, info |-> info] \in Infos
    BY <2>3 DEF Infos
  <2> QED
    BY <1>2, <2>1, <2>4, <2>5, <2>6, UnknownAssumption DEF Shown
<1> QED
  BY <1>1, <1>2

LEMMA ResolveKeeps ==
  ASSUME IpInv, NEW p \in DOMAIN Ends, Resolve(p), died' = died,
         dialog' \in BOOLEAN, selected' \in 0..Len(Ends)
  PROVE  IpInv'
<1> DEFINE a == Ends[p][1]  b == Ends[p][2]
           s == After(State, a)
           t == After(s, b)
<1>1. a \in Address /\ b \in Address /\ p \in 0..Len(Ends) /\ DOMAIN Ends = 1..Len(Ends)
  BY AddressAssumption, LenProperties
<1>2. Midway(State) /\ died \subseteq Public
  BY DEF IpInv, IpTypeOK, Midway, State, Caches, Asked
<1>3. /\ ipSrc' = ShownAs(State, a) /\ ipDst' = ShownAs(s, b)
      /\ cache' = t.cache /\ inFlight' = t.inFlight /\ lookups' = t.lookups
      /\ resolved' = p
  BY DEF Resolve
<1> HIDE DEF a, b
<1>4. Midway(s)
  BY <1>1, <1>2, AfterKeeps
<1>5. Midway(t) /\ s.inFlight \subseteq t.inFlight
  BY <1>1, <1>2, <1>4, AfterKeeps
<1>6. /\ ipSrc' \in Shown
      /\ a \in NotIp => ipSrc' = Unknown
      /\ a \notin NotIp => ipSrc' # Unknown /\ ipSrc'.address = a
      /\ a \notin NotIp /\ ipSrc'.info = "pending" => a \in s.inFlight
  BY <1>1, <1>2, <1>3, ShownSound
<1>7. /\ ipDst' \in Shown
      /\ b \in NotIp => ipDst' = Unknown
      /\ b \notin NotIp => ipDst' # Unknown /\ ipDst'.address = b
      /\ b \notin NotIp /\ ipDst'.info = "pending" => b \in t.inFlight
  BY <1>1, <1>3, <1>4, ShownSound
<1> HIDE DEF s, t
<1>8. IpTypeOK'
  BY <1>1, <1>2, <1>3, <1>5, <1>6, <1>7 DEF IpTypeOK, Midway, Caches, Asked
<1>9. Flight(inFlight, lookups, died)'
  BY <1>3, <1>5 DEF Midway, Flight, AskedOnce, DeadAreDead, FlightIs
<1>10. PendingIsInFlight'
  BY <1>3, <1>5, <1>6, <1>7 DEF PendingIsInFlight
<1>11. DialogOfOnePacket'
  BY <1>3, <1>6, <1>7 DEF DialogOfOnePacket, a, b
<1> QED
  BY <1>1, <1>3, <1>8, <1>9, <1>10, <1>11 DEF IpInv

(* One lookup moves on, to the end of its thread at most.                  *)
LEMMA MovesOn ==
  ASSUME NEW i \in DOMAIN lookups, NEW at \in Answers \union {"name", "dead"}, IpTypeOK,
         lookups' = [lookups EXCEPT ![i].at = at]
  PROVE  /\ lookups' \in Seq(Asked) /\ DOMAIN lookups' = DOMAIN lookups
         /\ \A j \in DOMAIN lookups : lookups'[j].address = lookups[j].address
         /\ \A j \in DOMAIN lookups : lookups'[j].at = IF j = i THEN at ELSE lookups[j].at
<1>1. lookups \in Seq(Asked) /\ Len(lookups) \in Nat /\ DOMAIN lookups = 1..Len(lookups)
  BY LenProperties DEF IpTypeOK, Asked
<1>2. lookups[i] \in Asked
  BY <1>1, ElementOfSeq
<1> DEFINE e == [lookups[i] EXCEPT !.at = at]
<1>3. e \in Asked /\ e.address = lookups[i].address /\ e.at = at
  BY <1>2 DEF Asked
<1>4. lookups' = [lookups EXCEPT ![i] = e]
  OBVIOUS
<1> HIDE DEF e
<1>5. lookups' \in Seq(Asked) /\ DOMAIN lookups' = DOMAIN lookups
  BY <1>1, <1>3, <1>4, ExceptSeq
<1>6. \A j \in DOMAIN lookups : lookups'[j] = IF j = i THEN e ELSE lookups[j]
  BY <1>4
<1> QED
  BY <1>3, <1>5, <1>6

LEMMA AnsweredSound ==
  ASSUME NEW entry \in Shown, NEW a \in Public, NEW info \in Answers
  PROVE  /\ Answered(entry, a, info) \in Shown
         /\ Answered(entry, a, info) = Unknown <=> entry = Unknown
         /\ entry # Unknown => Answered(entry, a, info).address = entry.address
         /\ dialog /\ entry # Unknown /\ Answered(entry, a, info).info = "pending"
              => entry.info = "pending" /\ entry.address # a
<1>1. [address |-> a, info |-> info] \in Infos
  BY DEF Infos, Address
<1> QED
  BY <1>1, UnknownAssumption DEF Answered, Shown, Infos, Answers

LEMMA DrainKeeps ==
  ASSUME IpInv, NEW i \in DOMAIN lookups, IpDrain(i)
  PROVE  IpInv'
<1> DEFINE ls == RemoveAt(lookups, i)
           a == lookups[i].address
           at == lookups[i].at
<1>1. /\ lookups \in Seq(Asked) /\ Len(lookups) \in Nat /\ DOMAIN lookups = 1..Len(lookups)
      /\ Flight(inFlight, lookups, died) /\ died \subseteq Public /\ inFlight \subseteq Public
  BY LenProperties DEF IpInv, IpTypeOK, Asked
<1>2. lookups[i] \in Asked
  BY <1>1, ElementOfSeq
<1>3. a \in Public /\ at \in Answers \union {"dead"}
  BY <1>2 DEF IpDrain, Asked
<1>4. /\ ls \in Seq(Asked) /\ DOMAIN ls = 1..(Len(lookups) - 1)
      /\ \A k \in 1..(Len(lookups) - 1) : ls[k] = IF k < i THEN lookups[k] ELSE lookups[k + 1]
  <2>1. ls \in Seq(Asked) /\ Len(ls) = Len(lookups) - 1
        /\ \A k \in 1..(Len(lookups) - 1) : ls[k] = IF k < i THEN lookups[k] ELSE lookups[k + 1]
    BY <1>1, Removed
  <2>2. DOMAIN ls = 1..Len(ls)
    BY <2>1, LenProperties
  <2> QED
    BY <2>1, <2>2
<1>5. /\ lookups' = ls /\ UNCHANGED <<died, dialog, selected, resolved>>
      /\ at = "dead" => UNCHANGED <<cache, inFlight, ipSrc, ipDst>>
      /\ at # "dead" => /\ inFlight' = inFlight \ {a} /\ cache' \in Cached(cache, a, at)
                        /\ ipSrc' = Answered(ipSrc, a, at) /\ ipDst' = Answered(ipDst, a, at)
  BY DEF IpDrain, ends
(* Where each remaining lookup was, and the other way round.               *)
<1>6. /\ i \in 1..Len(lookups)
      /\ \A k \in DOMAIN ls : \E j \in DOMAIN lookups \ {i} : ls[k] = lookups[j] /\ j = IF k < i THEN k ELSE k + 1
      /\ \A j \in DOMAIN lookups \ {i} : \E k \in DOMAIN ls : ls[k] = lookups[j]
  <2>1. i \in 1..Len(lookups)
    BY <1>1
  <2>2. ASSUME NEW k \in DOMAIN ls
        PROVE  \E j \in DOMAIN lookups \ {i} : ls[k] = lookups[j] /\ j = IF k < i THEN k ELSE k + 1
    BY <1>1, <1>4
  <2>3. ASSUME NEW j \in DOMAIN lookups \ {i} PROVE \E k \in DOMAIN ls : ls[k] = lookups[j]
    <3>1. CASE j < i
      <4>1. j \in DOMAIN ls /\ ls[j] = lookups[j]
        BY <1>1, <1>4, <3>1
      <4> QED
        BY <4>1
    <3>2. CASE j > i
      <4>1. j - 1 \in DOMAIN ls /\ ls[j - 1] = lookups[j]
        BY <1>1, <1>4, <3>2
      <4> QED
        BY <4>1
    <3> QED
      BY <1>1, <3>1, <3>2
  <2> QED
    BY <2>1, <2>2, <2>3
<1> HIDE DEF ls
<1>7. /\ AskedOnce(ls) /\ DeadAreDead(ls, died)
      /\ \A k \in DOMAIN ls : ls[k].address # a
  <2>1. AskedOnce(lookups) /\ DeadAreDead(lookups, died)
    BY <1>1 DEF Flight
  <2>2. ASSUME NEW k \in DOMAIN ls, NEW l \in DOMAIN ls, ls[k].address = ls[l].address PROVE k = l
    <3>1. PICK j \in DOMAIN lookups \ {i} : ls[k] = lookups[j] /\ j = IF k < i THEN k ELSE k + 1
      BY <1>6
    <3>2. PICK m \in DOMAIN lookups \ {i} : ls[l] = lookups[m] /\ m = IF l < i THEN l ELSE l + 1
      BY <1>6
    <3>3. j = m
      BY <2>1, <2>2, <3>1, <3>2 DEF AskedOnce
    <3>4. k \in Nat /\ l \in Nat /\ i \in Nat
      BY <1>1, <1>4
    <3> QED
      BY <3>1, <3>2, <3>3, <3>4
  <2>3. \A k \in DOMAIN ls : \E j \in DOMAIN lookups \ {i} : ls[k] = lookups[j]
    BY <1>6
  <2> QED
    BY <2>1, <2>2, <2>3 DEF AskedOnce, DeadAreDead
<1>8. a \in died <=> at = "dead"
  BY <1>1 DEF Flight, DeadAreDead
<1>9. inFlight' = IF at = "dead" THEN inFlight ELSE inFlight \ {a}
  BY <1>5
<1>10. FlightIs(inFlight', ls, died)
  <2>1. inFlight = {lookups[j].address : j \in DOMAIN lookups} \union died
    BY <1>1 DEF Flight, FlightIs
  <2>2. {lookups[j].address : j \in DOMAIN lookups} = {ls[k].address : k \in DOMAIN ls} \union {a}
    BY <1>6
  <2>3. a \notin {ls[k].address : k \in DOMAIN ls}
    BY <1>7
  <2> HIDE DEF a, at
  <2> QED
    BY <1>8, <1>9, <2>1, <2>2, <2>3 DEF FlightIs
<1>11. Flight(inFlight, lookups, died)'
  BY <1>5, <1>7, <1>10 DEF Flight, AskedOnce, DeadAreDead, FlightIs
<1>12. cache' \in Caches
  <2>1. cache \in Caches
    BY DEF IpInv, IpTypeOK, Caches
  <2>2. CASE at # "dead"
    <3> DEFINE held == {b \in DOMAIN cache : cache[b] # Unknown}
               without(gone) == [b \in DOMAIN cache |-> IF b \in gone THEN Unknown ELSE cache[b]]
    <3>1. at \in Answers
      BY <1>3, <2>2
    <3>2. cache' = [cache EXCEPT ![a] = at] \/ \E gone \in SUBSET held : cache' = [without(gone) EXCEPT ![a] = at]
      BY <1>5, <2>2 DEF Cached
    <3>3. ASSUME NEW gone PROVE without(gone) \in Caches
      BY <2>1 DEF Caches
    <3>4. ASSUME NEW c \in Caches PROVE [c EXCEPT ![a] = at] \in Caches
      BY <3>1 DEF Caches
    <3> HIDE DEF without
    <3> QED
      BY <2>1, <3>2, <3>3, <3>4
  <2> QED
    BY <1>5, <2>1, <2>2
<1>13. ipSrc \in Shown /\ ipDst \in Shown
  BY DEF IpInv, IpTypeOK
<1>14. ipSrc' \in Shown /\ ipDst' \in Shown
  BY <1>3, <1>5, <1>13, AnsweredSound
<1>15. IpTypeOK'
  <2>1. inFlight' \subseteq Public
    BY <1>1, <1>9
  <2> QED
    BY <1>1, <1>4, <1>5, <1>12, <1>14, <2>1 DEF IpInv, IpTypeOK, Caches, Asked
<1>16. PendingIsInFlight'
  <2>1. CASE at = "dead"
    BY <1>5, <2>1 DEF IpInv, PendingIsInFlight
  <2>2. CASE at # "dead"
    <3>1. at \in Answers
      BY <1>3, <2>2
    <3>2. ASSUME NEW e \in {ipSrc, ipDst}, dialog, Answered(e, a, at) # Unknown, Answered(e, a, at).info = "pending"
          PROVE  Answered(e, a, at).address \in inFlight'
      <4>1. e # Unknown /\ Answered(e, a, at).address = e.address /\ e.info = "pending" /\ e.address # a
        BY <1>3, <1>13, <3>1, <3>2, AnsweredSound
      <4>2. e.address \in inFlight
        BY <3>2, <4>1 DEF IpInv, PendingIsInFlight
      <4> QED
        BY <1>9, <4>1, <4>2
    <3> QED
      BY <1>5, <2>2, <3>2 DEF PendingIsInFlight
  <2> QED
    BY <2>1, <2>2
<1>17. DialogOfOnePacket'
  <2>1. CASE at = "dead"
    BY <1>5, <2>1 DEF IpInv, DialogOfOnePacket
  <2>2. CASE at # "dead"
    <3>1. at \in Answers
      BY <1>3, <2>2
    <3>2. \A e \in {ipSrc, ipDst} :
            /\ Answered(e, a, at) = Unknown <=> e = Unknown
            /\ e # Unknown => Answered(e, a, at).address = e.address
      BY <1>3, <1>13, <3>1, AnsweredSound
    <3> HIDE DEF a, at
    <3> QED
      BY <1>5, <2>2, <3>2 DEF IpInv, DialogOfOnePacket
  <2> QED
    BY <2>1, <2>2
<1> QED
  BY <1>5, <1>11, <1>15, <1>16, <1>17 DEF IpInv

LEMMA IpNextStep == IpInv /\ [IpNext]_ipVars => IpInv'
<1> SUFFICES ASSUME IpInv, [IpNext]_ipVars PROVE IpInv'
  OBVIOUS
<1>1. CASE UNCHANGED ipVars
  BY <1>1 DEF IpInv, ipVars, ends, IpTypeOK, Flight, AskedOnce, DeadAreDead, FlightIs, PendingIsInFlight, DialogOfOnePacket
<1>2. CASE IpOpen
  <2>1. selected \in DOMAIN Ends /\ selected \in 0..Len(Ends)
    BY <1>2, AddressAssumption, LenProperties DEF IpOpen, IpInv, IpTypeOK
  <2> QED
    BY <1>2, <2>1, ResolveKeeps DEF IpOpen
<1>3. CASE IpClose
  <2>1. dialog' = FALSE /\ UNCHANGED <<cache, inFlight, lookups, died, ipSrc, ipDst, selected, resolved>>
    BY <1>3 DEF IpClose, ends
  <2> QED
    BY <2>1 DEF IpInv, IpTypeOK, Flight, AskedOnce, DeadAreDead, FlightIs, PendingIsInFlight, DialogOfOnePacket
<1>4. ASSUME NEW p \in DOMAIN Ends, IpMove(p) PROVE IpInv'
  <2>1. p \in 0..Len(Ends)
    BY AddressAssumption, LenProperties
  <2>2. Resolve(p) /\ selected' = p /\ UNCHANGED <<died, dialog>>
    BY <1>4 DEF IpMove
  <2>3. dialog' \in BOOLEAN
    BY <2>2 DEF IpInv, IpTypeOK
  <2> QED
    BY <2>1, <2>2, <2>3, ResolveKeeps
<1>5. ASSUME NEW p \in DOMAIN Ends, IpSelect(p) PROVE IpInv'
  <2>1. p \in 0..Len(Ends)
    BY AddressAssumption, LenProperties
  <2>2. selected' = p /\ UNCHANGED <<cache, inFlight, lookups, died, dialog, ipSrc, ipDst, resolved>>
    BY <1>5 DEF IpSelect, ends
  <2> QED
    BY <2>1, <2>2 DEF IpInv, IpTypeOK, Flight, AskedOnce, DeadAreDead, FlightIs, PendingIsInFlight, DialogOfOnePacket
<1>6. ASSUME NEW i \in DOMAIN lookups, Ask(i) PROVE IpInv'
  <2>1. UNCHANGED <<cache, inFlight, died, dialog, ipSrc, ipDst, selected, resolved>>
    BY <1>6 DEF Ask, ends
  <2>2. PICK at \in Answers \union {"name"} : lookups' = [lookups EXCEPT ![i].at = at] /\ lookups[i].at \in {"origin", "name"}
    BY <1>6 DEF Ask, Answers
  <2>3. /\ lookups' \in Seq(Asked) /\ DOMAIN lookups' = DOMAIN lookups
        /\ \A j \in DOMAIN lookups : lookups'[j].address = lookups[j].address
        /\ \A j \in DOMAIN lookups : lookups'[j].at = IF j = i THEN at ELSE lookups[j].at
    BY <2>2, MovesOn DEF IpInv
  <2>4. Flight(inFlight, lookups, died)'
    <3>1. AskedOnce(lookups)'
      BY <2>3 DEF IpInv, Flight, AskedOnce
    <3>2. DeadAreDead(lookups, died)'
      BY <2>1, <2>2, <2>3 DEF IpInv, Flight, DeadAreDead, Answers
    <3>3. FlightIs(inFlight, lookups, died)'
      BY <2>1, <2>3 DEF IpInv, Flight, FlightIs
    <3> QED
      BY <3>1, <3>2, <3>3 DEF Flight
  <2> QED
    BY <2>1, <2>3, <2>4 DEF IpInv, IpTypeOK, PendingIsInFlight, DialogOfOnePacket, Asked
<1>7. ASSUME NEW i \in DOMAIN lookups, Die(i) PROVE IpInv'
  <2>1. UNCHANGED <<cache, inFlight, dialog, ipSrc, ipDst, selected, resolved>>
        /\ died' = died \union {lookups[i].address}
    BY <1>7 DEF Die, ends
  <2>2. lookups' = [lookups EXCEPT ![i].at = "dead"]
    BY <1>7 DEF Die
  <2>3. /\ lookups' \in Seq(Asked) /\ DOMAIN lookups' = DOMAIN lookups
        /\ \A j \in DOMAIN lookups : lookups'[j].address = lookups[j].address
        /\ \A j \in DOMAIN lookups : lookups'[j].at = IF j = i THEN "dead" ELSE lookups[j].at
    BY <2>2, MovesOn DEF IpInv
  <2>4. Flight(inFlight, lookups, died)'
    <3>1. AskedOnce(lookups)'
      BY <2>3 DEF IpInv, Flight, AskedOnce
    <3>2. DeadAreDead(lookups, died)'
      BY <2>1, <2>3 DEF IpInv, Flight, DeadAreDead, AskedOnce
    <3>3. FlightIs(inFlight, lookups, died)'
      <4>1. inFlight = {lookups[j].address : j \in DOMAIN lookups} \union died
        BY DEF IpInv, Flight, FlightIs
      <4>2. {lookups'[j].address : j \in DOMAIN lookups'} = {lookups[j].address : j \in DOMAIN lookups}
        BY <2>3
      <4> QED
        BY <2>1, <4>1, <4>2 DEF FlightIs
    <3> QED
      BY <3>1, <3>2, <3>3 DEF Flight
  <2>5. lookups[i].address \in Public
    <3>1. lookups \in Seq(Asked)
      BY DEF IpInv, IpTypeOK, Asked
    <3>2. lookups[i] \in Asked
      BY <3>1, LenProperties, ElementOfSeq
    <3> QED
      BY <3>2 DEF Asked
  <2> QED
    BY <2>1, <2>3, <2>4, <2>5 DEF IpInv, IpTypeOK, PendingIsInFlight, DialogOfOnePacket, Asked
<1>8. ASSUME NEW i \in DOMAIN lookups, IpDrain(i) PROVE IpInv'
  BY <1>8, DrainKeeps
<1> QED
  BY <1>1, <1>2, <1>3, <1>4, <1>5, <1>6, <1>7, <1>8 DEF IpNext

LEMMA IpInitially == IpInit => IpInv
<1> SUFFICES ASSUME IpInit PROVE IpInv
  OBVIOUS
<1>1. /\ cache \in Caches /\ inFlight = {} /\ lookups = <<>> /\ died = {} /\ dialog = FALSE
      /\ ipSrc = Unknown /\ ipDst = Unknown /\ selected = 0 /\ resolved = 0
  BY DEF IpInit, Caches
<1>2. lookups \in Seq(Asked) /\ DOMAIN lookups = {}
  BY <1>1
<1>3. Flight(inFlight, lookups, died)
  BY <1>1, <1>2 DEF Flight, AskedOnce, DeadAreDead, FlightIs
<1>4. Len(Ends) \in Nat
  BY AddressAssumption, LenProperties
<1>5. IpTypeOK
  <2>1. lookups \in Seq([address : Public, at : Answers \union {"origin", "name", "dead"}])
    BY <1>2 DEF Asked
  <2>2. ipSrc \in Shown /\ ipDst \in Shown
    BY <1>1 DEF Shown
  <2>3. selected \in 0..Len(Ends) /\ resolved \in 0..Len(Ends)
    BY <1>1, <1>4
  <2>4. cache \in [Public \union Special -> Answers \union {"special", Unknown}]
    BY <1>1 DEF Caches
  <2>5. inFlight \subseteq Public /\ died \subseteq Public /\ dialog \in BOOLEAN
    BY <1>1
  <2> QED
    BY <2>1, <2>2, <2>3, <2>4, <2>5 DEF IpTypeOK
<1> QED
  BY <1>1, <1>3, <1>5 DEF IpInv, PendingIsInFlight, DialogOfOnePacket

(* For any addresses and any size of the cache, with any number of lookups *)
(* under way, threads that die and entries evicted: no address is asked    *)
(* for twice, one that the dialog shows as looked up is, and both halves   *)
(* of the dialog are of one packet (resolve_ipinfo, drain_ipinfo_results,  *)
(* IpLookup::insert).                                                      *)
THEOREM LookupsAgree == IpSpec => []LookupSound
<1>1. IpInv => LookupSound
  BY DEF IpInv, LookupSound, OneLookup, Flight, AskedOnce, FlightIs
<1> QED
  BY <1>1, IpInitially, IpNextStep, PTL DEF IpSpec

-----------------------------------------------------------------------------
(* Induction over the naturals, for sets of them.                          *)

LEMMA Naturals ==
  ASSUME NEW S, S \subseteq Nat, 0 \in S, \A n \in S : n + 1 \in S
  PROVE  S = Nat
<1> DEFINE R == OpToRel(<, Nat)
           T == Nat \ S
<1>1. IsWellFoundedOn(R, Nat)
  BY NatLessThanWellFounded
<1>2. \A x, y \in Nat : x < y => <<x, y>> \in R
  BY DEF OpToRel
<1> SUFFICES ASSUME T # {} PROVE FALSE
  OBVIOUS
<1> HIDE DEF R
<1>3. PICK x \in T : \A y \in T : ~ (<<y, x>> \in R)
  <2>1. T \subseteq Nat
    OBVIOUS
  <2> QED
    BY <1>1, <2>1, WFMin, Zenon
<1>4. x - 1 \in Nat /\ x - 1 < x /\ (x - 1) + 1 = x
  BY <1>3
<1>5. x - 1 \notin T
  BY <1>2, <1>3, <1>4
<1> QED
  BY <1>3, <1>4, <1>5

-----------------------------------------------------------------------------
(* The bytes of a text.                                                    *)

Further(u, t, n) == IF n = 0 THEN 0 ELSE u[n - 1] + Bytes[t[n]]
Measures(u, t, k) == u \in [0..k -> Nat] /\ \A n \in 0..k : u[n] = Further(u, t, n)

LEMMA SomethingMeasures ==
  ASSUME NEW t \in Seq(Char)
  PROVE  \E u : Measures(u, t, Len(t))
<1> DEFINE Good(k) == \E u : Measures(u, t, k)
           S == {k \in Nat : k <= Len(t) => Good(k)}
<1>1. 0 \in S
  <2> DEFINE u == [n \in 0..0 |-> 0]
  <2>1. Measures(u, t, 0)
    BY DEF Measures, Further
  <2> QED
    BY <2>1
<1>2. ASSUME NEW k \in S PROVE k + 1 \in S
  <2>1. k \in Nat /\ k + 1 \in Nat
    OBVIOUS
  <2>2. ASSUME k + 1 <= Len(t) PROVE Good(k + 1)
    <3>1. k <= Len(t) /\ k + 1 \in 1..Len(t)
      BY <2>1, <2>2, LenProperties
    <3>2. PICK u : Measures(u, t, k)
      BY <3>1
    <3>3. u \in [0..k -> Nat] /\ u[k] \in Nat /\ \A n \in 0..k : u[n] = Further(u, t, n)
      BY <2>1, <3>2 DEF Measures
    <3>4. Bytes[t[k + 1]] \in Nat
      <4>1. t[k + 1] \in Char
        BY <3>1, ElementOfSeq
      <4> QED
        BY <4>1, CharAssumption
    <3> DEFINE v == [n \in 0..(k + 1) |-> IF n = k + 1 THEN u[k] + Bytes[t[k + 1]] ELSE u[n]]
    <3>5. v \in [0..(k + 1) -> Nat]
      <4>1. \A n \in 0..(k + 1) : n # k + 1 => n \in 0..k
        BY <2>1
      <4> QED
        BY <3>3, <3>4, <4>1
    <3>6. v[k + 1] = u[k] + Bytes[t[k + 1]] /\ \A n \in 0..k : v[n] = u[n]
      BY <2>1
    <3> HIDE DEF v
    <3>7. ASSUME NEW n \in 0..(k + 1) PROVE v[n] = Further(v, t, n)
      <4>1. CASE n = k + 1
        <5>1. n # 0 /\ n - 1 = k /\ k \in 0..k
          BY <2>1, <4>1
        <5> QED
          BY <3>6, <4>1, <5>1 DEF Further
      <4>2. CASE n # k + 1
        <5>1. n \in 0..k /\ (n = 0 \/ n - 1 \in 0..k)
          BY <2>1, <4>2
        <5> QED
          BY <3>3, <3>6, <5>1 DEF Further
      <4> QED
        BY <4>1, <4>2
    <3>8. Measures(v, t, k + 1)
      BY <3>5, <3>7 DEF Measures
    <3> QED
      BY <3>8
  <2> HIDE DEF Good
  <2> QED
    BY <2>1, <2>2
<1>3. S \subseteq Nat
  OBVIOUS
<1> HIDE DEF S
<1>4. S = Nat
  BY <1>1, <1>2, <1>3, Naturals
<1>5. Len(t) \in S /\ Len(t) <= Len(t)
  BY <1>4, LenProperties
<1> QED
  BY <1>5 DEF S

LEMMA OffsetMeasures ==
  ASSUME NEW t \in Seq(Char)
  PROVE  Measures(Offset(t), t, Len(t))
<1> DEFINE w == CHOOSE u : u = [n \in 0..Len(t) |-> Further(u, t, n)]
<1>1. Len(t) \in Nat
  BY LenProperties
<1>2. PICK u : Measures(u, t, Len(t))
  BY SomethingMeasures
<1>3. u \in [0..Len(t) -> Nat] /\ \A n \in 0..Len(t) : u[n] = Further(u, t, n)
  BY <1>2 DEF Measures
<1>4. w = [n \in 0..Len(t) |-> Further(w, t, n)]
  <2>1. u = [n \in 0..Len(t) |-> Further(u, t, n)]
    BY <1>3
  <2> QED
    BY <2>1
<1>5. Offset(t) = w
  BY DEF Offset, Further
<1> HIDE DEF w
<1> DEFINE S == {n \in Nat : n <= Len(t) => w[n] \in Nat}
<1>6. 0 \in S
  <2>1. 0 \in 0..Len(t)
    BY <1>1
  <2>2. w[0] = 0
    BY <1>4, <2>1 DEF Further
  <2> QED
    BY <2>2
<1>7. ASSUME NEW n \in S PROVE n + 1 \in S
  <2>1. n \in Nat /\ n + 1 \in Nat
    OBVIOUS
  <2>2. ASSUME n + 1 <= Len(t) PROVE w[n + 1] \in Nat
    <3>1. n + 1 \in 0..Len(t) /\ n + 1 \in 1..Len(t) /\ n + 1 # 0 /\ (n + 1) - 1 = n /\ w[n] \in Nat
      BY <1>1, <2>1, <2>2
    <3>2. w[n + 1] = w[n] + Bytes[t[n + 1]]
      BY <1>4, <3>1 DEF Further
    <3>3. t[n + 1] \in Char
      BY <3>1, ElementOfSeq
    <3> QED
      BY <3>1, <3>2, <3>3, CharAssumption
  <2> QED
    BY <2>1, <2>2
<1>8. S \subseteq Nat
  OBVIOUS
<1> HIDE DEF S
<1>9. S = Nat
  BY <1>6, <1>7, <1>8, Naturals
<1>10. \A n \in 0..Len(t) : w[n] \in Nat
  BY <1>1, <1>9 DEF S
<1>11. w \in [0..Len(t) -> Nat] /\ \A n \in 0..Len(t) : w[n] = Further(w, t, n)
  BY <1>4, <1>10
<1> QED
  BY <1>5, <1>11 DEF Measures

(* No character is empty: another character begins at another byte.        *)
LEMMA OffsetsRise ==
  ASSUME NEW t \in Seq(Char), NEW i \in 0..Len(t)
  PROVE  \A j \in 0..Len(t) : i < j => Offset(t)[i] < Offset(t)[j]
<1> DEFINE w == Offset(t)
           S == {k \in Nat : i + k + 1 <= Len(t) => w[i] < w[i + k + 1]}
<1>1. Len(t) \in Nat /\ i \in Nat
  BY LenProperties
<1>2. w \in [0..Len(t) -> Nat] /\ \A n \in 0..Len(t) : w[n] = Further(w, t, n)
  BY OffsetMeasures DEF Measures
<1> HIDE DEF w
<1>3. ASSUME NEW n \in 0..Len(t), n + 1 <= Len(t) PROVE w[n] < w[n + 1]
  <2>1. n + 1 \in 0..Len(t) /\ n + 1 \in 1..Len(t) /\ n + 1 # 0 /\ (n + 1) - 1 = n
    BY <1>1, <1>3
  <2>2. w[n + 1] = w[n] + Bytes[t[n + 1]] /\ w[n] \in Nat
    BY <1>2, <2>1 DEF Further
  <2>3. t[n + 1] \in Char
    BY <2>1, ElementOfSeq
  <2>4. Bytes[t[n + 1]] \in Nat \ {0}
    BY <2>3, CharAssumption
  <2> QED
    BY <2>2, <2>4
<1>4. 0 \in S
  BY <1>1, <1>3
<1>5. ASSUME NEW k \in S PROVE k + 1 \in S
  <2>1. k \in Nat /\ k + 1 \in Nat
    OBVIOUS
  <2>2. ASSUME i + (k + 1) + 1 <= Len(t) PROVE w[i] < w[i + (k + 1) + 1]
    <3>1. i + k + 1 \in 0..Len(t) /\ (i + k + 1) + 1 <= Len(t) /\ (i + k + 1) + 1 = i + (k + 1) + 1
      BY <1>1, <2>1, <2>2
    <3>2. w[i + k + 1] < w[(i + k + 1) + 1]
      BY <1>3, <3>1
    <3>3. w[i] < w[i + k + 1]
      BY <1>1, <2>1, <2>2
    <3>4. w[i] \in Nat /\ w[i + k + 1] \in Nat /\ w[(i + k + 1) + 1] \in Nat
      BY <1>1, <1>2, <2>1, <2>2, <3>1
    <3> QED
      BY <3>1, <3>2, <3>3, <3>4
  <2> QED
    BY <2>1, <2>2
<1>6. S \subseteq Nat
  OBVIOUS
<1> HIDE DEF S
<1>7. S = Nat
  BY <1>4, <1>5, <1>6, Naturals
<1>8. ASSUME NEW j \in 0..Len(t), i < j PROVE w[i] < w[j]
  <2>1. j - i - 1 \in Nat /\ i + (j - i - 1) + 1 = j /\ j <= Len(t)
    BY <1>1, <1>8
  <2>2. j - i - 1 \in S
    BY <1>7, <2>1
  <2> QED
    BY <2>1, <2>2 DEF S
<1> QED
  BY <1>8 DEF w

(* char_to_byte_index finds the byte at which the character begins.        *)
LEMMA RightByte ==
  ASSUME NEW t \in Seq(Char), NEW n \in 0..Len(t)
  PROVE  IsBoundary(t, CharToByteIndex(t, n)) /\ CharAt(t, CharToByteIndex(t, n)) = n
<1>1. Len(t) \in Nat /\ n \in Nat
  BY LenProperties
<1>2. CharToByteIndex(t, n) = Offset(t)[n]
  BY <1>1 DEF CharToByteIndex
<1>3. \A i \in 0..Len(t) : Offset(t)[i] = Offset(t)[n] => i = n
  <2>1. \A i, j \in 0..Len(t) : i < j => Offset(t)[i] < Offset(t)[j]
    BY OffsetsRise
  <2>2. \A i \in 0..Len(t) : Offset(t)[i] \in Nat
    BY OffsetMeasures DEF Measures
  <2> QED
    BY <1>1, <2>1, <2>2
<1> QED
  BY <1>2, <1>3 DEF IsBoundary, CharAt

-----------------------------------------------------------------------------
(* A text with a cursor in it.                                             *)

Before(t, n) == SubSeq(t, 1, n)
Behind(t, n) == SubSeq(t, n + 1, Len(t))

LEMMA Halves ==
  ASSUME NEW t \in Seq(Char), NEW n \in 0..Len(t)
  PROVE  /\ Before(t, n) \in Seq(Char) /\ Len(Before(t, n)) = n
         /\ Behind(t, n) \in Seq(Char) /\ Len(Behind(t, n)) = Len(t) - n
         /\ \A k \in 1..n : Before(t, n)[k] = t[k]
         /\ \A k \in 1..(Len(t) - n) : Behind(t, n)[k] = t[n + k]
         /\ Before(t, n) \o Behind(t, n) = t
<1>1. Len(t) \in Nat /\ n \in Nat /\ \A k \in 1..Len(t) : t[k] \in Char
  BY LenProperties
<1>2. /\ Before(t, n) \in Seq(Char) /\ Len(Before(t, n)) = n
      /\ \A k \in 1..n : Before(t, n)[k] = t[k]
  BY <1>1, SubSeqProperties DEF Before
<1>3. /\ Behind(t, n) \in Seq(Char) /\ Len(Behind(t, n)) = Len(t) - n
      /\ \A k \in 1..(Len(t) - n) : Behind(t, n)[k] = t[n + k]
  BY <1>1, SubSeqProperties DEF Behind
<1>4. Before(t, n) \o Behind(t, n) = t
  <2>1. SubSeq(t, 1, n) \o SubSeq(t, n + 1, Len(t)) = SubSeq(t, 1, Len(t))
    <3>1. 1 \in 1..(Len(t) + 1) /\ n \in (1 - 1)..Len(t) /\ Len(t) \in n..Len(t)
      BY <1>1
    <3> QED
      BY <3>1, ConcatAdjacentSubSeq
  <2> QED
    BY <2>1, SubSeqFull DEF Before, Behind
<1> QED
  BY <1>2, <1>3, <1>4

LEMMA Ends0 ==
  ASSUME NEW t \in Seq(Char)
  PROVE  /\ Before(t, 0) = <<>> /\ Behind(t, 0) = t
         /\ Before(t, Len(t)) = t /\ Behind(t, Len(t)) = <<>>
<1>1. Len(t) \in Nat
  BY LenProperties
<1>2. Before(t, 0) = <<>> /\ Behind(t, Len(t)) = <<>>
  BY <1>1, SubSeqEmpty DEF Before, Behind
<1> QED
  BY <1>1, <1>2, SubSeqFull DEF Before, Behind

(* The cursor moves over a character.                                      *)
LEMMA OneFurther ==
  ASSUME NEW t \in Seq(Char), NEW n \in 0..(Len(t) - 1)
  PROVE  /\ t[n + 1] \in Char
         /\ Before(t, n + 1) = Append(Before(t, n), t[n + 1])
         /\ Behind(t, n) = <<t[n + 1]>> \o Behind(t, n + 1)
<1>1. Len(t) \in Nat /\ n \in 0..Len(t) /\ n + 1 \in 0..Len(t) /\ n + 1 \in 1..Len(t)
  BY LenProperties
<1>2. t[n + 1] \in Char
  BY <1>1, ElementOfSeq
<1>3. Before(t, n + 1) = Append(Before(t, n), t[n + 1])
  <2>1. Before(t, n + 1) \in Seq(Char) /\ Len(Before(t, n + 1)) = n + 1
        /\ \A k \in 1..(n + 1) : Before(t, n + 1)[k] = t[k]
    BY <1>1, Halves
  <2>2. Before(t, n) \in Seq(Char) /\ Len(Before(t, n)) = n
        /\ \A k \in 1..n : Before(t, n)[k] = t[k]
    BY <1>1, Halves
  <2>3. /\ Append(Before(t, n), t[n + 1]) \in Seq(Char) /\ Len(Append(Before(t, n), t[n + 1])) = n + 1
        /\ \A k \in 1..n : Append(Before(t, n), t[n + 1])[k] = Before(t, n)[k]
        /\ Append(Before(t, n), t[n + 1])[n + 1] = t[n + 1]
    BY <1>2, <2>2, AppendProperties
  <2>4. \A k \in 1..(n + 1) : Append(Before(t, n), t[n + 1])[k] = t[k]
    BY <1>1, <2>2, <2>3
  <2> QED
    BY <2>1, <2>3, <2>4, SeqEqual
<1>4. Behind(t, n) = <<t[n + 1]>> \o Behind(t, n + 1)
  <2>1. n + 1 \in 1..Len(t) /\ Len(t) \in (n + 1)..Len(t)
    BY <1>1
  <2> QED
    BY <2>1, SubSeqRecursiveFirst DEF Behind
<1> QED
  BY <1>2, <1>3, <1>4

LEMMA FirstOf ==
  ASSUME NEW c \in Char, NEW t \in Seq(Char)
  PROVE  /\ <<c>> \o t \in Seq(Char) /\ <<c>> \o t # <<>>
         /\ Head(<<c>> \o t) = c /\ Tail(<<c>> \o t) = t
<1> DEFINE u == <<c>> \o t
<1>1. <<c>> \in Seq(Char) /\ Len(<<c>>) = 1 /\ <<c>>[1] = c /\ Len(t) \in Nat
  BY LenProperties
<1>2. /\ u \in Seq(Char) /\ Len(u) = 1 + Len(t) /\ u[1] = c
      /\ \A k \in 1..(1 + Len(t)) : u[k] = IF k <= 1 THEN <<c>>[k] ELSE t[k - 1]
  BY <1>1, ConcatProperties
<1> HIDE DEF u
<1>3. u # <<>>
  BY <1>1, <1>2
<1>4. Tail(u) \in Seq(Char) /\ Len(Tail(u)) = Len(u) - 1 /\ \A k \in 1..Len(Tail(u)) : Tail(u)[k] = u[k + 1]
  BY <1>2, <1>3, HeadTailProperties
<1>5. \A k \in 1..Len(t) : Tail(u)[k] = t[k]
  BY <1>1, <1>2, <1>4
<1>6. Tail(u) = t
  BY <1>1, <1>2, <1>4, <1>5, SeqEqual
<1>7. Head(u) = c
  BY <1>2, <1>3
<1> QED
  BY <1>2, <1>3, <1>6, <1>7 DEF u

LEMMA LastOf ==
  ASSUME NEW c \in Char, NEW t \in Seq(Char)
  PROVE  /\ Append(t, c) \in Seq(Char) /\ Append(t, c) # <<>>
         /\ Front(Append(t, c)) = t /\ Last(Append(t, c)) = c
<1> DEFINE u == Append(t, c)
<1>1. /\ u \in Seq(Char) /\ Len(u) = Len(t) + 1 /\ u[Len(t) + 1] = c /\ Len(t) \in Nat
      /\ \A k \in 1..Len(t) : u[k] = t[k]
  BY AppendProperties, LenProperties
<1> HIDE DEF u
<1>2. u # <<>>
  BY <1>1
<1>3. Front(u) = SubSeq(u, 1, Len(t))
  BY <1>1 DEF Front
<1>4. \A k \in 1..Len(t) : u[k] \in Char
  BY <1>1, LenProperties
<1>5. SubSeq(u, 1, Len(t)) \in Seq(Char) /\ Len(SubSeq(u, 1, Len(t))) = Len(t)
      /\ \A k \in 1..Len(t) : SubSeq(u, 1, Len(t))[k] = u[k]
  BY <1>1, <1>4, SubSeqProperties
<1>6. Front(u) = t
  BY <1>1, <1>3, <1>5, SeqEqual
<1>7. Last(u) = c
  BY <1>1 DEF Last
<1> QED
  BY <1>1, <1>2, <1>6, <1>7 DEF u

(* A text put together of two parts is cut between them again.             *)
LEMMA CutAgain ==
  ASSUME NEW b \in Seq(Char), NEW a \in Seq(Char)
  PROVE  /\ b \o a \in Seq(Char) /\ Len(b \o a) = Len(b) + Len(a) /\ Len(b) \in 0..Len(b \o a)
         /\ Before(b \o a, Len(b)) = b /\ Behind(b \o a, Len(b)) = a
<1> DEFINE t == b \o a
<1>1. Len(b) \in Nat /\ Len(a) \in Nat
  BY LenProperties
<1>2. /\ t \in Seq(Char) /\ Len(t) = Len(b) + Len(a)
      /\ \A k \in 1..(Len(b) + Len(a)) : t[k] = IF k <= Len(b) THEN b[k] ELSE a[k - Len(b)]
  BY ConcatProperties
<1> HIDE DEF t
<1>3. Len(b) \in 0..Len(t) /\ Len(t) - Len(b) = Len(a)
  BY <1>1, <1>2
<1>0. /\ Before(t, Len(b)) \in Seq(Char) /\ Len(Before(t, Len(b))) = Len(b)
      /\ Behind(t, Len(b)) \in Seq(Char) /\ Len(Behind(t, Len(b))) = Len(t) - Len(b)
      /\ \A k \in 1..Len(b) : Before(t, Len(b))[k] = t[k]
      /\ \A k \in 1..(Len(t) - Len(b)) : Behind(t, Len(b))[k] = t[Len(b) + k]
  BY <1>2, <1>3, Halves
<1>4. /\ Before(t, Len(b)) \in Seq(Char) /\ Len(Before(t, Len(b))) = Len(b)
      /\ Behind(t, Len(b)) \in Seq(Char) /\ Len(Behind(t, Len(b))) = Len(a)
      /\ \A k \in 1..Len(b) : Before(t, Len(b))[k] = t[k]
      /\ \A k \in 1..Len(a) : Behind(t, Len(b))[k] = t[Len(b) + k]
  BY <1>0, <1>3
<1>5. \A k \in 1..Len(b) : Before(t, Len(b))[k] = b[k]
  BY <1>1, <1>2, <1>4
<1>6. ASSUME NEW k \in 1..Len(a) PROVE Behind(t, Len(b))[k] = a[k]
  <2>1. Len(b) + k \in 1..(Len(b) + Len(a)) /\ ~(Len(b) + k <= Len(b)) /\ (Len(b) + k) - Len(b) = k
    BY <1>1
  <2>2. t[Len(b) + k] = a[(Len(b) + k) - Len(b)]
    BY <1>2, <2>1
  <2> QED
    BY <1>4, <2>1, <2>2
<1>7. Before(t, Len(b)) = b
  BY <1>4, <1>5, SeqEqual
<1>8. Behind(t, Len(b)) = a
  BY <1>4, <1>6, SeqEqual
<1> QED
  BY <1>2, <1>3, <1>7, <1>8 DEF t

-----------------------------------------------------------------------------
(* The line editors.                                                       *)

EntryInv == EntryTypeOK /\ NoCutInsideChar /\ ShownFilterInForce

(* A key puts a text together of two parts, with the cursor between them.  *)
Puts(b, a) == text' = b \o a /\ cursor' = Len(b) /\ crashed' = FALSE

(* What a key of a zipper makes of the two parts of the text.              *)
Edits(b, a, bb, aa) ==
  \/ \E c \in Char : bb = Append(b, c) /\ aa = a
  \/ b # <<>> /\ bb = Front(b) /\ aa = a
  \/ a # <<>> /\ aa = Tail(a) /\ bb = b
  \/ b # <<>> /\ bb = Front(b) /\ aa = <<Last(b)>> \o a
  \/ a # <<>> /\ bb = Append(b, Head(a)) /\ aa = Tail(a)
  \/ bb = <<>> /\ aa = b \o a
  \/ bb = b \o a /\ aa = <<>>
  \/ bb = b /\ aa = a

Zips ==
  \E bb, aa \in Seq(Char) : Puts(bb, aa) /\ Edits(Before(text, cursor), Behind(text, cursor), bb, aa)

InLine ==
  /\ EntryInv /\ editing
  /\ text \in Seq(Char) /\ cursor \in 0..Len(text) /\ Len(text) \in Nat /\ crashed = FALSE

LEMMA TypeZips ==
  ASSUME InLine, NEW c \in Char, TypeChar(c)
  PROVE  Zips
<1> DEFINE b == Before(text, cursor)  a == Behind(text, cursor)
<1>1. /\ text \in Seq(Char) /\ cursor \in 0..Len(text) /\ cursor \in Nat /\ Len(text) \in Nat
      /\ b \in Seq(Char) /\ a \in Seq(Char) /\ Len(b) = cursor
  BY Halves DEF InLine
<1>2. text' = InsertAt(text, cursor + 1, c) /\ crashed' = FALSE /\ cursor' = cursor + 1
  BY <1>1, RightByte DEF TypeChar, InsertChar, InsertAtByte
<1>3. InsertAt(text, cursor + 1, c) = b \o <<c>> \o a
  <2>1. (cursor + 1) - 1 = cursor
    BY <1>1
  <2> QED
    BY <2>1, Zenon DEF InsertAt, Before, Behind
<1>4. Append(b, c) \in Seq(Char) /\ Len(Append(b, c)) = cursor + 1 /\ Append(b, c) = b \o <<c>>
  BY <1>1, AppendProperties, AppendIsConcat
<1> HIDE DEF a, b
<1>5. Puts(Append(b, c), a) /\ Edits(b, a, Append(b, c), a)
  BY <1>2, <1>3, <1>4 DEF Puts, Edits
<1> QED
  BY <1>1, <1>4, <1>5 DEF Zips, a, b

(* The cursor one character back.                                          *)
LEMMA OneBack ==
  ASSUME NEW t \in Seq(Char), NEW n \in 1..Len(t)
  PROVE  /\ Before(t, n) # <<>> /\ Before(t, n - 1) = Front(Before(t, n))
         /\ Behind(t, n - 1) = <<Last(Before(t, n))>> \o Behind(t, n)
<1>1. Len(t) \in Nat /\ n - 1 \in 0..(Len(t) - 1) /\ n - 1 \in 0..Len(t) /\ (n - 1) + 1 = n
  BY LenProperties
<1>2. /\ t[n] \in Char /\ Before(t, n) = Append(Before(t, n - 1), t[n])
      /\ Behind(t, n - 1) = <<t[n]>> \o Behind(t, n)
  BY <1>1, OneFurther
<1>3. Before(t, n - 1) \in Seq(Char)
  BY <1>1, Halves
<1> QED
  BY <1>2, <1>3, LastOf

LEMMA OneAhead ==
  ASSUME NEW t \in Seq(Char), NEW n \in 0..(Len(t) - 1)
  PROVE  /\ Behind(t, n) # <<>> /\ Behind(t, n + 1) = Tail(Behind(t, n))
         /\ Before(t, n + 1) = Append(Before(t, n), Head(Behind(t, n)))
<1>1. Len(t) \in Nat /\ n + 1 \in 0..Len(t)
  BY LenProperties
<1>2. /\ t[n + 1] \in Char /\ Before(t, n + 1) = Append(Before(t, n), t[n + 1])
      /\ Behind(t, n) = <<t[n + 1]>> \o Behind(t, n + 1)
  BY OneFurther
<1>3. Behind(t, n + 1) \in Seq(Char)
  BY <1>1, Halves
<1> QED
  BY <1>2, <1>3, FirstOf

LEMMA BackspaceZips ==
  ASSUME InLine, BackspaceKey
  PROVE  Zips
<1> DEFINE b == Before(text, cursor)  a == Behind(text, cursor)  bb == Before(text, cursor - 1)
<1>1. /\ text \in Seq(Char) /\ cursor \in 0..Len(text) /\ cursor \in 1..Len(text) /\ cursor - 1 \in 0..Len(text)
      /\ cursor - 1 < Len(text) /\ (cursor - 1) + 1 = cursor /\ Len(text) \in Nat
  BY DEF InLine, BackspaceKey
<1>2. text' = RemoveAt(text, cursor) /\ crashed' = FALSE /\ cursor' = cursor - 1
  BY <1>1, RightByte DEF BackspaceKey, RemoveChar, RemoveAtByte
<1>3. RemoveAt(text, cursor) = bb \o a
  BY DEF RemoveAt, Before, Behind
<1>4. b \in Seq(Char) /\ a \in Seq(Char) /\ bb \in Seq(Char) /\ Len(bb) = cursor - 1
  BY <1>1, Halves
<1>5. b # <<>> /\ bb = Front(b)
  BY <1>1, OneBack
<1> HIDE DEF a, b, bb
<1>6. Puts(bb, a) /\ Edits(b, a, bb, a)
  BY <1>2, <1>3, <1>4, <1>5 DEF Puts, Edits
<1> QED
  BY <1>4, <1>6 DEF Zips, a, b

LEMMA DeleteZips ==
  ASSUME InLine, DeleteKey
  PROVE  Zips
<1> DEFINE b == Before(text, cursor)  a == Behind(text, cursor)  aa == Behind(text, cursor + 1)
<1>1. /\ text \in Seq(Char) /\ cursor \in 0..Len(text) /\ cursor \in 0..(Len(text) - 1)
      /\ cursor + 1 \in 0..Len(text) /\ cursor < Len(text) /\ cursor \in Nat /\ Len(text) \in Nat
  BY DEF InLine, DeleteKey
<1>2. text' = RemoveAt(text, cursor + 1) /\ crashed' = FALSE /\ cursor' = cursor
  BY <1>1, RightByte DEF DeleteKey, RemoveChar, RemoveAtByte
<1>3. RemoveAt(text, cursor + 1) = b \o aa
  <2>1. (cursor + 1) - 1 = cursor
    BY <1>1
  <2> QED
    BY <2>1 DEF RemoveAt, Before, Behind
<1>4. b \in Seq(Char) /\ a \in Seq(Char) /\ aa \in Seq(Char) /\ Len(b) = cursor
  BY <1>1, Halves
<1>5. a # <<>> /\ aa = Tail(a)
  BY <1>1, OneAhead
<1> HIDE DEF a, b, aa
<1>6. Puts(b, aa) /\ Edits(b, a, b, aa)
  BY <1>2, <1>3, <1>4, <1>5 DEF Puts, Edits
<1> QED
  BY <1>4, <1>6 DEF Zips, a, b

LEMMA MoveZips ==
  ASSUME InLine, LeftKey \/ RightKey \/ HomeKey \/ EndKey
  PROVE  Zips
<1> DEFINE b == Before(text, cursor)  a == Behind(text, cursor)
<1>0. /\ text \in Seq(Char) /\ cursor \in 0..Len(text) /\ Len(text) \in Nat /\ cursor \in Nat
      /\ crashed = FALSE
  BY DEF InLine
<1>1. /\ text \in Seq(Char) /\ cursor \in 0..Len(text) /\ Len(text) \in Nat /\ cursor \in Nat
      /\ crashed = FALSE
      /\ b \in Seq(Char) /\ a \in Seq(Char) /\ b \o a = text
  BY <1>0, Halves
<1>2. ASSUME NEW n \in 0..Len(text), MoveTo(n), Edits(b, a, Before(text, n), Behind(text, n)) PROVE Zips
  <2>1. Before(text, n) \in Seq(Char) /\ Behind(text, n) \in Seq(Char)
        /\ Len(Before(text, n)) = n /\ Before(text, n) \o Behind(text, n) = text
    BY <1>1, Halves
  <2>2. Puts(Before(text, n), Behind(text, n))
    BY <1>1, <1>2, <2>1 DEF MoveTo, Puts
  <2> QED
    BY <1>2, <2>1, <2>2 DEF Zips
<1>3. CASE LeftKey
  <2>1. CASE cursor > 0
    <3>1. MoveTo(cursor - 1) /\ cursor \in 1..Len(text) /\ cursor - 1 \in 0..Len(text)
      BY <1>1, <1>3, <2>1 DEF LeftKey
    <3>2. Edits(b, a, Before(text, cursor - 1), Behind(text, cursor - 1))
      BY <1>1, <3>1, OneBack DEF Edits
    <3> QED
      BY <1>2, <3>1, <3>2
  <2>2. CASE ~(cursor > 0)
    <3>1. cursor = 0 /\ MoveTo(cursor)
      BY <1>1, <1>3, <2>2 DEF LeftKey
    <3> QED
      BY <1>1, <1>2, <3>1 DEF Edits
  <2> QED
    BY <2>1, <2>2
<1>4. CASE RightKey
  <2>1. CASE cursor < Len(text)
    <3>1. MoveTo(cursor + 1) /\ cursor \in 0..(Len(text) - 1) /\ cursor + 1 \in 0..Len(text)
      BY <1>1, <1>4, <2>1 DEF RightKey
    <3>2. Edits(b, a, Before(text, cursor + 1), Behind(text, cursor + 1))
      BY <1>1, <3>1, OneAhead DEF Edits
    <3> QED
      BY <1>2, <3>1, <3>2
  <2>2. CASE ~(cursor < Len(text))
    <3>1. cursor = Len(text) /\ MoveTo(cursor)
      BY <1>1, <1>4, <2>2 DEF RightKey
    <3> QED
      BY <1>1, <1>2, <3>1 DEF Edits
  <2> QED
    BY <2>1, <2>2
<1>5. CASE HomeKey
  <2>1. MoveTo(0) /\ 0 \in 0..Len(text)
    BY <1>1, <1>5 DEF HomeKey
  <2>2. Edits(b, a, Before(text, 0), Behind(text, 0))
    BY <1>1, Ends0 DEF Edits
  <2> QED
    BY <1>2, <2>1, <2>2
<1>6. CASE EndKey
  <2>1. MoveTo(Len(text)) /\ Len(text) \in 0..Len(text)
    BY <1>1, <1>6 DEF EndKey
  <2>2. Edits(b, a, Before(text, Len(text)), Behind(text, Len(text)))
    BY <1>1, Ends0 DEF Edits
  <2> QED
    BY <1>2, <2>1, <2>2
<1> QED
  BY <1>3, <1>4, <1>5, <1>6

LEMMA LineKeyZips ==
  ASSUME EntryInv, LineKey
  PROVE  editing /\ InLine /\ Zips
<1>1. editing /\ crashed = FALSE
  BY DEF LineKey, TypeChar, BackspaceKey, DeleteKey, LeftKey, RightKey, HomeKey, EndKey, MoveTo, Editing,
         EntryInv, EntryTypeOK
<1>2. InLine
  <2>1. text \in Seq(Char) /\ cursor \in Nat /\ cursor <= Len(text)
    BY <1>1 DEF EntryInv, EntryTypeOK, NoCutInsideChar
  <2>2. Len(text) \in Nat
    BY <2>1, LenProperties
  <2> QED
    BY <1>1, <2>1, <2>2 DEF InLine
<1> QED
  BY <1>1, <1>2, TypeZips, BackspaceZips, DeleteZips, MoveZips DEF LineKey

(* What any step leaves: a filter in force that is the one that is shown,  *)
(* and a line in which a key zips, or that was put in whole, or that is    *)
(* not edited.                                                             *)
FilterSound ==
  active \in BOOLEAN /\ activeText \in Seq(Char) /\ filterError \in BOOLEAN /\ ShownFilterInForce

LineMoves ==
  \/ editing /\ editing' /\ Zips /\ InLine
  \/ editing' /\ (\E t \in Seq(Char) : text' = t /\ cursor' = Len(t) /\ crashed' = FALSE)
  \/ editing' = FALSE /\ text' \in Seq(Char) /\ cursor' \in Nat /\ crashed' = FALSE

LEMMA ApplySound ==
  ASSUME NEW t, ApplyFilter(t)
  PROVE  FilterSound'
<1>1. CASE t \in Valid
  <2>1. active' = TRUE /\ activeText' = t /\ filterError' = FALSE
    BY <1>1 DEF ApplyFilter
  <2>2. t # <<>> /\ t \in Seq(Char)
    BY <1>1, NoEmptyFilter, TextAssumption
  <2> QED
    BY <1>1, <2>1, <2>2 DEF FilterSound, ShownFilterInForce
<1>2. CASE t \notin Valid
  <2>1. active' = FALSE /\ activeText' = <<>> /\ filterError' = TRUE
    BY <1>2 DEF ApplyFilter
  <2> QED
    BY <2>1, EmptySeq DEF FilterSound, ShownFilterInForce
<1> QED
  BY <1>1, <1>2

LEMMA EntryActions ==
  ASSUME EntryInv, EntryNext
  PROVE  LineMoves /\ FilterSound' /\ editor' = editor
<1> SUFFICES LineMoves /\ FilterSound'
  BY DEF EntryNext
<1>1. /\ text \in Seq(Char) /\ cursor \in Nat /\ crashed = FALSE /\ FilterSound /\ <<>> \in Seq(Char)
      /\ Len(<<>>) = 0 /\ editor' = editor
  BY EmptySeq DEF EntryInv, EntryTypeOK, NoCutInsideChar, FilterSound, EntryNext
<1>2. ASSUME UNCHANGED filterVars PROVE FilterSound'
  <2>1. UNCHANGED <<active, activeText, filterError>>
    BY <1>2 DEF filterVars
  <2> QED
    BY <1>1, <2>1 DEF FilterSound, ShownFilterInForce
<1>3. ASSUME LineKey, UNCHANGED <<editing, filterVars>> PROVE LineMoves /\ FilterSound'
  BY <1>2, <1>3, LineKeyZips DEF EntryInv, LineMoves
<1>4. ASSUME NEW t \in Seq(Char), FillIn(t), editing' PROVE LineMoves
  BY <1>4 DEF FillIn, LineMoves
<1>5. ASSUME editing' = FALSE, UNCHANGED lineVars PROVE LineMoves
  <2>1. UNCHANGED <<text, cursor, crashed>>
    BY <1>5 DEF lineVars
  <2> QED
    BY <1>1, <1>5, <2>1 DEF LineMoves
<1>6. CASE SaveKey \/ OpenKey \/ ExportKey \/ FilterKey
  BY <1>3, <1>6 DEF SaveKey, OpenKey, ExportKey, FilterKey
<1>7. CASE SaveShow
  BY <1>2, <1>4, <1>7, TextAssumption DEF SaveShow
<1>8. CASE OpenShow
  BY <1>1, <1>2, <1>4, <1>8 DEF OpenShow
<1>9. CASE ExportShow
  BY <1>2, <1>4, <1>9, TextAssumption DEF ExportShow
<1>10. CASE SaveClose \/ ExportBack \/ \E enter \in BOOLEAN : OpenClose(enter)
  <2>1. editing' = FALSE /\ UNCHANGED <<lineVars, filterVars>>
    BY <1>10 DEF SaveClose, ExportBack, OpenClose
  <2> QED
    BY <1>2, <1>5, <2>1
<1>11. CASE FilterShow
  <2>1. editing' /\ FillIn(activeText) /\ filterError' = FALSE /\ active' = active /\ activeText' = activeText
    BY <1>11 DEF FilterShow
  <2>2. LineMoves
    BY <1>1, <1>4, <2>1 DEF FilterSound
  <2> QED
    BY <1>1, <2>1, <2>2 DEF FilterSound, ShownFilterInForce
<1>12. ASSUME ClearFilter, editing' = FALSE PROVE LineMoves /\ FilterSound'
  <2>1. /\ active' = FALSE /\ activeText' = <<>> /\ filterError' = FALSE
        /\ text' = <<>> /\ cursor' = 0 /\ crashed' = FALSE
    BY <1>1, <1>12 DEF ClearFilter, FillIn
  <2> QED
    BY <1>1, <1>12, <2>1 DEF FilterSound, ShownFilterInForce, LineMoves
<1>13. CASE FilterEnter
  <2>1. editing' = FALSE /\ (ClearFilter \/ (ApplyFilter(Trim(text)) /\ UNCHANGED lineVars))
    BY <1>13 DEF FilterEnter
  <2> QED
    BY <1>5, <1>12, <2>1, ApplySound
<1>14. CASE FilterEsc
  <2>1. /\ editing' = FALSE /\ filterError' = FALSE /\ text' = activeText
        /\ UNCHANGED <<cursor, crashed, active, activeText>>
    BY <1>14 DEF FilterEsc
  <2> QED
    BY <1>1, <2>1 DEF FilterSound, ShownFilterInForce, LineMoves
<1>15. ASSUME NEW t \in Presets, FilterPreset(t) PROVE LineMoves /\ FilterSound'
  <2>1. ~editing /\ ApplyFilter(t) /\ text' = t /\ UNCHANGED <<editing, cursor, crashed>>
    BY <1>15 DEF FilterPreset
  <2>2. t \in Seq(Char) /\ editing' = FALSE
    BY <2>1, TextAssumption DEF EntryInv, EntryTypeOK
  <2> QED
    BY <1>1, <2>1, <2>2, ApplySound DEF LineMoves
<1>16. CASE FileOpened
  <2>1. ClearFilter /\ editing' = FALSE
    BY <1>16 DEF FileOpened, EntryInv, EntryTypeOK
  <2> QED
    BY <1>12, <2>1
<1> QED
  BY <1>1, <1>6, <1>7, <1>8, <1>9, <1>10, <1>11, <1>13, <1>14, <1>15, <1>16 DEF EntryNext, FilterNext

LEMMA EntryNextStep == EntryInv /\ [EntryNext]_entryVars => EntryInv'
<1> SUFFICES ASSUME EntryInv, [EntryNext]_entryVars PROVE EntryInv'
  OBVIOUS
<1>1. CASE UNCHANGED entryVars
  BY <1>1 DEF EntryInv, EntryTypeOK, NoCutInsideChar, ShownFilterInForce, entryVars, lineVars, filterVars
<1>2. CASE EntryNext
  <2>1. LineMoves /\ FilterSound' /\ editor' = editor
    BY <1>2, EntryActions
  <2>2. editing' \in BOOLEAN /\ crashed' = FALSE /\ text' \in Seq(Char) /\ cursor' \in Nat
        /\ (editing' => cursor' <= Len(text'))
    <3>1. CASE editing /\ editing' /\ Zips /\ InLine
      <4>1. PICK bb, aa \in Seq(Char) : text' = bb \o aa /\ cursor' = Len(bb) /\ crashed' = FALSE
        BY <3>1 DEF Zips, Puts
      <4>2. bb \o aa \in Seq(Char) /\ Len(bb) \in 0..Len(bb \o aa) /\ Len(bb) \in Nat /\ Len(bb \o aa) \in Nat
        BY CutAgain, LenProperties
      <4> QED
        BY <3>1, <4>1, <4>2
    <3>2. ASSUME editing', NEW t \in Seq(Char), text' = t, cursor' = Len(t), crashed' = FALSE
          PROVE  editing' \in BOOLEAN /\ crashed' = FALSE /\ text' \in Seq(Char) /\ cursor' \in Nat
                 /\ (editing' => cursor' <= Len(text'))
      BY <3>2, LenProperties
    <3>3. CASE editing' = FALSE /\ text' \in Seq(Char) /\ cursor' \in Nat /\ crashed' = FALSE
      BY <3>3
    <3> QED
      BY <2>1, <3>1, <3>2, <3>3 DEF LineMoves
  <2>3. EntryTypeOK'
    BY <2>1, <2>2 DEF EntryInv, EntryTypeOK, FilterSound
  <2>4. NoCutInsideChar'
    BY <2>2 DEF NoCutInsideChar
  <2> QED
    BY <2>1, <2>3, <2>4 DEF EntryInv, FilterSound
<1> QED
  BY <1>1, <1>2

LEMMA EntryInitially == EntryInit => EntryInv
<1> SUFFICES ASSUME EntryInit PROVE EntryInv
  OBVIOUS
<1>1. <<>> \in Seq(Char)
  BY EmptySeq
<1>2. EntryTypeOK
  BY <1>1 DEF EntryInit, EntryTypeOK
<1> QED
  BY <1>2 DEF EntryInit, EntryInv, NoCutInsideChar, ShownFilterInForce

(* For any characters, of any number of bytes each, and any texts: no key  *)
(* cuts a string inside a character or past its end (char_to_byte_index),  *)
(* the cursor stays in the text, and the text shown as a filter is the one *)
(* in force (apply_filter, clear_filter).                                  *)
THEOREM EditorsStayInText == EntrySpec => []EntrySound
<1>1. EntryInv => EntrySound
  BY DEF EntryInv, EntrySound
<1> QED
  BY <1>1, EntryInitially, EntryNextStep, PTL DEF EntrySpec

-----------------------------------------------------------------------------
(* The line editors implement the zipper.                                  *)

PartBefore == IF editing THEN SubSeq(text, 1, cursor) ELSE <<>>
PartAfter == IF editing THEN SubSeq(text, cursor + 1, Len(text)) ELSE <<>>

LEMMA EditIsStep ==
  ASSUME Edits(PartBefore, PartAfter, PartBefore', PartAfter')
         \/ (PartBefore' \in Seq(Char) /\ PartAfter' = <<>>)
  PROVE  Line!EditNext \/ UNCHANGED <<PartBefore, PartAfter>>
<1> USE DEF PartBefore, PartAfter
<1>1. CASE PartBefore' \in Seq(Char) /\ PartAfter' = <<>>
  <2>1. Line!Fill
    BY <1>1 DEF Line!Fill
  <2> QED
    BY <2>1 DEF Line!EditNext
<1>2. CASE \E c \in Char : PartBefore' = Append(PartBefore, c) /\ PartAfter' = PartAfter
  <2>1. PICK c \in Char : PartBefore' = Append(PartBefore, c) /\ PartAfter' = PartAfter
    BY <1>2
  <2>2. Line!Type(c)
    BY <2>1 DEF Line!Type
  <2> QED
    BY <2>2 DEF Line!EditNext
<1>3. CASE PartBefore # <<>> /\ PartBefore' = Front(PartBefore) /\ PartAfter' = PartAfter
  <2>1. Line!Backspace
    BY <1>3 DEF Line!Backspace, Line!Front, Front
  <2> QED
    BY <2>1 DEF Line!EditNext
<1>4. CASE PartAfter # <<>> /\ PartAfter' = Tail(PartAfter) /\ PartBefore' = PartBefore
  <2>1. Line!Delete
    BY <1>4 DEF Line!Delete
  <2> QED
    BY <2>1 DEF Line!EditNext
<1>5. CASE /\ PartBefore # <<>> /\ PartBefore' = Front(PartBefore)
           /\ PartAfter' = <<Last(PartBefore)>> \o PartAfter
  <2>1. Line!Left
    BY <1>5 DEF Line!Left, Line!Front, Front, Line!Last, Last
  <2> QED
    BY <2>1 DEF Line!EditNext
<1>6. CASE PartAfter # <<>> /\ PartBefore' = Append(PartBefore, Head(PartAfter)) /\ PartAfter' = Tail(PartAfter)
  <2>1. Line!Right
    BY <1>6 DEF Line!Right
  <2> QED
    BY <2>1 DEF Line!EditNext
<1>7. CASE PartBefore' = <<>> /\ PartAfter' = PartBefore \o PartAfter
  <2>1. Line!Home
    BY <1>7 DEF Line!Home
  <2> QED
    BY <2>1 DEF Line!EditNext
<1>8. CASE PartBefore' = PartBefore \o PartAfter /\ PartAfter' = <<>>
  <2>1. Line!End
    BY <1>8 DEF Line!End
  <2> QED
    BY <2>1 DEF Line!EditNext
<1>9. CASE PartBefore' = PartBefore /\ PartAfter' = PartAfter
  BY <1>9
<1> HIDE DEF PartBefore, PartAfter
<1> QED
  BY <1>1, <1>2, <1>3, <1>4, <1>5, <1>6, <1>7, <1>8, <1>9 DEF Edits

LEMMA LineStep == EntryInv /\ [EntryNext]_entryVars => [Line!EditNext]_<<PartBefore, PartAfter>>
<1> SUFFICES ASSUME EntryInv, [EntryNext]_entryVars
             PROVE  Line!EditNext \/ UNCHANGED <<PartBefore, PartAfter>>
  OBVIOUS
<1>1. CASE UNCHANGED entryVars
  BY <1>1 DEF entryVars, lineVars, PartBefore, PartAfter
<1>2. CASE EntryNext
  <2>1. LineMoves
    BY <1>2, EntryActions
  <2>2. CASE editing /\ editing' /\ Zips /\ InLine
    <3>1. PICK bb, aa \in Seq(Char) : /\ text' = bb \o aa /\ cursor' = Len(bb)
                                      /\ Edits(Before(text, cursor), Behind(text, cursor), bb, aa)
      BY <2>2 DEF Zips, Puts
    <3>2. Before(bb \o aa, Len(bb)) = bb /\ Behind(bb \o aa, Len(bb)) = aa
      BY CutAgain
    <3>3. PartBefore = Before(text, cursor) /\ PartAfter = Behind(text, cursor)
      BY <2>2 DEF PartBefore, PartAfter, Before, Behind
    <3>4. PartBefore' = bb /\ PartAfter' = aa
      BY <2>2, <3>1, <3>2 DEF PartBefore, PartAfter, Before, Behind
    <3> QED
      BY <3>1, <3>3, <3>4, EditIsStep
  <2>3. ASSUME editing', NEW t \in Seq(Char), text' = t, cursor' = Len(t)
        PROVE  Line!EditNext \/ UNCHANGED <<PartBefore, PartAfter>>
    <3>1. PartBefore' = Before(t, Len(t)) /\ PartAfter' = Behind(t, Len(t))
      BY <2>3 DEF PartBefore, PartAfter, Before, Behind
    <3>2. PartBefore' = t /\ PartAfter' = <<>>
      BY <3>1, Ends0
    <3> QED
      BY <3>2, EditIsStep
  <2>4. CASE editing' = FALSE
    <3>1. PartBefore' = <<>> /\ PartAfter' = <<>>
      BY <2>4 DEF PartBefore, PartAfter
    <3> QED
      BY <3>1, EmptySeq, EditIsStep
  <2> QED
    BY <2>1, <2>2, <2>3, <2>4 DEF LineMoves
<1> QED
  BY <1>1, <1>2

(* Every key of an editor does to the text and its cursor what it does to  *)
(* a text in two parts, whatever the characters are and however many bytes *)
(* they take: the editors implement the abstract module Zipper             *)
(* (char_to_byte_index, String::insert, String::remove).                   *)
THEOREM EditorIsZipper == EntrySpec => IsZipper
<1>1. EntryInit => PartBefore \in Seq(Char) /\ PartAfter = <<>>
  BY EmptySeq DEF EntryInit, PartBefore, PartAfter
<1>2. EntryInv /\ [EntryNext]_entryVars => [Line!EditNext]_<<PartBefore, PartAfter>>
  BY LineStep
<1>3. EntryInv /\ [EntryNext]_entryVars => EntryInv'
  BY EntryNextStep
<1>4. EntrySpec => PartBefore \in Seq(Char) /\ PartAfter = <<>> /\ [][Line!EditNext]_<<PartBefore, PartAfter>>
  BY <1>1, <1>2, <1>3, EntryInitially, PTL DEF EntrySpec
<1> QED
  BY <1>4 DEF IsZipper, Line!EditSpec, PartBefore, PartAfter

-----------------------------------------------------------------------------
(* The detail tree.                                                        *)

Span == Nat \X Nat
Layer == [key : Keys, fields : Seq(Span \union {NoRange})]

LEMMA Trees ==
  ASSUME NEW t \in Range(Fast) \union Range(Deep) \union {<<>>}
  PROVE  t \in Seq(Layer)
<1>1. Range(Fast) \union Range(Deep) \subseteq Seq(Layer)
  BY TreeAssumption, ShapeAssumption DEF Range, Packets, Layer, Span
<1>2. <<>> \in Seq(Layer)
  BY EmptySeq
<1> QED
  BY <1>1, <1>2

(* A set of numbers with a bound has a greatest one, and a set of numbers  *)
(* a least one.                                                            *)
LEMMA LeastExists ==
  ASSUME NEW S \in SUBSET Nat, S # {}
  PROVE  Least(S) \in S /\ \A y \in S : Least(S) <= y
<1> DEFINE R == OpToRel(<, Nat)
<1>1. IsWellFoundedOn(R, Nat)
  BY NatLessThanWellFounded
<1>2. \A x, y \in Nat : x < y => <<x, y>> \in R
  BY DEF OpToRel
<1> HIDE DEF R
<1>3. PICK x \in S : \A y \in S : ~ (<<y, x>> \in R)
  BY <1>1, WFMin, Zenon
<1>4. ASSUME NEW y \in S PROVE x <= y
  <2>1. x \in Nat /\ y \in Nat
    OBVIOUS
  <2>2. ~(y < x)
    BY <1>2, <1>3, <2>1
  <2> QED
    BY <2>1, <2>2
<1>5. \E z \in S : \A y \in S : z <= y
  BY <1>4
<1> QED
  BY <1>5, Zenon DEF Least

LEMMA GreatestExists ==
  ASSUME NEW S \in SUBSET Nat, S # {}, NEW b \in Nat, \A x \in S : x <= b
  PROVE  Greatest(S) \in S /\ \A y \in S : y <= Greatest(S)
<1> DEFINE T == {b - x : x \in S}
<1>2. T \in SUBSET Nat /\ T # {}
  <2>1. \A x \in S : b - x \in Nat
    OBVIOUS
  <2> QED
    BY <2>1
<1>3. Least(T) \in T /\ \A y \in T : Least(T) <= y
  <2> HIDE DEF T
  <2> QED
    BY <1>2, LeastExists
<1>4. PICK x \in S : Least(T) = b - x
  BY <1>3
<1>5. ASSUME NEW y \in S PROVE y <= x
  <2>1. b - y \in T /\ b - y \in Nat /\ b - x \in Nat
    OBVIOUS
  <2>2. b - x <= b - y
    BY <1>3, <1>4, <2>1
  <2> QED
    BY <2>2
<1>6. \E z \in S : \A y \in S : z >= y
  BY <1>5
<1>7. Greatest(S) \in S /\ \A y \in S : Greatest(S) >= y
  BY <1>6, Zenon DEF Greatest
<1> QED
  BY <1>7

(* Finitely many numbers have a bound.                                     *)
LEMMA Bounded ==
  ASSUME NEW n \in Nat, NEW u \in [1..n -> Nat]
  PROVE  \E b \in Nat : \A i \in 1..n : u[i] <= b
<1> DEFINE Good(k) == \E b \in Nat : \A i \in 1..k : u[i] <= b
           S == {k \in Nat : k <= n => Good(k)}
<1>1. 0 \in S
  OBVIOUS
<1>2. ASSUME NEW k \in S PROVE k + 1 \in S
  <2>1. k \in Nat /\ k + 1 \in Nat
    OBVIOUS
  <2>2. ASSUME k + 1 <= n PROVE Good(k + 1)
    <3>1. PICK b \in Nat : \A i \in 1..k : u[i] <= b
      BY <2>1, <2>2
    <3>2. u[k + 1] \in Nat /\ b + u[k + 1] \in Nat
      BY <2>1, <2>2
    <3>3. ASSUME NEW i \in 1..(k + 1) PROVE u[i] <= b + u[k + 1]
      <4>1. i \in 1..k \/ i = k + 1
        BY <2>1
      <4>2. u[i] \in Nat
        BY <2>2
      <4> QED
        BY <3>1, <3>2, <4>1, <4>2
    <3> QED
      BY <3>2, <3>3
  <2> HIDE DEF Good
  <2> QED
    BY <2>1, <2>2
<1>3. S \subseteq Nat
  OBVIOUS
<1> HIDE DEF S
<1>4. S = Nat
  BY <1>1, <1>2, <1>3, Naturals
<1>5. n \in S /\ n <= n
  BY <1>4
<1> QED
  BY <1>5 DEF S

(* The bytes of a layer contain those of each of its fields.               *)
LEMMA UnionCovers ==
  ASSUME NEW fields \in Seq(Span \union {NoRange})
  PROVE  /\ Union(fields) = NoRange \/ Union(fields) \in Span
         /\ \A r \in Range(fields) : r # NoRange /\ r[1] < r[2] =>
              Union(fields) # NoRange /\ Union(fields)[1] <= r[1] /\ r[2] <= Union(fields)[2]
<1> DEFINE r == Range(fields) \ {NoRange}
           firsts == {x[1] : x \in r}
           lasts == {x[2] : x \in r}
<1>1. Len(fields) \in Nat /\ fields \in [1..Len(fields) -> Span \union {NoRange}]
  BY LenProperties
<1>2. Range(fields) = {fields[i] : i \in 1..Len(fields)}
  BY <1>1 DEF Range
<1>3. r \subseteq Span /\ \A x \in r : x = <<x[1], x[2]>> /\ x[1] \in Nat /\ x[2] \in Nat
  <2>1. r \subseteq Span
    BY <1>1, <1>2
  <2> QED
    BY <2>1 DEF Span
<1>4. firsts \in SUBSET Nat /\ lasts \in SUBSET Nat
  BY <1>3
<1>5. \E b \in Nat : \A x \in lasts : x <= b
  <2> DEFINE u == [i \in 1..Len(fields) |-> IF fields[i] = NoRange THEN 0 ELSE fields[i][2]]
  <2>1. u \in [1..Len(fields) -> Nat]
    <3>1. ASSUME NEW i \in 1..Len(fields) PROVE (IF fields[i] = NoRange THEN 0 ELSE fields[i][2]) \in Nat
      <4>1. fields[i] = NoRange \/ fields[i] \in Nat \X Nat
        BY <1>1 DEF Span
      <4> QED
        BY <4>1
    <3> QED
      BY <3>1
  <2>2. \A x \in lasts : \E i \in 1..Len(fields) : x = u[i]
    BY <1>2
  <2> HIDE DEF u, lasts
  <2>3. PICK b \in Nat : \A i \in 1..Len(fields) : u[i] <= b
    BY <1>1, <2>1, Bounded
  <2> QED
    BY <2>2, <2>3
<1>6. ASSUME r # {}
      PROVE  /\ Least(firsts) \in Nat /\ Greatest(lasts) \in Nat
             /\ \A x \in r : Least(firsts) <= x[1] /\ x[2] <= Greatest(lasts)
  <2>1. firsts # {} /\ lasts # {}
    BY <1>6
  <2>2. \A x \in r : x[1] \in firsts /\ x[2] \in lasts
    OBVIOUS
  <2> HIDE DEF firsts, lasts, r
  <2>3. Least(firsts) \in firsts /\ \A y \in firsts : Least(firsts) <= y
    BY <1>4, <2>1, LeastExists
  <2>4. PICK b \in Nat : \A x \in lasts : x <= b
    BY <1>5
  <2>5. Greatest(lasts) \in lasts /\ \A y \in lasts : y <= Greatest(lasts)
    BY <1>4, <2>1, <2>4, GreatestExists
  <2> QED
    BY <1>4, <2>2, <2>3, <2>5
<1>7. Union(fields) = IF r # {} /\ Least(firsts) < Greatest(lasts)
                        THEN <<Least(firsts), Greatest(lasts)>> ELSE NoRange
  BY DEF Union
<1>8. NoRange \notin Span
  BY ShapeAssumption DEF Span
<1>9. Range(fields) \ {NoRange} = r
  OBVIOUS
<1> HIDE DEF r, firsts, lasts
<1>10. Union(fields) = NoRange \/ Union(fields) \in Span
  BY <1>6, <1>7 DEF Span
<1>11. ASSUME NEW x \in Range(fields), x # NoRange, x[1] < x[2]
       PROVE  Union(fields) # NoRange /\ Union(fields)[1] <= x[1] /\ x[2] <= Union(fields)[2]
  <2>1. x \in r /\ x[1] \in Nat /\ x[2] \in Nat
    BY <1>3, <1>9, <1>11
  <2>2. Least(firsts) <= x[1] /\ x[2] <= Greatest(lasts) /\ Least(firsts) \in Nat /\ Greatest(lasts) \in Nat
    BY <1>6, <2>1
  <2>3. Union(fields) = <<Least(firsts), Greatest(lasts)>>
    BY <1>7, <1>11, <2>1, <2>2
  <2>4. Union(fields) \in Span
    BY <2>2, <2>3 DEF Span
  <2> QED
    BY <1>8, <2>2, <2>3, <2>4
<1> QED
  BY <1>10, <1>11

LEMMA LinesFinite ==
  ASSUME NEW t \in Seq(Layer), NEW ex, NEW l \in DOMAIN t
  PROVE  IsFiniteSet(LinesAbove(t, ex, l))
<1> DEFINE Row(m) == {m} \X (0..(IF ex[m] THEN Len(t[m].fields) ELSE 0))
           g == [m \in 1..(l - 1) |-> Row(m)]
           T == {Row(m) : m \in 1..(l - 1)}
<1>1. /\ Len(t) \in Nat /\ l \in Nat /\ l - 1 \in Int /\ l - 1 <= Len(t)
      /\ \A m \in 1..(l - 1) : m \in 1..Len(t)
  BY LenProperties
<1>2. IsFiniteSet(1..(l - 1))
  BY <1>1, FS_Interval
<1>3. g \in Surjection(1..(l - 1), T)
  BY DEF Surjection
<1>4. IsFiniteSet(T)
  <2> HIDE DEF g, T
  <2> QED
    BY <1>2, <1>3, FS_Surjection
<1>5. ASSUME NEW m \in 1..(l - 1) PROVE IsFiniteSet(Row(m))
  <2>1. t[m].fields \in Seq(Span \union {NoRange})
    <3>1. t[m] \in Layer
      BY <1>1, ElementOfSeq
    <3> QED
      BY <3>1 DEF Layer
  <2>2. (IF ex[m] THEN Len(t[m].fields) ELSE 0) \in Int
    BY <2>1, LenProperties
  <2> DEFINE last == IF ex[m] THEN Len(t[m].fields) ELSE 0
  <2>3. last \in Int /\ Row(m) = {m} \X (0..last)
    BY <2>2
  <2> HIDE DEF last, Row
  <2>4. IsFiniteSet(0..last)
    BY <2>3, FS_Interval
  <2>5. IsFiniteSet({m})
    BY FS_Singleton
  <2> HIDE DEF g, T
  <2>6. IsFiniteSet({m} \X (0..last))
    BY <2>4, <2>5, FS_Product
  <2> QED
    BY <2>3, <2>6
<1>6. IsFiniteSet(UNION T)
  <2>1. \A S \in T : IsFiniteSet(S)
    BY <1>5
  <2> HIDE DEF T
  <2> QED
    BY <1>4, <2>1, FS_UNION
<1> QED
  BY <1>6 DEF LinesAbove

LEMMA LineTyped ==
  ASSUME NEW t \in Seq(Layer), NEW ex, NEW l \in DOMAIN t, NEW f \in Nat
  PROVE  LineOf(t, ex, l, f) \in Nat
BY LinesFinite, FS_CardinalityType DEF LineOf

-----------------------------------------------------------------------------

(* A cursor on a line of a tree t whose layers ex says to be expanded.     *)
OnLine(t, ex, l, f) ==
  /\ ex \in [DOMAIN t -> BOOLEAN]
  /\ IF t = <<>> THEN l = 0 /\ f = 0
     ELSE l \in DOMAIN t /\ f \in Nat /\ (f # 0 => ex[l] /\ f <= Len(t[l].fields))

(* What is lit when the cursor is there.                                   *)
Lit(t, l, f, h) ==
  /\ h = NoRange \/ h \in Span
  /\ t = <<>> => h = NoRange
  /\ t # <<>> /\ f = 0 =>
       \A r \in Range(t[l].fields) : r # NoRange /\ r[1] < r[2] =>
         h # NoRange /\ h[1] <= r[1] /\ r[2] <= h[2]
  /\ t # <<>> /\ f # 0 => h = t[l].fields[f]

LEMMA HighlightLit ==
  ASSUME NEW t \in Seq(Layer), NEW ex, NEW l, NEW f, OnLine(t, ex, l, f),
         NEW from \in Nat, treeRows \in Nat, UpdateHighlight(t, ex, l, f, from)
  PROVE  Lit(t, l, f, highlight') /\ treeScroll' \in Nat
<1>1. Lit(t, l, f, Highlighted(t, l, f))
  <2>1. CASE t = <<>>
    <3>1. l \notin DOMAIN t
      BY <2>1, EmptySeq
    <3> QED
      BY <2>1, <3>1 DEF Lit, Highlighted
  <2>2. CASE t # <<>>
    <3>1. l \in DOMAIN t /\ f \in Nat /\ (f # 0 => f <= Len(t[l].fields))
      BY <2>2 DEF OnLine
    <3>2. t[l].fields \in Seq(Span \union {NoRange})
      <4>1. t[l] \in Layer
        BY <3>1, LenProperties, ElementOfSeq
      <4> QED
        BY <4>1 DEF Layer
    <3>3. CASE f = 0
      <4>1. Highlighted(t, l, f) = Union(t[l].fields)
        BY <3>1, <3>3 DEF Highlighted
      <4> HIDE DEF Union
      <4> QED
        BY <2>2, <3>2, <3>3, <4>1, UnionCovers DEF Lit
    <3>4. CASE f # 0
      <4>1. DOMAIN t[l].fields = 1..Len(t[l].fields) /\ f \in DOMAIN t[l].fields
        BY <3>1, <3>2, <3>4, LenProperties
      <4>2. Highlighted(t, l, f) = t[l].fields[f]
        BY <3>1, <3>4, <4>1 DEF Highlighted
      <4>3. t[l].fields[f] \in Span \union {NoRange}
        BY <3>2, <4>1, ElementOfSeq
      <4> QED
        BY <2>2, <3>4, <4>2, <4>3 DEF Lit
    <3> QED
      BY <3>3, <3>4
  <2> QED
    BY <2>1, <2>2
<1>2. treeScroll' \in Nat
  <2>1. CASE l \notin DOMAIN t \/ treeRows = 0
    BY <2>1 DEF UpdateHighlight
  <2>2. CASE l \in DOMAIN t /\ treeRows # 0
    <3>1. t # <<>>
      BY <2>2, EmptySeq
    <3>2. f \in Nat
      BY <3>1 DEF OnLine
    <3>3. LineOf(t, ex, l, f) \in Nat
      BY <2>2, <3>2, LineTyped
    <3>4. treeScroll' = Scrolled(LineOf(t, ex, l, f), from, treeRows)
      BY <2>2 DEF UpdateHighlight
    <3> DEFINE n == LineOf(t, ex, l, f)
    <3>5. n \in Nat /\ treeScroll' = Scrolled(n, from, treeRows)
      BY <3>3, <3>4
    <3> HIDE DEF n
    <3> QED
      BY <3>5 DEF Scrolled
  <2> QED
    BY <2>1, <2>2
<1> QED
  BY <1>1, <1>2 DEF UpdateHighlight

(* What a layer is remembered as.                                          *)
Remembered(t, ex, c) ==
  \A l \in DOMAIN t :
    (\A m \in DOMAIN t \ {l} : t[m].key # t[l].key) => (ex[l] <=> t[l].key \notin c)

PanesOK == activePane \in Range(Panes) /\ zoomed \in {"none", activePane}

TreeInv ==
  /\ shownPacket \in Packets \union {0} /\ treeScroll \in Nat /\ treeRows \in Nat
  /\ layers \in Range(Fast) \union Range(Deep) \union {<<>>}
  /\ collapsed \subseteq Keys
  /\ OnLine(layers, expanded, selLayer, selField)
  /\ Lit(layers, selLayer, selField, highlight)
  /\ Remembered(layers, expanded, collapsed)
  /\ PanesOK

LEMMA TreeInitially == TreeInit => TreeInv
<1> SUFFICES ASSUME TreeInit PROVE TreeInv
  OBVIOUS
<1>1. OnLine(layers, expanded, selLayer, selField)
  <2>1. layers = <<>> /\ expanded = <<>> /\ selLayer = 0 /\ selField = 0
    BY DEF TreeInit
  <2>2. <<>> \in [DOMAIN <<>> -> BOOLEAN]
    BY EmptySeq
  <2> QED
    BY <2>1, <2>2 DEF OnLine
<1>2. Lit(layers, selLayer, selField, highlight) /\ Remembered(layers, expanded, collapsed)
  BY EmptySeq DEF TreeInit, Lit, Remembered
<1>3. PanesOK
  <2>1. "packets" = Panes[1] /\ 1 \in DOMAIN Panes
    BY DEF Panes
  <2> QED
    BY <2>1 DEF TreeInit, PanesOK, Range
<1> QED
  BY <1>1, <1>2, <1>3 DEF TreeInit, TreeInv

(* What follows when the cursor went somewhere on a tree.                  *)
Went(t, ex, l, f) ==
  /\ layers' = t /\ expanded' = ex /\ selLayer' = l /\ selField' = f
  /\ t \in Range(Fast) \union Range(Deep) \union {<<>>}
  /\ OnLine(t, ex, l, f)
  /\ shownPacket' \in Packets \union {0} /\ treeRows' \in Nat
  /\ PanesOK'

LEMMA WentKeeps ==
  ASSUME TreeInv, NEW t, NEW ex, NEW l, NEW f, Went(t, ex, l, f),
         NEW from \in Nat, UpdateHighlight(t, ex, l, f, from),
         collapsed' \subseteq Keys, Remembered(t, ex, collapsed')
  PROVE  TreeInv'
<1>1. t \in Seq(Layer)
  BY Trees DEF Went
<1>2. Lit(t, l, f, highlight') /\ treeScroll' \in Nat
  BY <1>1, HighlightLit DEF Went, TreeInv
<1>3. /\ layers' \in Range(Fast) \union Range(Deep) \union {<<>>}
      /\ shownPacket' \in Packets \union {0} /\ treeRows' \in Nat /\ PanesOK'
  BY DEF Went
<1>4. OnLine(layers', expanded', selLayer', selField') /\ Lit(layers', selLayer', selField', highlight')
      /\ Remembered(layers', expanded', collapsed')
  BY <1>2 DEF Went
<1> QED
  BY <1>2, <1>3, <1>4 DEF TreeInv

(* Trees that are shown.                                                   *)
LEMMA ShownStep ==
  ASSUME TreeInv, NEW t \in Range(Fast) \union Range(Deep),
         ShowTree(t), shownPacket' \in Packets, UNCHANGED <<collapsed, treeRows, paneVars>>
  PROVE  TreeInv'
<1> DEFINE ex == [i \in DOMAIN t |-> t[i].key \notin collapsed]
           l == IF t # <<>> THEN 1 ELSE 0
<1>1. t \in Seq(Layer) /\ Len(t) \in Nat /\ DOMAIN t = 1..Len(t)
  BY Trees, LenProperties
<1>2. layers' = t /\ expanded' = ex /\ selLayer' = l /\ selField' = 0 /\ UpdateHighlight(t, ex, l, 0, 0)
  BY DEF ShowTree
<1>3. OnLine(t, ex, l, 0)
  <2>1. t # <<>> => 1 \in DOMAIN t
    BY <1>1, EmptySeq
  <2> QED
    BY <2>1 DEF OnLine
<1>4. Remembered(t, ex, collapsed')
  BY DEF Remembered
<1>5. Went(t, ex, l, 0)
  <2>1. treeRows' \in Nat /\ PanesOK'
    BY DEF TreeInv, PanesOK, paneVars
  <2> QED
    BY <1>2, <1>3, <2>1 DEF Went
<1>6. collapsed' \subseteq Keys
  BY DEF TreeInv
<1> HIDE DEF ex, l
<1> QED
  BY <1>2, <1>4, <1>5, <1>6, WentKeeps

LEMMA InTrees ==
  ASSUME NEW p \in Packets
  PROVE  Fast[p] \in Range(Fast) \union Range(Deep) /\ Deep[p] \in Range(Fast) \union Range(Deep)
BY TreeAssumption DEF Packets, Range

LEMMA SelectStep ==
  ASSUME TreeInv, NEW p \in Packets, SelectPacket(p)
  PROVE  TreeInv'
BY InTrees, ShownStep DEF SelectPacket

LEMMA AnswerStep ==
  ASSUME TreeInv, DeepAnswer
  PROVE  TreeInv'
<1>1. shownPacket \in Packets
  BY DEF DeepAnswer, TreeInv
<1> QED
  BY <1>1, InTrees, ShownStep DEF DeepAnswer

LEMMA FileStep ==
  ASSUME TreeInv, NEW p \in Packets \union {0}, OpenFile(p)
  PROVE  TreeInv'
<1>1. collapsed' \subseteq Keys /\ collapsed' = {} /\ treeRows' \in Nat /\ PanesOK'
  BY DEF OpenFile, TreeInv, PanesOK
<1>2. CASE p \in Packets /\ shownPacket' = p /\ layers' = Fast[p]
  <2> DEFINE t == Fast[p]
             ex == [i \in DOMAIN t |-> TRUE]
             l == IF t # <<>> THEN 1 ELSE 0
  <2>1. t \in Range(Fast) \union Range(Deep) \union {<<>>}
    BY <1>2, InTrees
  <2>2. t \in Seq(Layer) /\ Len(t) \in Nat /\ DOMAIN t = 1..Len(t)
    BY <2>1, Trees, LenProperties
  <2>3. expanded' = ex /\ selLayer' = l /\ selField' = 0 /\ UpdateHighlight(t, ex, l, 0, 0)
    <3>1. p # 0
      BY <1>2, ShapeAssumption
    <3> QED
      BY <3>1 DEF OpenFile
  <2>4. OnLine(t, ex, l, 0)
    <3>1. t # <<>> => 1 \in DOMAIN t
      BY <2>2, EmptySeq
    <3> QED
      BY <3>1 DEF OnLine
  <2>5. Remembered(t, ex, collapsed')
    BY <1>1 DEF Remembered
  <2>6. Went(t, ex, l, 0)
    BY <1>1, <1>2, <2>1, <2>3, <2>4 DEF Went
  <2> HIDE DEF t, ex, l
  <2> QED
    BY <1>1, <2>3, <2>5, <2>6, WentKeeps
<1>3. CASE p = 0
  <2>1. /\ shownPacket' = 0 /\ layers' = <<>> /\ expanded' = <<>> /\ selLayer' = 0 /\ selField' = 0
        /\ highlight' = NoRange /\ treeScroll' = treeScroll
    BY <1>3, ShapeAssumption DEF OpenFile
  <2>2. <<>> \in [DOMAIN <<>> -> BOOLEAN]
    BY EmptySeq
  <2>3. OnLine(layers', expanded', selLayer', selField')
    BY <2>1, <2>2 DEF OnLine
  <2>4. Lit(layers', selLayer', selField', highlight') /\ Remembered(layers', expanded', collapsed')
    BY <2>1, EmptySeq DEF Lit, Remembered
  <2> QED
    BY <1>1, <2>1, <2>3, <2>4 DEF TreeInv
<1> QED
  BY <1>2, <1>3 DEF OpenFile

(* Keys: the cursor goes to a line of the same tree.                       *)
LEMMA InTreeFacts ==
  ASSUME TreeInv, InTree
  PROVE  /\ layers \in Seq(Layer) /\ Len(layers) \in Nat /\ DOMAIN layers = 1..Len(layers)
         /\ selLayer \in DOMAIN layers /\ selField \in Nat
         /\ \A l \in DOMAIN layers : layers[l] \in Layer /\ Fields(l) \in Nat
         /\ expanded \in [DOMAIN layers -> BOOLEAN]
         /\ selField # 0 => expanded[selLayer] /\ selField <= Fields(selLayer)
<1>1. layers \in Seq(Layer) /\ layers # <<>>
  BY Trees DEF TreeInv, InTree
<1>2. Len(layers) \in Nat /\ DOMAIN layers = 1..Len(layers)
  BY <1>1, LenProperties
<1>3. ASSUME NEW l \in DOMAIN layers PROVE layers[l] \in Layer /\ Fields(l) \in Nat
  <2>1. layers[l] \in Layer
    BY <1>1, <1>2, ElementOfSeq
  <2>2. layers[l].fields \in Seq(Span \union {NoRange})
    BY <2>1 DEF Layer
  <2> QED
    BY <2>1, <2>2, LenProperties DEF Fields
<1> QED
  BY <1>1, <1>2, <1>3 DEF TreeInv, OnLine, Fields

LEMMA GoStep ==
  ASSUME TreeInv, InTree, Still, NEW l \in DOMAIN layers, NEW f \in Nat, GoTo(l, f),
         expanded' \in [DOMAIN layers -> BOOLEAN],
         f # 0 => expanded'[l] /\ f <= Fields(l),
         collapsed' \subseteq Keys, Remembered(layers, expanded', collapsed')
  PROVE  TreeInv'
<1>1. OnLine(layers, expanded', l, f)
  BY DEF OnLine, InTree, Fields
<1>2. PanesOK' /\ treeRows' \in Nat /\ shownPacket' \in Packets \union {0}
  BY DEF TreeInv, PanesOK, Still, paneVars
<1>3. Went(layers, expanded', l, f)
  BY <1>1, <1>2 DEF Went, GoTo, Still, TreeInv
<1>4. UpdateHighlight(layers, expanded', l, f, treeScroll) /\ treeScroll \in Nat
  BY DEF GoTo, TreeInv
<1> QED
  BY <1>3, <1>4, WentKeeps

LEMMA MoveStep ==
  ASSUME TreeInv, Moving, NEW l \in DOMAIN layers, NEW f \in Nat, GoTo(l, f),
         f # 0 => expanded[l] /\ f <= Fields(l)
  PROVE  TreeInv'
<1>1. expanded' = expanded /\ collapsed' = collapsed /\ InTree /\ Still
  BY DEF Moving
<1>2. expanded' \in [DOMAIN layers -> BOOLEAN] /\ collapsed' \subseteq Keys
      /\ Remembered(layers, expanded', collapsed')
  BY <1>1, InTreeFacts DEF TreeInv
<1>3. f # 0 => expanded'[l] /\ f <= Fields(l)
  BY <1>1
<1> QED
  BY <1>1, <1>2, <1>3, GoStep

LEMMA DownStep ==
  ASSUME TreeInv, MoveDown
  PROVE  TreeInv'
<1>1. Moving /\ InTree
  BY DEF MoveDown, Moving
<1>2. /\ Len(layers) \in Nat /\ DOMAIN layers = 1..Len(layers) /\ selLayer \in DOMAIN layers
      /\ selField \in Nat /\ Fields(selLayer) \in Nat
      /\ selField # 0 => expanded[selLayer] /\ selField <= Fields(selLayer)
  BY <1>1, InTreeFacts
<1>3. NextLayer \in DOMAIN layers
  BY <1>2 DEF NextLayer
<1>4. CASE GoTo(NextLayer, 0)
  BY <1>1, <1>3, <1>4, MoveStep
<1>5. CASE selField # 0 /\ selField < Fields(selLayer) /\ GoTo(selLayer, selField + 1)
  <2>1. selField + 1 \in Nat /\ selField + 1 <= Fields(selLayer)
    BY <1>2, <1>5
  <2> QED
    BY <1>1, <1>2, <1>5, <2>1, MoveStep
<1>6. CASE expanded[selLayer] /\ Fields(selLayer) > 0 /\ GoTo(selLayer, 1)
  <2>1. 1 \in Nat /\ 1 <= Fields(selLayer)
    BY <1>2, <1>6
  <2> QED
    BY <1>1, <1>2, <1>6, <2>1, MoveStep
<1> QED
  BY <1>4, <1>5, <1>6 DEF MoveDown

LEMMA UpStep ==
  ASSUME TreeInv, MoveUp
  PROVE  TreeInv'
<1>1. Moving /\ InTree
  BY DEF MoveUp, Moving
<1>2. /\ Len(layers) \in Nat /\ DOMAIN layers = 1..Len(layers) /\ selLayer \in DOMAIN layers
      /\ selField \in Nat
      /\ \A l \in DOMAIN layers : Fields(l) \in Nat
      /\ selField # 0 => expanded[selLayer] /\ selField <= Fields(selLayer)
  BY <1>1, InTreeFacts
<1>3. CASE selField # 0 /\ GoTo(selLayer, selField - 1)
  <2>1. selField - 1 \in Nat /\ selField - 1 <= Fields(selLayer)
    BY <1>2, <1>3
  <2> QED
    BY <1>1, <1>2, <1>3, <2>1, MoveStep
<1>4. CASE GoTo(1, 0)
  <2>1. 1 \in DOMAIN layers
    BY <1>2
  <2> QED
    BY <1>1, <1>4, <2>1, MoveStep
<1>5. CASE selLayer # 1
           /\ GoTo(selLayer - 1, IF expanded[selLayer - 1] THEN Fields(selLayer - 1) ELSE 0)
  <2> DEFINE f == IF expanded[selLayer - 1] THEN Fields(selLayer - 1) ELSE 0
  <2>1. selLayer - 1 \in DOMAIN layers
    BY <1>2, <1>5
  <2>2. f \in Nat /\ (f # 0 => expanded[selLayer - 1] /\ f <= Fields(selLayer - 1))
    BY <1>2, <2>1
  <2>3. GoTo(selLayer - 1, f)
    BY <1>5
  <2> HIDE DEF f
  <2> QED
    BY <1>1, <2>1, <2>2, <2>3, MoveStep
<1> QED
  BY <1>3, <1>4, <1>5 DEF MoveUp

(* A layer that is expanded or collapsed is remembered so.                 *)
LEMMA SetKeeps ==
  ASSUME TreeInv, InTree, NEW l \in DOMAIN layers, NEW on \in BOOLEAN, SetLayerExpanded(l, on)
  PROVE  /\ expanded' \in [DOMAIN layers -> BOOLEAN] /\ collapsed' \subseteq Keys
         /\ Remembered(layers, expanded', collapsed')
<1>1. expanded \in [DOMAIN layers -> BOOLEAN] /\ Remembered(layers, expanded, collapsed) /\ collapsed \subseteq Keys
  BY InTreeFacts DEF TreeInv
<1>2. expanded' \in [DOMAIN layers -> BOOLEAN]
      /\ \A m \in DOMAIN layers : expanded'[m] = IF m = l THEN on ELSE expanded[m]
  BY <1>1 DEF SetLayerExpanded
<1>3. layers[l].key \in Keys
  BY InTreeFacts DEF Layer
<1>4. collapsed' \subseteq Keys
  BY <1>1, <1>3 DEF SetLayerExpanded
<1>5. ASSUME NEW m \in DOMAIN layers, \A n \in DOMAIN layers \ {m} : layers[n].key # layers[m].key
      PROVE  expanded'[m] <=> layers[m].key \notin collapsed'
  <2>1. CASE m = l
    <3>1. expanded'[m] = on
      BY <1>2, <2>1
    <3>2. layers[l].key \notin collapsed' <=> on
      BY DEF SetLayerExpanded
    <3> QED
      BY <2>1, <3>1, <3>2
  <2>2. CASE m # l
    <3>1. expanded'[m] = expanded[m] /\ layers[l].key # layers[m].key
      BY <1>2, <1>5, <2>2
    <3>2. layers[m].key \in collapsed' <=> layers[m].key \in collapsed
      BY <3>1 DEF SetLayerExpanded
    <3>3. expanded[m] <=> layers[m].key \notin collapsed
      BY <1>1, <1>5 DEF Remembered
    <3> QED
      BY <3>1, <3>2, <3>3
  <2> QED
    BY <2>1, <2>2
<1> QED
  BY <1>2, <1>4, <1>5 DEF Remembered

(* The keys that expand and collapse.                                      *)
LEMMA StaysSet ==
  ASSUME TreeInv, InTree, UNCHANGED <<expanded, collapsed>>
  PROVE  /\ expanded' \in [DOMAIN layers -> BOOLEAN] /\ collapsed' \subseteq Keys
         /\ Remembered(layers, expanded', collapsed')
BY InTreeFacts DEF TreeInv

LEMMA ToggleStep ==
  ASSUME TreeInv, ToggleExpand
  PROVE  TreeInv'
<1>1. InTree /\ Still /\ GoTo(selLayer, selField)
  BY DEF ToggleExpand
<1>2. /\ selLayer \in DOMAIN layers /\ selField \in Nat /\ expanded[selLayer] \in BOOLEAN
      /\ selField # 0 => expanded[selLayer] /\ selField <= Fields(selLayer)
  BY <1>1, InTreeFacts
<1>3. CASE selField = 0 /\ SetLayerExpanded(selLayer, ~expanded[selLayer])
  <2>1. (~expanded[selLayer]) \in BOOLEAN
    BY <1>2
  <2> QED
    BY <1>1, <1>2, <1>3, <2>1, SetKeeps, GoStep
<1>4. CASE selField # 0 /\ UNCHANGED <<expanded, collapsed>>
  BY <1>1, <1>2, <1>4, StaysSet, GoStep
<1> QED
  BY <1>3, <1>4 DEF ToggleExpand

LEMMA LeftStep ==
  ASSUME TreeInv, MoveLeft
  PROVE  TreeInv'
<1>1. InTree /\ Still /\ GoTo(selLayer, 0)
  BY DEF MoveLeft
<1>2. selLayer \in DOMAIN layers
  BY <1>1, InTreeFacts
<1>3. CASE SetLayerExpanded(selLayer, FALSE)
  BY <1>1, <1>2, <1>3, SetKeeps, GoStep
<1>4. CASE UNCHANGED <<expanded, collapsed>>
  BY <1>1, <1>2, <1>4, StaysSet, GoStep
<1> QED
  BY <1>3, <1>4 DEF MoveLeft

LEMMA RightStep ==
  ASSUME TreeInv, MoveRight
  PROVE  TreeInv'
<1>1. InTree /\ Still
  BY DEF MoveRight
<1>2. /\ selLayer \in DOMAIN layers /\ selField \in Nat /\ Fields(selLayer) \in Nat
      /\ selField # 0 => expanded[selLayer] /\ selField <= Fields(selLayer)
  BY <1>1, InTreeFacts
<1>3. CASE SetLayerExpanded(selLayer, TRUE) /\ GoTo(selLayer, 0)
  BY <1>1, <1>2, <1>3, SetKeeps, GoStep
<1>4. CASE /\ selField = 0 => expanded[selLayer]
           /\ UNCHANGED <<expanded, collapsed>>
           /\ GoTo(selLayer, IF selField = 0 /\ Fields(selLayer) > 0 THEN 1 ELSE selField)
  <2> DEFINE f == IF selField = 0 /\ Fields(selLayer) > 0 THEN 1 ELSE selField
  <2>1. f \in Nat /\ (f # 0 => expanded[selLayer] /\ f <= Fields(selLayer))
    BY <1>2, <1>4
  <2>2. GoTo(selLayer, f) /\ expanded' = expanded
    BY <1>4
  <2> HIDE DEF f
  <2> QED
    BY <1>1, <1>2, <1>4, <2>1, <2>2, StaysSet, GoStep
<1> QED
  BY <1>2, <1>3, <1>4 DEF MoveRight

(* The panes and the draw leave the tree alone.                            *)
LEMMA PanesStep ==
  ASSUME TreeInv, FocusKey \/ ZoomPane \/ Draw
  PROVE  TreeInv'
<1>1. UNCHANGED <<shownPacket, layers, expanded, collapsed, cursor2, highlight, treeScroll>>
  BY DEF FocusKey, SetActivePane, ZoomPane, Draw
<1>2. treeRows' \in Nat
  <2>1. Heights \union {10} \union {0} \subseteq Nat
    BY TreeAssumption
  <2>2. treeRows' = treeRows \/ treeRows' \in Heights \union {10} \union {0}
    BY DEF FocusKey, SetActivePane, ZoomPane, Draw
  <2> QED
    BY <2>1, <2>2 DEF TreeInv
<1>3. PanesOK'
  <2>1. PanesOK
    BY DEF TreeInv
  <2>2. CASE FocusKey
    <3>1. PICK p \in {PaneAt(1), PaneAt(2)} \union Range(Panes) : SetActivePane(p)
      BY <2>2 DEF FocusKey
    <3>2. p \in Range(Panes)
      <4>1. PICK i \in 1..3 : Panes[i] = activePane
        BY <2>1 DEF PanesOK, Range, Panes
      <4>2. \A step \in {1, 2} : PaneAt(step) \in Range(Panes)
        <5> DEFINE j == CHOOSE j \in 1..3 : Panes[j] = activePane
        <5>1. j \in 1..3
          BY <4>1
        <5>2. \A step \in {1, 2} : ((j + step - 1) % 3) + 1 \in 1..3
          <6> HIDE DEF j
          <6> QED
            BY <5>1
        <5>3. \A step \in {1, 2} : PaneAt(step) = Panes[((j + step - 1) % 3) + 1]
          BY DEF PaneAt
        <5>4. DOMAIN Panes = 1..3
          BY DEF Panes
        <5> HIDE DEF j
        <5> QED
          BY <5>2, <5>3, <5>4 DEF Range
      <4> QED
        BY <3>1, <4>2
    <3> QED
      BY <3>1, <3>2 DEF SetActivePane, PanesOK
  <2>3. CASE ZoomPane
    BY <2>1, <2>3 DEF ZoomPane, PanesOK
  <2>4. CASE Draw
    BY <2>1, <2>4 DEF Draw, PanesOK, paneVars
  <2> QED
    BY <2>2, <2>3, <2>4
<1> QED
  BY <1>1, <1>2, <1>3 DEF TreeInv, cursor2

LEMMA TreeStep == TreeInv /\ [TreeNext]_treeVars => TreeInv'
<1> SUFFICES ASSUME TreeInv, [TreeNext]_treeVars PROVE TreeInv'
  OBVIOUS
<1>1. CASE \E p \in Packets : SelectPacket(p)
  BY <1>1, SelectStep
<1>2. CASE \E p \in Packets \union {0} : OpenFile(p)
  BY <1>2, FileStep
<1>3. CASE DeepAnswer
  BY <1>3, AnswerStep
<1>4. CASE TreeKey
  BY <1>4, DownStep, UpStep, ToggleStep, LeftStep, RightStep DEF TreeKey
<1>5. CASE FocusKey \/ ZoomPane \/ Draw
  BY <1>5, PanesStep
<1>6. CASE UNCHANGED treeVars
  BY <1>6 DEF TreeInv, treeVars, cursor2, paneVars, PanesOK
<1> QED
  BY <1>1, <1>2, <1>3, <1>4, <1>5, <1>6 DEF TreeNext

LEMMA TreeInvariant == TreeSpec => []TreeInv
BY TreeInitially, TreeStep, PTL DEF TreeSpec

(* The cursor of the detail tree is on a line that is drawn and what is    *)
(* highlighted are its bytes, through every replacement of the tree; a     *)
(* layer looks as it was left; the zoomed pane has the focus.              *)
THEOREM CursorKeepsToTree == TreeSpec => []TreeSound
<1>1. TreeInv => TreeSound
  <2> SUFFICES ASSUME TreeInv PROVE TreeSound
    OBVIOUS
  <2>1. layers \in Seq(Layer) /\ DOMAIN layers = 1..Len(layers) /\ Len(layers) \in Nat
    BY Trees, LenProperties DEF TreeInv
  <2>2. CursorOnLine
    BY <2>1 DEF TreeInv, OnLine, CursorOnLine, cursor2, Fields
  <2>3. HighlightOfCursor
    BY DEF TreeInv, Lit, HighlightOfCursor
  <2>4. CollapseRemembered /\ ZoomHasFocus
    BY DEF TreeInv, Remembered, CollapseRemembered, ZoomHasFocus, PanesOK
  <2>5. TreeTypeOK
    <3>1. expanded \in Seq(BOOLEAN)
      BY <2>1, Z3 DEF TreeInv, OnLine
    <3>2. selLayer \in Nat /\ selField \in Nat
      BY <2>1 DEF TreeInv, OnLine
    <3>3. highlight = NoRange \/ highlight \in Nat \X Nat
      BY DEF TreeInv, Lit, Span
    <3> QED
      BY <3>1, <3>2, <3>3 DEF TreeInv, TreeTypeOK, PanesOK
  <2> QED
    BY <2>2, <2>3, <2>4, <2>5 DEF TreeSound
<1> QED
  BY <1>1, TreeInvariant, PTL

-----------------------------------------------------------------------------
(* What the keys of the detail tree do.                                    *)

(* The lines of a tree t whose layers ex says to be expanded.              *)
SizeOf(t, ex, l) == IF ex[l] THEN Len(t[l].fields) ELSE 0
LinesIn(t, ex) == UNION {{l} \X (0..SizeOf(t, ex, l)) : l \in DOMAIN t}
HigherIn(t, ex, y) == {x \in LinesIn(t, ex) : x[1] < y[1] \/ (x[1] = y[1] /\ x[2] < y[2])}

LEMMA Sizes ==
  ASSUME NEW t \in Seq(Layer), NEW ex, NEW l \in DOMAIN t
  PROVE  SizeOf(t, ex, l) \in Nat /\ l \in Nat /\ DOMAIN t = 1..Len(t) /\ Len(t) \in Nat
<1>1. l \in 1..Len(t) /\ Len(t) \in Nat /\ DOMAIN t = 1..Len(t)
  BY LenProperties
<1>2. t[l].fields \in Seq(Span \union {NoRange})
  <2>1. t[l] \in Layer
    BY <1>1, ElementOfSeq
  <2> QED
    BY <2>1 DEF Layer
<1>3. Len(t[l].fields) \in Nat
  BY <1>2, LenProperties
<1> QED
  BY <1>1, <1>3 DEF SizeOf

LEMMA LinesAre ==
  ASSUME NEW t, NEW ex
  PROVE  \A l, f : <<l, f>> \in LinesIn(t, ex) <=> l \in DOMAIN t /\ f \in 0..SizeOf(t, ex, l)
BY DEF LinesIn

LEMMA LinePairs ==
  ASSUME NEW t, NEW ex, NEW x \in LinesIn(t, ex)
  PROVE  x = <<x[1], x[2]>> /\ x[1] \in DOMAIN t /\ x[2] \in 0..SizeOf(t, ex, x[1])
BY DEF LinesIn

(* The line below a line of a layer, and below its last one.               *)
LEMMA BelowField ==
  ASSUME NEW t \in Seq(Layer), NEW ex, NEW l \in DOMAIN t, NEW f \in Nat, f < SizeOf(t, ex, l)
  PROVE  HigherIn(t, ex, <<l, f + 1>>) = HigherIn(t, ex, <<l, f>>) \union {<<l, f>>}
<1>1. SizeOf(t, ex, l) \in Nat /\ l \in Nat
  BY Sizes
<1>2. <<l, f>> \in LinesIn(t, ex)
  BY <1>1, LinesAre
<1>3. ASSUME NEW x \in LinesIn(t, ex)
      PROVE  x \in HigherIn(t, ex, <<l, f + 1>>) <=> x \in HigherIn(t, ex, <<l, f>>) \/ x = <<l, f>>
  <2>1. x = <<x[1], x[2]>> /\ x[1] \in DOMAIN t /\ x[2] \in 0..SizeOf(t, ex, x[1])
    BY LinePairs
  <2>2. x[1] \in Nat /\ SizeOf(t, ex, x[1]) \in Nat
    BY <2>1, Sizes
  <2>3. x[2] \in Nat
    BY <2>1, <2>2
  <2>4. x[2] < f + 1 <=> x[2] < f \/ x[2] = f
    BY <2>3
  <2>5. x = <<l, f>> <=> x[1] = l /\ x[2] = f
    BY <2>1
  <2> QED
    BY <1>1, <2>2, <2>3, <2>4, <2>5 DEF HigherIn
<1>4. HigherIn(t, ex, <<l, f + 1>>) \subseteq LinesIn(t, ex) /\ HigherIn(t, ex, <<l, f>>) \subseteq LinesIn(t, ex)
  BY DEF HigherIn
<1>5. <<l, f>> \in HigherIn(t, ex, <<l, f + 1>>)
  BY <1>2, <1>3
<1> QED
  BY <1>2, <1>3, <1>4

LEMMA BelowLayer ==
  ASSUME NEW t \in Seq(Layer), NEW ex, NEW l \in DOMAIN t, l + 1 \in DOMAIN t
  PROVE  HigherIn(t, ex, <<l + 1, 0>>)
           = HigherIn(t, ex, <<l, SizeOf(t, ex, l)>>) \union {<<l, SizeOf(t, ex, l)>>}
<1> DEFINE f == SizeOf(t, ex, l)
<1>1. f \in Nat /\ l \in Nat
  BY Sizes
<1>2. <<l, f>> \in LinesIn(t, ex)
  BY <1>1, LinesAre
<1>3. ASSUME NEW x \in LinesIn(t, ex)
      PROVE  x \in HigherIn(t, ex, <<l + 1, 0>>) <=> x \in HigherIn(t, ex, <<l, f>>) \/ x = <<l, f>>
  <2>1. x = <<x[1], x[2]>> /\ x[1] \in DOMAIN t /\ x[2] \in 0..SizeOf(t, ex, x[1])
    BY LinePairs
  <2>2. x[1] \in Nat /\ SizeOf(t, ex, x[1]) \in Nat
    BY <2>1, Sizes
  <2>3. x[2] \in Nat /\ x[2] <= SizeOf(t, ex, x[1])
    BY <2>1, <2>2
  <2>4. x = <<l, f>> <=> x[1] = l /\ x[2] = f
    BY <2>1
  <2>5. x[1] = l => x[2] < f \/ x[2] = f
    BY <1>1, <2>3
  <2> HIDE DEF f
  <2>6. x[1] < l + 1 <=> x[1] < l \/ x[1] = l
    BY <1>1, <2>2
  <2>7. ~(x[2] < 0)
    BY <2>3
  <2>8. x \in HigherIn(t, ex, <<l + 1, 0>>) <=> x[1] < l + 1
    BY <2>7 DEF HigherIn
  <2>9. x \in HigherIn(t, ex, <<l, f>>) <=> x[1] < l \/ (x[1] = l /\ x[2] < f)
    BY DEF HigherIn
  <2> QED
    BY <2>4, <2>5, <2>6, <2>8, <2>9
<1>4. HigherIn(t, ex, <<l + 1, 0>>) \subseteq LinesIn(t, ex) /\ HigherIn(t, ex, <<l, f>>) \subseteq LinesIn(t, ex)
  BY DEF HigherIn
<1> HIDE DEF f
<1>5. HigherIn(t, ex, <<l + 1, 0>>) = HigherIn(t, ex, <<l, f>>) \union {<<l, f>>}
  BY <1>2, <1>3, <1>4
<1> QED
  BY <1>5 DEF f

(* Below the last line there is none.                                      *)
LEMMA LastLine ==
  ASSUME NEW t \in Seq(Layer), NEW ex, t # <<>>
  PROVE  LET end == <<Len(t), SizeOf(t, ex, Len(t))>>
         IN  HigherIn(t, ex, end) \union {end} = LinesIn(t, ex)
<1> DEFINE n == Len(t)
           end == <<n, SizeOf(t, ex, n)>>
<1>1. n \in Nat /\ DOMAIN t = 1..n /\ n \in DOMAIN t
  <2>1. n \in Nat /\ DOMAIN t = 1..n
    BY LenProperties
  <2>2. n # 0
    BY EmptySeq
  <2> HIDE DEF n
  <2> QED
    BY <2>1, <2>2
<1>2. SizeOf(t, ex, n) \in Nat
  BY <1>1, Sizes
<1>3. end \in LinesIn(t, ex)
  BY <1>1, <1>2, LinesAre
<1>4. ASSUME NEW x \in LinesIn(t, ex) PROVE x \in HigherIn(t, ex, end) \/ x = end
  <2>1. x = <<x[1], x[2]>> /\ x[1] \in DOMAIN t /\ x[2] \in 0..SizeOf(t, ex, x[1])
    BY LinePairs
  <2>2. x[1] \in Nat /\ x[1] <= n /\ SizeOf(t, ex, x[1]) \in Nat
    BY <1>1, <2>1, Sizes
  <2>3. x[2] \in Nat /\ x[2] <= SizeOf(t, ex, x[1])
    BY <2>1, <2>2
  <2> DEFINE s == SizeOf(t, ex, n)
  <2>4. x[1] < n \/ (x[1] = n /\ x[2] < s) \/ (x[1] = n /\ x[2] = s)
    <3>1. s \in Nat /\ (x[1] = n => x[2] <= s)
      BY <1>2, <2>3
    <3> HIDE DEF s, n
    <3> QED
      BY <1>1, <2>2, <2>3, <3>1
  <2>5. x[1] = n /\ x[2] = s => x = end
    BY <2>1
  <2> HIDE DEF n, s
  <2>6. x[1] < n \/ (x[1] = n /\ x[2] < s) => x \in HigherIn(t, ex, <<n, s>>)
    BY DEF HigherIn
  <2> QED
    BY <2>4, <2>5, <2>6 DEF s
<1>5. HigherIn(t, ex, end) \subseteq LinesIn(t, ex)
  BY DEF HigherIn
<1> HIDE DEF end
<1>6. HigherIn(t, ex, end) \union {end} = LinesIn(t, ex)
  BY <1>3, <1>4, <1>5
<1> QED
  BY <1>6 DEF end

(* Above a line are as many as the code counts.                            *)
LEMMA HigherCounted ==
  ASSUME NEW t \in Seq(Layer), NEW ex, NEW l \in DOMAIN t, NEW f \in 0..SizeOf(t, ex, l)
  PROVE  Cardinality(HigherIn(t, ex, <<l, f>>)) = LineOf(t, ex, l, f)
<1> DEFINE own == {l} \X (0..(f - 1))
           others == LinesAbove(t, ex, l)
<1>1. /\ l \in Nat /\ SizeOf(t, ex, l) \in Nat /\ f \in Nat /\ f - 1 \in Int
      /\ DOMAIN t = 1..Len(t) /\ Len(t) \in Nat
  BY Sizes
<1>2. HigherIn(t, ex, <<l, f>>) = others \union own
  <2>1. ASSUME NEW x \in HigherIn(t, ex, <<l, f>>) PROVE x \in others \union own
    <3>1. x \in LinesIn(t, ex) /\ (x[1] < l \/ (x[1] = l /\ x[2] < f))
      BY DEF HigherIn
    <3>2. x = <<x[1], x[2]>> /\ x[1] \in DOMAIN t /\ x[2] \in 0..SizeOf(t, ex, x[1])
      BY <3>1, LinePairs
    <3>3. SizeOf(t, ex, x[1]) \in Nat /\ x[1] \in Nat /\ x[1] >= 1
      BY <1>1, <3>2, Sizes
    <3>4. CASE x[1] < l
      <4>1. x[1] \in 1..(l - 1)
        BY <1>1, <3>3, <3>4
      <4>2. <<x[1], x[2]>> \in {x[1]} \X (0..SizeOf(t, ex, x[1]))
        BY <3>2
      <4> QED
        BY <3>2, <4>1, <4>2 DEF LinesAbove, SizeOf
    <3>5. CASE x[1] = l /\ x[2] < f
      <4>1. x[2] \in 0..(f - 1)
        BY <1>1, <3>2, <3>3, <3>5
      <4> QED
        BY <3>2, <3>5, <4>1
    <3> QED
      BY <3>1, <3>4, <3>5
  <2>2. ASSUME NEW x \in others PROVE x \in HigherIn(t, ex, <<l, f>>)
    <3>1. PICK m \in 1..(l - 1) : x \in {m} \X (0..SizeOf(t, ex, m))
      BY DEF LinesAbove, SizeOf
    <3>2. m \in DOMAIN t /\ m < l
      BY <1>1
    <3>3. x = <<m, x[2]>> /\ x[1] = m /\ x[2] \in 0..SizeOf(t, ex, m)
      BY <3>1
    <3>4. x \in LinesIn(t, ex)
      BY <3>2, <3>3, LinesAre
    <3> QED
      BY <3>2, <3>3, <3>4 DEF HigherIn
  <2>3. ASSUME NEW x \in own PROVE x \in HigherIn(t, ex, <<l, f>>)
    <3>1. x = <<l, x[2]>> /\ x[1] = l /\ x[2] \in 0..(f - 1)
      OBVIOUS
    <3>2. x[2] \in 0..SizeOf(t, ex, l) /\ x[2] < f
      BY <1>1, <3>1
    <3>3. x \in LinesIn(t, ex)
      BY <3>1, <3>2, LinesAre
    <3> QED
      BY <3>1, <3>2, <3>3 DEF HigherIn
  <2> HIDE DEF own, others
  <2> QED
    BY <2>1, <2>2, <2>3
<1>3. IsFiniteSet(own) /\ Cardinality(own) = f
  <2>1. IsFiniteSet(0..(f - 1)) /\ Cardinality(0..(f - 1)) = f
    <3>1. 0 \in Int
      OBVIOUS
    <3>2. IsFiniteSet(0..(f - 1)) /\ Cardinality(0..(f - 1)) = IF 0 > f - 1 THEN 0 ELSE (f - 1) - 0 + 1
      BY <1>1, <3>1, FS_Interval
    <3> QED
      BY <1>1, <3>2
  <2>2. IsFiniteSet({l}) /\ Cardinality({l}) = 1
    BY FS_Singleton
  <2> DEFINE fields == 0..(f - 1)
  <2>3. IsFiniteSet(own) /\ Cardinality(own) = 1 * f
    <3>1. own = {l} \X fields
      OBVIOUS
    <3>2. IsFiniteSet(fields) /\ Cardinality(fields) = f
      BY <2>1
    <3> HIDE DEF own, fields
    <3>3. /\ IsFiniteSet({l} \X fields)
          /\ Cardinality({l} \X fields) = Cardinality({l}) * Cardinality(fields)
      BY <2>2, <3>2, FS_Product
    <3> QED
      BY <2>2, <3>1, <3>2, <3>3
  <2> QED
    BY <1>1, <2>3
<1>4. IsFiniteSet(others) /\ Cardinality(others) \in Nat
  BY LinesFinite, FS_CardinalityType
<1>5. others \intersect own = {}
  <2>1. \A x \in others : x[1] \in 1..(l - 1)
    BY DEF LinesAbove
  <2>2. l \notin 1..(l - 1)
    BY <1>1
  <2> QED
    BY <2>1, <2>2
<1>6. Cardinality(others \union own) = Cardinality(others) + f
  <2> HIDE DEF own, others
  <2>1. Cardinality(others \union own)
          = Cardinality(others) + Cardinality(own) - Cardinality(others \intersect own)
    BY <1>3, <1>4, FS_Union
  <2>2. Cardinality(others \intersect own) = 0
    BY <1>5, FS_EmptySet
  <2> QED
    BY <1>1, <1>3, <1>4, <2>1, <2>2
<1> QED
  BY <1>2, <1>6 DEF LineOf
(* The cursor is drawn where a key has put it.                             *)
LEMMA GoneDrawn ==
  ASSUME TreeInv, InTree, Still, NEW l \in DOMAIN layers, NEW f \in Nat, GoTo(l, f),
         f \in 0..SizeOf(layers, expanded', l), treeRows > 0
  PROVE  /\ cursor2' \in Lines'
         /\ Cardinality(Higher(cursor2)') \in treeScroll'..(treeScroll' + treeRows - 1)
<1>1. layers \in Seq(Layer)
  BY InTreeFacts
<1>2. layers' = layers /\ cursor2' = <<l, f>>
  BY DEF Still, GoTo, cursor2
<1>3. Lines' = LinesIn(layers, expanded') /\ Higher(cursor2)' = HigherIn(layers, expanded', <<l, f>>)
  BY <1>2 DEF Lines, Higher, LinesIn, HigherIn, Fields, SizeOf
<1>4. Cardinality(Higher(cursor2)') = LineOf(layers, expanded', l, f)
  BY <1>1, <1>3, HigherCounted
<1>5. LineOf(layers, expanded', l, f) \in Nat /\ treeRows \in Nat /\ treeScroll \in Nat
  BY <1>1, LineTyped DEF TreeInv
<1>6. treeScroll' = Scrolled(LineOf(layers, expanded', l, f), treeScroll, treeRows)
  BY <1>5 DEF GoTo, UpdateHighlight
<1> DEFINE n == LineOf(layers, expanded', l, f)
<1>7. n \in treeScroll'..(treeScroll' + treeRows - 1)
  <2>1. n \in Nat /\ treeScroll' = Scrolled(n, treeScroll, treeRows)
    BY <1>5, <1>6
  <2> HIDE DEF n
  <2> QED
    BY <1>5, <2>1 DEF Scrolled
<1>8. cursor2' \in Lines'
  BY <1>2, <1>3, LinesAre
<1> QED
  BY <1>4, <1>7, <1>8

(* Where the keys put it.                                                  *)
LEMMA KeysGo ==
  ASSUME TreeInv, TreeKey
  PROVE  /\ InTree /\ Still
         /\ \E l \in DOMAIN layers, f \in Nat : f \in 0..SizeOf(layers, expanded', l) /\ GoTo(l, f)
<1>1. InTree /\ Still
  BY DEF TreeKey, MoveDown, MoveUp, Moving, ToggleExpand, MoveLeft, MoveRight
<1>2. TreeInv'
  BY DownStep, UpStep, ToggleStep, LeftStep, RightStep DEF TreeKey
<1>3. layers' = layers /\ layers # <<>> /\ layers \in Seq(Layer)
  BY <1>1, InTreeFacts DEF Still, InTree
<1>4. selLayer' \in DOMAIN layers /\ selField' \in Nat
      /\ (selField' # 0 => expanded'[selLayer'] /\ selField' <= Len(layers[selLayer'].fields))
  BY <1>2, <1>3 DEF TreeInv, OnLine
<1>5. SizeOf(layers, expanded', selLayer') \in Nat
  BY <1>3, <1>4, Sizes
<1>6. selField' \in 0..SizeOf(layers, expanded', selLayer')
  BY <1>4, <1>5 DEF SizeOf
<1>7. \E l, f : GoTo(l, f)
  BY DEF TreeKey, MoveDown, MoveUp, ToggleExpand, MoveLeft, MoveRight
<1>8. GoTo(selLayer', selField')
  BY <1>7 DEF GoTo
<1> QED
  BY <1>1, <1>4, <1>6, <1>8

LEMMA DrawnStep == TreeInv => CursorDrawn
<1> SUFFICES ASSUME TreeInv, TreeKey, treeRows > 0
             PROVE  /\ cursor2' \in Lines'
                    /\ Cardinality(Higher(cursor2)') \in treeScroll'..(treeScroll' + treeRows - 1)
  BY DEF CursorDrawn
<1> QED
  BY KeysGo, GoneDrawn
(* Down and Up go one line.                                                *)
LEMMA LinesHere ==
  ASSUME TreeInv, InTree
  PROVE  /\ Lines = LinesIn(layers, expanded)
         /\ \A y : Higher(y) = HigherIn(layers, expanded, y)
         /\ layers \in Seq(Layer) /\ layers # <<>>
         /\ \A l \in DOMAIN layers :
              SizeOf(layers, expanded, l) \in Nat /\ (expanded[l] => SizeOf(layers, expanded, l) = Fields(l))
<1>1. layers \in Seq(Layer) /\ layers # <<>>
  BY InTreeFacts DEF InTree
<1>2. \A l \in DOMAIN layers : SizeOf(layers, expanded, l) \in Nat
  BY <1>1, Sizes
<1>3. \A l \in DOMAIN layers : expanded[l] => SizeOf(layers, expanded, l) = Fields(l)
  BY DEF SizeOf, Fields
<1> QED
  BY <1>1, <1>2, <1>3 DEF Lines, Higher, LinesIn, HigherIn, Fields, SizeOf

LEMMA NextField ==
  ASSUME TreeInv, InTree, NEW l \in DOMAIN layers, NEW f \in Nat, f < SizeOf(layers, expanded, l)
  PROVE  NextLine(<<l, f>>, <<l, f + 1>>)
<1>1. layers \in Seq(Layer) /\ SizeOf(layers, expanded, l) \in Nat
  BY LinesHere
<1>2. f \in 0..SizeOf(layers, expanded, l) /\ f + 1 \in 0..SizeOf(layers, expanded, l)
  BY <1>1
<1>3. {<<l, f>>, <<l, f + 1>>} \subseteq LinesIn(layers, expanded)
  BY <1>2, LinesAre
<1>4. HigherIn(layers, expanded, <<l, f + 1>>) = HigherIn(layers, expanded, <<l, f>>) \union {<<l, f>>}
  BY <1>1, BelowField
<1> QED
  BY <1>3, <1>4, LinesHere DEF NextLine

LEMMA NextHeader ==
  ASSUME TreeInv, InTree, NEW l \in DOMAIN layers, l + 1 \in DOMAIN layers
  PROVE  NextLine(<<l, SizeOf(layers, expanded, l)>>, <<l + 1, 0>>)
<1>1. layers \in Seq(Layer) /\ SizeOf(layers, expanded, l) \in Nat /\ SizeOf(layers, expanded, l + 1) \in Nat
  BY LinesHere
<1>2. SizeOf(layers, expanded, l) \in 0..SizeOf(layers, expanded, l) /\ 0 \in 0..SizeOf(layers, expanded, l + 1)
  BY <1>1
<1>3. {<<l, SizeOf(layers, expanded, l)>>, <<l + 1, 0>>} \subseteq LinesIn(layers, expanded)
  BY <1>2, LinesAre
<1>4. HigherIn(layers, expanded, <<l + 1, 0>>)
        = HigherIn(layers, expanded, <<l, SizeOf(layers, expanded, l)>>) \union {<<l, SizeOf(layers, expanded, l)>>}
  BY <1>1, BelowLayer
<1> QED
  BY <1>3, <1>4, LinesHere DEF NextLine

(* The cursor is below all other lines exactly on the last one.            *)
LEMMA LowestLine ==
  ASSUME TreeInv, InTree
  PROVE  Higher(cursor2) \union {cursor2} = Lines
           => selLayer = Len(layers) /\ selField = SizeOf(layers, expanded, selLayer)
<1> DEFINE n == Len(layers)
           end == <<n, SizeOf(layers, expanded, n)>>
<1>1. /\ n \in Nat /\ DOMAIN layers = 1..n /\ selLayer \in DOMAIN layers /\ selField \in Nat
      /\ selField # 0 => expanded[selLayer] /\ selField <= Fields(selLayer)
  BY InTreeFacts
<1>2. n \in DOMAIN layers /\ SizeOf(layers, expanded, n) \in Nat
  <2>1. selLayer \in 1..n
    BY <1>1
  <2>2. n \in DOMAIN layers
    BY <1>1, <2>1
  <2> QED
    BY <2>2, LinesHere
<1>3. end \in Lines
  BY <1>2, LinesAre, LinesHere
<1>4. SUFFICES ASSUME Higher(cursor2) \union {cursor2} = Lines
               PROVE  selLayer = n /\ selField = SizeOf(layers, expanded, selLayer)
  OBVIOUS
<1>5. end = cursor2 \/ n < selLayer \/ (n = selLayer /\ SizeOf(layers, expanded, n) < selField)
  BY <1>3, <1>4 DEF Higher, cursor2
<1>6. selLayer = n => selField <= SizeOf(layers, expanded, n)
  BY <1>1, <1>2, LinesHere
<1>7. end = cursor2
  <2>1. ~(n < selLayer)
    BY <1>1
  <2>2. n = selLayer => ~(SizeOf(layers, expanded, n) < selField)
    BY <1>1, <1>2, <1>6
  <2> QED
    BY <1>5, <2>1, <2>2
<1> QED
  BY <1>7 DEF cursor2

LEMMA DownLines ==
  ASSUME TreeInv, MoveDown
  PROVE  /\ Higher(cursor2) \union {cursor2} # Lines => NextLine(cursor2, cursor2')
         /\ Higher(cursor2) \union {cursor2} = Lines => cursor2' = <<Len(layers), 0>>
<1>1. Moving /\ InTree
  BY DEF MoveDown, Moving
<1> DEFINE s == SizeOf(layers, expanded, selLayer)
           n == Len(layers)
<1>2. /\ n \in Nat /\ DOMAIN layers = 1..n /\ selLayer \in DOMAIN layers /\ selLayer \in 1..n
      /\ selField \in Nat /\ Fields(selLayer) \in Nat /\ expanded[selLayer] \in BOOLEAN
      /\ selField # 0 => expanded[selLayer] /\ selField <= Fields(selLayer)
      /\ layers \in Seq(Layer) /\ layers # <<>>
  BY <1>1, InTreeFacts, LinesHere
<1>3. s \in Nat /\ (expanded[selLayer] => s = Fields(selLayer)) /\ (~expanded[selLayer] => s = 0)
  BY <1>1, <1>2, LinesHere DEF SizeOf
<1>4. cursor2 = <<selLayer, selField>>
  BY DEF cursor2
<1>5. /\ selField < s => cursor2' = <<selLayer, selField + 1>>
      /\ ~(selField < s) => selField = s /\ cursor2' = <<NextLayer, 0>>
  <2> HIDE DEF s
  <2>1. CASE selField # 0
    <3>1. s = Fields(selLayer) /\ selField <= s
      BY <1>2, <1>3, <2>1
    <3> QED
      BY <1>2, <1>3, <2>1, <3>1 DEF MoveDown, GoTo, cursor2
  <2>2. CASE selField = 0
    <3>1. selField < s <=> expanded[selLayer] /\ Fields(selLayer) > 0
      BY <1>2, <1>3, <2>2
    <3>2. ~(selField < s) => selField = s
      BY <1>3, <2>2
    <3>3. expanded[selLayer] /\ Fields(selLayer) > 0 => cursor2' = <<selLayer, 1>>
      BY <2>2 DEF MoveDown, GoTo, cursor2
    <3>4. ~(expanded[selLayer] /\ Fields(selLayer) > 0) => cursor2' = <<NextLayer, 0>>
      BY <2>2 DEF MoveDown, GoTo, cursor2
    <3> QED
      BY <2>2, <3>1, <3>2, <3>3, <3>4
  <2> QED
    BY <2>1, <2>2
<1>6. CASE selField < s
  <2>1. NextLine(cursor2, cursor2')
    BY <1>1, <1>2, <1>4, <1>5, <1>6, NextField
  <2>2. ASSUME Higher(cursor2) \union {cursor2} = Lines PROVE FALSE
    BY <1>1, <1>2, <1>3, <1>6, <2>2, LowestLine
  <2> QED
    BY <2>1, <2>2
<1>7. CASE selField = s /\ cursor2' = <<NextLayer, 0>> /\ selLayer < n
  <2>1. NextLayer = selLayer + 1 /\ selLayer + 1 \in DOMAIN layers
    BY <1>2, <1>7 DEF NextLayer
  <2>2. NextLine(cursor2, cursor2')
    BY <1>1, <1>2, <1>4, <1>7, <2>1, NextHeader
  <2>3. ASSUME Higher(cursor2) \union {cursor2} = Lines PROVE FALSE
    BY <1>1, <1>2, <1>7, <2>3, LowestLine
  <2> QED
    BY <2>2, <2>3
<1>8. CASE selField = s /\ cursor2' = <<NextLayer, 0>> /\ ~(selLayer < n)
  <2>1. selLayer = n /\ NextLayer = n
    BY <1>2, <1>8 DEF NextLayer
  <2>2. HigherIn(layers, expanded, <<n, s>>) \union {<<n, s>>} = LinesIn(layers, expanded)
    BY <1>2, <2>1, LastLine
  <2>3. Higher(cursor2) \union {cursor2} = Lines
    BY <1>1, <1>4, <1>8, <2>1, <2>2, LinesHere
  <2> QED
    BY <1>8, <2>1, <2>3
<1> QED
  BY <1>5, <1>6, <1>7, <1>8

LEMMA UpLines ==
  ASSUME TreeInv, MoveUp, cursor2 # <<1, 0>>
  PROVE  NextLine(cursor2', cursor2)
<1>1. Moving /\ InTree
  BY DEF MoveUp, Moving
<1>2. /\ Len(layers) \in Nat /\ DOMAIN layers = 1..Len(layers) /\ selLayer \in DOMAIN layers
      /\ selLayer \in 1..Len(layers) /\ selField \in Nat
      /\ \A l \in DOMAIN layers : Fields(l) \in Nat
      /\ selField # 0 => expanded[selLayer] /\ selField <= Fields(selLayer)
  BY <1>1, InTreeFacts
<1>3. cursor2 = <<selLayer, selField>>
  BY DEF cursor2
<1>4. CASE selField # 0
  <2>1. cursor2' = <<selLayer, selField - 1>>
    BY <1>4 DEF MoveUp, GoTo, cursor2
  <2>2. SizeOf(layers, expanded, selLayer) = Fields(selLayer)
    BY <1>1, <1>2, <1>4, LinesHere
  <2>3. selField - 1 \in Nat /\ selField - 1 < SizeOf(layers, expanded, selLayer) /\ (selField - 1) + 1 = selField
    BY <1>2, <1>4, <2>2
  <2>4. NextLine(<<selLayer, selField - 1>>, <<selLayer, (selField - 1) + 1>>)
    BY <1>1, <1>2, <2>3, NextField
  <2> QED
    BY <1>3, <2>1, <2>3, <2>4
<1>5. CASE selField = 0
  <2>1. selLayer # 1
    BY <1>3, <1>5
  <2>2. cursor2' = <<selLayer - 1, SizeOf(layers, expanded, selLayer - 1)>>
    BY <1>5, <2>1 DEF MoveUp, GoTo, cursor2, SizeOf, Fields
  <2>3. selLayer - 1 \in DOMAIN layers /\ (selLayer - 1) + 1 = selLayer
    BY <1>2, <2>1
  <2>4. NextLine(<<selLayer - 1, SizeOf(layers, expanded, selLayer - 1)>>, <<(selLayer - 1) + 1, 0>>)
    BY <1>1, <1>2, <2>3, NextHeader
  <2> QED
    BY <1>3, <1>5, <2>2, <2>3, <2>4
<1> QED
  BY <1>4, <1>5

(* Up and Down walk the lines of the tree one by one, and after each key   *)
(* the line of the cursor is drawn.                                        *)
THEOREM CursorWalksLines == TreeSpec => TreeSteps
<1>1. TreeInv => WalkLines /\ CursorDrawn
  BY DownLines, UpLines, DrawnStep DEF WalkLines
<1> QED
  BY <1>1, TreeInvariant, PTL DEF TreeSteps, TreeSpec
=============================================================================
