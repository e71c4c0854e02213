----------------------------- MODULE IpLookup -----------------------------
(***************************************************************************)
(* The IP information dialog (ipinfo/lookup.rs and app.rs): addresses of   *)
(* special ranges are answered at once, public ones by a thread that asks  *)
(* for the network and then for its name, and answers are kept in a cache. *)
(* The main loop takes every answer that is there; taking them one at a    *)
(* time gives the same behaviours, since an answer may as well come after  *)
(* the others were taken.                                                  *)
(***************************************************************************)
EXTENDS Integers, Sequences, FiniteSets, SequencesExt

CONSTANTS
  Public,    \* addresses that have to be asked for
  Special,   \* addresses of special ranges (check_special)
  NotIp,     \* MAC addresses
  Ends,      \* source and destination of each packet
  CacheMax,  \* MAX_CACHE_SIZE
  Evicted,   \* MAX_CACHE_SIZE / 4
  Unknown    \* no entry, no address shown

Address == Public \union Special \union NotIp

ASSUME AddressAssumption == Ends \in Seq(Address \X Address)
ASSUME CacheAssumption == CacheMax \in Nat \ {0} /\ Evicted \in 1..CacheMax

VARIABLES
  cache,     \* IpLookup.cache
  inFlight,  \* IpLookup.in_flight
  lookups,   \* ipinfo_rx: the receivers, each with where its thread is
  died,      \* addresses whose thread ended without an answer (history)
  dialog,    \* show_ipinfo_dialog
  ipSrc, ipDst,  \* ipinfo_src, ipinfo_dst
  selected,  \* selected_packet, or 0
  resolved   \* the packet whose addresses the dialog resolved last (history)

ends == <<ipSrc, ipDst>>
ipVars == <<cache, inFlight, lookups, died, dialog, ends, selected, resolved>>

Answers == {"complete", "unnamed", "failed"}
Infos == [address : Address, info : Answers \union {"special", "pending"}]
Shown == Infos \union {Unknown}

ASSUME UnknownAssumption == Unknown \notin Answers \union {"special"} /\ Unknown \notin Infos

IpTypeOK ==
  /\ cache \in [Public \union Special -> Answers \union {"special", Unknown}]
  /\ inFlight \subseteq Public /\ died \subseteq Public
  /\ lookups \in Seq([address : Public, at : Answers \union {"origin", "name", "dead"}])
  /\ dialog \in BOOLEAN /\ ipSrc \in Shown /\ ipDst \in Shown
  /\ selected \in 0..Len(Ends) /\ resolved \in 0..Len(Ends)

Size == Cardinality({a \in DOMAIN cache : cache[a] # Unknown})

-----------------------------------------------------------------------------
(* resolve_ipinfo, as a function from the lookup's state to its next one   *)
(* and to what is shown.                                                   *)

State == [cache |-> cache, inFlight |-> inFlight, lookups |-> lookups]

(* A fault: a lookup is begun although one is in flight.                   *)
BeginsAlways(s, a) == a \in Public /\ s.cache[a] = Unknown

(* A thread is spawned.                                                    *)
Begins(s, a) == a \in Public /\ s.cache[a] = Unknown /\ a \notin s.inFlight

After(s, a) ==
  [cache |-> IF a \in Special THEN [s.cache EXCEPT ![a] = "special"] ELSE s.cache,
   inFlight |-> IF Begins(s, a) THEN s.inFlight \union {a} ELSE s.inFlight,
   lookups |-> IF Begins(s, a) THEN Append(s.lookups, [address |-> a, at |-> "origin"])
                               ELSE s.lookups]

ShownAs(s, a) ==
  IF a \in NotIp THEN Unknown
  ELSE [address |-> a, info |-> CASE a \in Special -> "special"
                                  [] s.cache[a] # Unknown -> s.cache[a]
                                  [] OTHER -> "pending"]

(* A fault: only the source is looked up for the next packet.              *)
ResolveSource(p) ==
  LET s == After(State, Ends[p][1])
  IN  /\ ipSrc' = ShownAs(State, Ends[p][1]) /\ UNCHANGED ipDst
      /\ cache' = s.cache /\ inFlight' = s.inFlight /\ lookups' = s.lookups
      /\ resolved' = p

(* open_ipinfo_dialog and refresh_ipinfo: the source, then the destination.*)
Resolve(p) ==
  LET s == After(State, Ends[p][1])
      t == After(s, Ends[p][2])
  IN  /\ ipSrc' = ShownAs(State, Ends[p][1]) /\ ipDst' = ShownAs(s, Ends[p][2])
      /\ cache' = t.cache /\ inFlight' = t.inFlight /\ lookups' = t.lookups
      /\ resolved' = p

-----------------------------------------------------------------------------

IpInit ==
  /\ cache = [a \in Public \union Special |-> Unknown] /\ inFlight = {}
  /\ lookups = <<>> /\ died = {} /\ dialog = FALSE
  /\ ipSrc = Unknown /\ ipDst = Unknown /\ selected = 0 /\ resolved = 0

IpOpen ==
  /\ ~dialog /\ selected # 0 /\ dialog' = TRUE
  /\ Resolve(selected)
  /\ UNCHANGED <<died, selected>>

IpClose ==
  /\ dialog /\ dialog' = FALSE
  /\ UNCHANGED <<cache, inFlight, lookups, died, ends, selected, resolved>>

(* A fault: the next packet after the last.                                *)
IpMoveUnclamped(p) ==
  /\ dialog /\ p = selected
  /\ selected' = p + 1 /\ Resolve(p)
  /\ UNCHANGED <<died, dialog>>

(* Next and previous packet, in the dialog.                                *)
IpMove(p) ==
  /\ dialog /\ p \in {selected - 1, selected, selected + 1} \intersect DOMAIN Ends
  /\ selected' = p /\ Resolve(p)
  /\ UNCHANGED <<died, dialog>>

(* Another packet is selected: by a key while the dialog is closed, and by *)
(* a packet that arrives whether it is or not (auto_scroll).               *)
IpSelect(p) ==
  /\ selected' = p
  /\ UNCHANGED <<cache, inFlight, lookups, died, dialog, ends, resolved>>

(* query_cymru in its thread: a first question that may fail, and one for  *)
(* the name; or the thread ends by itself.                                 *)
Ask(i) ==
  /\ \/ lookups[i].at = "origin"
        /\ \E at \in {"name", "failed"} : lookups' = [lookups EXCEPT ![i].at = at]
     \/ lookups[i].at = "name"
        /\ \E at \in {"complete", "unnamed"} : lookups' = [lookups EXCEPT ![i].at = at]
  /\ UNCHANGED <<cache, inFlight, died, dialog, ends, selected, resolved>>

Die(i) ==
  /\ lookups[i].at \in {"origin", "name"}
  /\ lookups' = [lookups EXCEPT ![i].at = "dead"]
  /\ died' = died \union {lookups[i].address}
  /\ UNCHANGED <<cache, inFlight, dialog, ends, selected, resolved>>

(* IpLookup::insert: any quarter of the entries goes, in the order of the  *)
(* hash map.                                                               *)
Cached(c, a, info) ==
  LET held == {b \in DOMAIN c : c[b] # Unknown}
      without(gone) == [b \in DOMAIN c |-> IF b \in gone THEN Unknown ELSE c[b]]
  IN  IF Cardinality(held) >= CacheMax
        THEN {[without(gone) EXCEPT ![a] = info] :
                gone \in {g \in SUBSET held : Cardinality(g) = Evicted}}
        ELSE {[c EXCEPT ![a] = info]}

(* A fault: only the answer for the source is shown.                       *)
AnsweredSource(shown, a, info) ==
  IF dialog /\ shown = ipSrc /\ shown # Unknown /\ shown.address = a
    THEN [address |-> a, info |-> info] ELSE shown

Answered(shown, a, info) ==
  IF dialog /\ shown # Unknown /\ shown.address = a
    THEN [address |-> a, info |-> info] ELSE shown

(* drain_ipinfo_results, for one receiver.                                 *)
IpDrain(i) ==
  /\ lookups[i].at \notin {"origin", "name"}
  /\ lookups' = RemoveAt(lookups, i)
  /\ LET a == lookups[i].address  info == lookups[i].at
     IN  IF info = "dead" THEN UNCHANGED <<cache, inFlight, ends>>
         ELSE /\ inFlight' = inFlight \ {a}
              /\ cache' \in Cached(cache, a, info)
              /\ ipSrc' = Answered(ipSrc, a, info) /\ ipDst' = Answered(ipDst, a, info)
  /\ UNCHANGED <<died, dialog, selected, resolved>>

IpNext ==
  \/ IpOpen \/ IpClose
  \/ \E p \in DOMAIN Ends : IpMove(p) \/ IpSelect(p)
  \/ \E i \in DOMAIN lookups : Ask(i) \/ Die(i) \/ IpDrain(i)

IpSpec == IpInit /\ [][IpNext]_ipVars

-----------------------------------------------------------------------------
(* Properties.                                                             *)

(* No address is asked for by two threads, and each that is marked in      *)
(* flight is waited for, unless its thread died: then it stays marked and  *)
(* is never asked for again (mark_in_flight, is_in_flight, insert).        *)
OneLookup ==
  /\ \A i, j \in DOMAIN lookups : lookups[i].address = lookups[j].address => i = j
  /\ inFlight = {lookups[i].address : i \in DOMAIN lookups} \union died

(* A dialog that says that it is looking an address up has a reason: the   *)
(* answer is still to come.  One that came was shown on both sides, also   *)
(* when both ends are the same address (drain_ipinfo_results).             *)
PendingIsInFlight ==
  dialog => \A e \in {ipSrc, ipDst} \ {Unknown} : e.info = "pending" => e.address \in inFlight

(* Both halves of the dialog are of one packet, whatever answers came in   *)
(* since it was resolved and however the selection moved (auto_scroll does *)
(* not refresh the dialog).                                                *)
DialogOfOnePacket ==
  dialog => \A k \in 1..2 :
    LET e == <<ipSrc, ipDst>>[k]  a == Ends[resolved][k]
    IN  IF a \in NotIp THEN e = Unknown ELSE e # Unknown /\ e.address = a

(* Lookups, what is in flight and what the dialog says agree.              *)
LookupSound == IpTypeOK /\ OneLookup /\ PendingIsInFlight /\ DialogOfOnePacket
=============================================================================
