----------------------------- MODULE PacketLog -----------------------------
(***************************************************************************)
(* What a capture promises of the packet list, with no threads, channel or *)
(* drains: packets arrive in order, each is listed at most once, in the    *)
(* order of arrival and without gaps other than packets given up for good, *)
(* and the list is only ever extended, until a file replaces it.           *)
(***************************************************************************)
EXTENDS Naturals, Sequences

VARIABLES
  arrived,  \* the number of packets that have arrived
  log,      \* the packets listed, each by the number of its arrival
  given,    \* the packets given up
  replaced  \* a file has taken the place of the capture

logVars == <<arrived, log, given, replaced>>

Listed == {log[i] : i \in 1..Len(log)}
Pending == (1..arrived) \ (Listed \cup given)

Init == arrived = 0 /\ log = <<>> /\ given = {} /\ replaced = FALSE

Arrive ==
  /\ arrived' = arrived + 1
  /\ UNCHANGED <<log, given, replaced>>

(* The oldest packet that is still pending is listed next.                 *)
List ==
  /\ ~replaced
  /\ \E p \in Pending :
       /\ \A q \in Pending : p <= q
       /\ log' = Append(log, p)
  /\ UNCHANGED <<arrived, given, replaced>>

GiveUp ==
  /\ given' \subseteq given \cup Pending
  /\ given \subseteq given'
  /\ UNCHANGED <<arrived, log, replaced>>

Replace ==
  /\ replaced' = TRUE
  /\ log' \in Seq(Nat)
  /\ given' \subseteq given \cup Pending
  /\ given \subseteq given'
  /\ UNCHANGED arrived

Next == Arrive \/ List \/ GiveUp \/ Replace

Spec == Init /\ [][Next]_logVars
=============================================================================
