----------------------------- MODULE MCSession -----------------------------
(* A small instance of Session for TLC: a file of one packet, its other   *)
(* name, and a file that cannot be read; one captured packet.                *)
EXTENDS Session

MCCanon == [p \in Path |-> IF p = "link" THEN "one" ELSE p]
MCDisk == [p \in Path |-> IF p = "two" THEN Garbage ELSE <<101>>]
=============================================================================
