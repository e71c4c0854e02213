----------------------------- MODULE MCCapture -----------------------------
(* Small instances of Capture for TLC.                                     *)
EXTENDS Capture

(* One kind of packet that is traced and passes the filter, one that is    *)
(* not and does not.                                                       *)
MCKinds == {"tcp", "arp"}
MCTraced == {"tcp"}
MCFilters == {{"tcp"}}
NoFilters == {}

(* An empty file and one of two packets.                                   *)
MCFiles == {<<>>, <<"arp", "tcp">>}
NoFiles == {}
=============================================================================
