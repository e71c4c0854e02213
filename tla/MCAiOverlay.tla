---------------------------- MODULE MCAiOverlay ----------------------------
(* Small instances for TLC: of AiOverlay two packets, a cache for one, a   *)
(* layer with a field, and in some runs a packet without layers; of        *)
(* Bindings every file that sets one key, and some that set two.  They     *)
(* share no variable: a behaviour is one of one of them.                   *)
EXTENDS AiOverlay, Bindings

VARIABLE part

MCBare == {1}
NoBare == {}

MCUpper ==
  [s |-> "S", p |-> "P", i |-> "I", g |-> "G", q |-> "Q", c |-> "C", f |-> "F", w |-> "W", n |-> "N",
   o |-> "O", e |-> "E", j |-> "J", k |-> "K", z |-> "Z", x |-> "X"]
MCOthers == {"1", "2", "3", "4", "/", "?", "ae", "oe"}
MCLowered ==
  [Ctrl |-> "ctrl", Shift |-> "shift", Hyper |-> "hyper", Tab |-> "tab", BackTab |-> "backtab",
   Esc |-> "esc", PageDown |-> "pagedown", PageUp |-> "pageup", Enter |-> "enter", Down |-> "down"]
MCWords ==
  DOMAIN MCLowered \union DOMAIN MCUpper \union {MCUpper[c] : c \in DOMAIN MCUpper} \union MCOthers
MCLowerWord ==
  [w \in MCWords |->
     IF w \in DOMAIN MCLowered THEN MCLowered[w]
     ELSE IF \E c \in DOMAIN MCUpper : MCUpper[c] = w THEN CHOOSE c \in DOMAIN MCUpper : MCUpper[c] = w
     ELSE w]
MCStrings ==
  {<<"q">>, <<"f">>, <<"Esc">>, <<"Shift", "s">>, <<"Ctrl", "c">>, <<"Down">>, <<"Hyper", "x">>,
   <<"Shift", "g">>}
MCPaired == {"Quit", "Filter", "NextPacket", "IpInfo", "ToggleAutoScroll", "AiPacketInfo"}
MCConfigFiles ==
  {<<>>} \union UNION {[{a} -> MCStrings] : a \in Actions}
    \union UNION {[{a, b} -> {<<"q">>, <<"Esc">>, <<"f">>, <<"Hyper", "x">>}] : a, b \in MCPaired}

(* The example above KeyConfig.                                            *)
MCExample == {[Quit |-> <<"Ctrl", "q">>, Filter |-> <<"f">>, Save |-> <<"Ctrl", "s">>]}
NoConfigFile == {<<>>}

MCInit ==
  /\ part \in {"overlay", "keys"}
  /\ Init
  /\ IF part = "keys" THEN selected = 0 /\ BindInit
     ELSE BindStart("ai") /\ override = <<>> /\ ~capturing

MCNext ==
  /\ \/ part = "overlay" /\ Next /\ UNCHANGED bindVars
     \/ part = "keys" /\ BindNext /\ UNCHANGED vars
  /\ UNCHANGED part

MCSpec == MCInit /\ [][MCNext]_<<part, vars, bindVars>> /\ WF_vars(DrainOne) /\ WF_vars(WorkerNext)
=============================================================================
