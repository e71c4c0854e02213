------------------------------- MODULE MCLive -------------------------------
(* Small instances, for TLC, of what shows packets while they come: the    *)
(* live capture of the terminal interface and the command line mode; and   *)
(* of the exports.  They share no variable: a behaviour is one of one of   *)
(* them.                                                                   *)
EXTENDS MCCapture, Cli, Export

VARIABLE part

(* No filter tells packets apart here: one kind, an empty file and another. *)
MCOneKind == {"tcp"}
MCOneKindFiles == {<<>>, <<"tcp", "tcp">>}

Wanted(f) == [wanted |-> TRUE, flow |-> f]
Unwanted(f) == [wanted |-> FALSE, flow |-> f]
MCTraffic ==
  {<<Wanted(1), Wanted(1), Wanted(-1)>>, <<Unwanted(1), Wanted(-1), Wanted(0)>>}

MCInfos == UNION {[1..n -> {"x", "quote", "nl", "cr", "back", "comma", "ctl"}] : n \in 0..2}
               \union {<<"x", "quote", c>> : c \in {"x", "quote", "back", "comma"}}

NoCli ==
  /\ kind = (CHOOSE k \in Traffic : TRUE)
  /\ limit = (CHOOSE n \in Limits : TRUE) /\ live = FALSE /\ tracing = FALSE /\ on = TRUE /\ pipe = TRUE
  /\ loop = "done" /\ caught = 0 /\ catching = FALSE /\ queue = <<>> /\ refused = {}
  /\ stage = [i \in Numbers |-> "none"] /\ window = <<>> /\ matched = [i \in Numbers |-> NoPath]
  /\ output = <<>>
NoExport == exported = <<>> /\ day = 0 /\ month = <<>>

MCInit ==
  /\ part \in {"tui", "cli", "export"}
  /\ Init
  /\ IF part = "cli" THEN CliInit ELSE NoCli
  /\ IF part = "export" THEN ExportInit ELSE NoExport

Interface == part = "tui" /\ UNCHANGED <<part, cliVars, exportVars>>
CommandLine == part = "cli" /\ UNCHANGED <<part, vars, exportVars>>
Exports == part = "export" /\ UNCHANGED <<part, vars, cliVars>>

MCVars == <<part, vars, cliVars, exportVars>>

(* The command line mode ends, and the calendar.                           *)
Ended == loop = "done" /\ part # "tui" /\ UNCHANGED MCVars

MCNext ==
  \/ Interface /\ Next
  \/ CommandLine /\ CliNext
  \/ Exports /\ (ExportNext \/ NextMonth)
  \/ Ended

MCSpec == MCInit /\ [][MCNext]_MCVars

(* FairSpec of Capture; the loop of the command line mode never blocks     *)
(* for more than a millisecond, nor the thread it joins for more than 100. *)
MCFairSpec ==
  /\ MCSpec
  /\ WF_MCVars(Interface /\ ThreadNext) /\ WF_MCVars(Interface /\ UiNext)
  /\ WF_MCVars(CommandLine /\ CliLoop)
=============================================================================
