----------------------------- MODULE MCWidgets -----------------------------
(* Small instances of the line editors, the filter language, the lists,    *)
(* the detail tree and the IP dialog for TLC.  They share no variable, so  *)
(* a behaviour is one of one of them: the state space is the sum of        *)
(* theirs, not the product.                                                *)
EXTENDS TextEntry, FilterLang, ScrollList, DetailTree, IpLookup

VARIABLE part

MCBytes == [c \in Char |-> IF c = "u" THEN 2 ELSE 1]
MCValid == {<<"a">>, <<"a", "u">>, <<" ", "a">>}
MCPresets == {<<" ", "a">>, <<"u">>}
MCSaveName == <<"u", "a">>
MCAssumed == [l \in {"picker", "recent", "preset"} |-> IF l = "picker" THEN 3 ELSE 2]

Layer(k, f) == [key |-> k, fields |-> f]
Eth == Layer("eth", <<<<0, 2>>, <<2, 3>>>>)
Ip == Layer("ip", <<<<5, 6>>, NoRange, <<3, 4>>>>)
MCFast == <<<<Eth, Ip, Layer("tcp", <<>>)>>, <<Eth>>, <<Layer("ip", <<NoRange>>)>>>>
MCDeep == <<<<Eth, Ip, Ip>>, <<Eth, Layer("tcp", <<<<3, 3>>>>)>>, <<>>>>

MCEnds == <<<<"p1", "s1">>, <<"p2", "p1">>, <<"m", "p2">>, <<"p2", "p2">>>>

MCOps == (<<"=", "=">> :> "eq") @@ (<<"!", "=">> :> "ne") @@ (<<">", "=">> :> "ge")
           @@ (<<"<", "=">> :> "le") @@ (<<">">> :> "gt") @@ (<<"<">> :> "lt")
MCKeyword == (<<"o">> :> <<"or">>) @@ (<<"f">> :> <<"field", "len">>)
MCNumberOf == (<<"7">> :> 7) @@ (<<"7", "7">> :> 77)
MCChars == {" ", "quote", "!", "=", ">", "&", "(", "o", "7"}
MCCore == {<<"and">>, <<"or">>, <<"not">>, <<"(">>, <<")">>, Str("tcp")}
MCTokens == MCCore \union {<<"field", "len">>, <<"field", "syn">>, <<"op", "eq">>, <<"contains">>,
                           Str("x"), <<"int", 7>>}

MCInit ==
  /\ part \in {"entry", "lang", "list", "tree", "ip"}
  /\ EntryInit /\ LangInit /\ ListInit /\ TreeInit /\ IpInit
  /\ part # "entry" => editor = "save"
  /\ part # "list" => list = "picker" /\ height = 0

(* No longer filter is written.                                            *)
Bounded == (Len(typed) = MaxChars \/ Len(written) >= MaxTokens) /\ UNCHANGED langVars

MCNext ==
  /\ \/ part = "entry" /\ EntryNext /\ UNCHANGED <<langVars, listVars, treeVars, ipVars>>
     \/ part = "lang" /\ (LangNext \/ Bounded) /\ UNCHANGED <<entryVars, listVars, treeVars, ipVars>>
     \/ part = "list" /\ ListNext /\ UNCHANGED <<entryVars, langVars, treeVars, ipVars>>
     \/ part = "tree" /\ TreeNext /\ UNCHANGED <<entryVars, langVars, listVars, ipVars>>
     \/ part = "ip" /\ IpNext /\ UNCHANGED <<entryVars, langVars, listVars, treeVars>>
  /\ UNCHANGED part

MCSpec == MCInit /\ [][MCNext]_<<part, entryVars, langVars, listVars, treeVars, ipVars>>
=============================================================================
