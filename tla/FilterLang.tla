----------------------------- MODULE FilterLang -----------------------------
(***************************************************************************)
(* The language of display filters (filter/parser.rs): characters to       *)
(* tokens, and tokens to an expression by recursive descent.  The filter   *)
(* is typed one character, or written one token, after the other.          *)
(***************************************************************************)
EXTENDS Integers, Sequences, FiniteSets, SequencesExt, TLC

CONSTANTS
  Letter,      \* characters of words: letters, digits and _ . : /
  Keyword,     \* the token of each word that is one, as a function
  NumberOf,    \* the number that each numeric word stands for
  OpsOf,       \* compare_op: its characters and its name, as a function
  Known,       \* texts that are protocol names (Protocol::is_known_name)
  Flags,       \* boolean fields (Field::is_boolean)
  Tokens,      \* the tokens written
  Core,        \* those of them that longer filters are written with
  Chars,       \* the characters typed
  MaxChars, MaxTokens, MaxCore  \* bounds

VARIABLES
  typed,    \* filter_input, as characters
  written   \* or as tokens

langVars == <<typed, written>>

Fail == <<"error">>
Str(w) == <<"str", w>>

-----------------------------------------------------------------------------
(* tokenize: a sequence of tokens, or Fail.                                *)

Blank == " "
Quote == "quote"
Pairs == [p \in {<<"=", "=">>, <<"!", "=">>, <<">", "=">>, <<"<", "=">>} |-> <<"op", OpsOf[p]>>]
           @@ (<<"&", "&">> :> <<"and">>) @@ (<<"|", "|">> :> <<"or">>)
Singles == (">" :> <<"op", OpsOf[<<">">>]>>) @@ ("<" :> <<"op", OpsOf[<<"<">>]>>)
             @@ ("!" :> <<"not">>) @@ ("(" :> <<"(">>) @@ (")" :> <<")">>)

(* The first position from i on of something else.                         *)
Past(S, s, i) ==
  CHOOSE j \in i..(Len(s) + 1) :
    (j <= Len(s) => s[j] \notin S) /\ \A k \in i..(j - 1) : s[k] \in S

(* A word is a keyword, a number, or a text.                               *)
WordToken(w) ==
  IF w \in DOMAIN Keyword THEN Keyword[w]
  ELSE IF w \in DOMAIN NumberOf THEN <<"int", NumberOf[w]>> ELSE Str(w)

FirstTwo(s) == IF Len(s) > 1 THEN SubSeq(s, 1, 2) ELSE s

(* A fault: operators of one character are looked for first.               *)
OperatorShort(s) ==
  IF s[1] \in DOMAIN Singles THEN <<Singles[s[1]], 1>>
  ELSE IF FirstTwo(s) \in DOMAIN Pairs THEN <<Pairs[FirstTwo(s)], 2>> ELSE <<>>

(* The operator or bracket that a text begins with, and its length.        *)
Operator(s) ==
  IF FirstTwo(s) \in DOMAIN Pairs THEN <<Pairs[FirstTwo(s)], 2>>
  ELSE IF s[1] \in DOMAIN Singles THEN <<Singles[s[1]], 1>> ELSE <<>>

(* A fault: words go over blanks.                                          *)
WordEndBlank(s) == Past(Letter \union {Blank}, s, 1)

WordEnd(s) == Past(Letter, s, 1)

Prepend(t, rest) == IF rest = Fail THEN Fail ELSE <<t>> \o rest

RECURSIVE Tokenize(_)
Tokenize(s) ==
  LET rest(i) == Tokenize(SubSeq(s, i, Len(s)))
  IN  IF s = <<>> THEN <<>>
      ELSE IF s[1] = Blank THEN rest(2)
      ELSE IF Operator(s) # <<>> THEN Prepend(Operator(s)[1], rest(1 + Operator(s)[2]))
      ELSE IF s[1] = Quote
        THEN LET end == Past(Chars \ {Quote}, s, 2)
             IN  IF end > Len(s) THEN Fail
                 ELSE Prepend(Str(SubSeq(s, 2, end - 1)), rest(end + 1))
      ELSE IF s[1] \in Letter
        THEN Prepend(WordToken(SubSeq(s, 1, WordEnd(s) - 1)), rest(WordEnd(s)))
      ELSE Fail

-----------------------------------------------------------------------------
(* The parser: an expression with the position after it, or Fail.          *)

At(ts, i) == IF i \in DOMAIN ts THEN ts[i] ELSE <<"end">>
Got(e, i) == [e |-> e, pos |-> i]
Failed(r) == r.e = Fail
IsOperator(t) == t[1] \in {"op", "contains"}

(* Fields, values and operators.                                           *)
Operand(ts, i, field) ==
  LET op == At(ts, i)  value == At(ts, i + 1)
  IN  IF field \in Flags /\ ~IsOperator(op) THEN Got(<<"bare", field>>, i)
      ELSE IF ~IsOperator(op) \/ value[1] \notin {"str", "int"} THEN Got(Fail, i)
      ELSE Got(<<op, field, value>>, i + 2)

RECURSIVE ParseOr(_, _), ParseAnd(_, _), ParseNot(_, _), OrTail(_, _), AndTail(_, _)

ParsePrimary(ts, i) ==
  LET t == At(ts, i)
  IN  IF t[1] = "(" THEN
        LET r == ParseOr(ts, i + 1)
        IN  IF Failed(r) \/ At(ts, r.pos)[1] # ")" THEN Got(Fail, i) ELSE Got(r.e, r.pos + 1)
      ELSE IF t[1] = "str" /\ t[2] \in Known /\ ~IsOperator(At(ts, i + 1))
        THEN Got(<<"proto", t[2]>>, i + 1)
      ELSE IF t[1] = "field" THEN Operand(ts, i + 1, t[2])
      ELSE Got(Fail, i)

(* A fault: what follows is all negated.                                   *)
ParseNotWide(ts, i) ==
  IF At(ts, i)[1] = "not"
    THEN LET r == ParseAnd(ts, i + 1) IN IF Failed(r) THEN r ELSE Got(<<"not", r.e>>, r.pos)
    ELSE ParsePrimary(ts, i)

ParseNot(ts, i) ==
  IF At(ts, i)[1] = "not"
    THEN LET r == ParseNot(ts, i + 1) IN IF Failed(r) THEN r ELSE Got(<<"not", r.e>>, r.pos)
    ELSE ParsePrimary(ts, i)

(* The loops of parse_and and parse_or.                                    *)
AndTail(ts, left) ==
  IF Failed(left) \/ At(ts, left.pos)[1] # "and" THEN left
  ELSE LET right == ParseNot(ts, left.pos + 1)
       IN  IF Failed(right) THEN right ELSE AndTail(ts, Got(<<"and", left.e, right.e>>, right.pos))
ParseAnd(ts, i) == AndTail(ts, ParseNot(ts, i))

OrTail(ts, left) ==
  IF Failed(left) \/ At(ts, left.pos)[1] # "or" THEN left
  ELSE LET right == ParseAnd(ts, left.pos + 1)
       IN  IF Failed(right) THEN right ELSE OrTail(ts, Got(<<"or", left.e, right.e>>, right.pos))
ParseOr(ts, i) == OrTail(ts, ParseAnd(ts, i))

(* parse, of tokens.                                                       *)
Parse(ts) ==
  LET r == ParseOr(ts, 1)
  IN  IF ts = <<>> \/ Failed(r) \/ r.pos <= Len(ts) THEN Fail ELSE r.e

-----------------------------------------------------------------------------

LangInit == typed = <<>> /\ written = <<>>

Type(c) ==
  /\ written = <<>> /\ Len(typed) < MaxChars
  /\ typed' = Append(typed, c) /\ UNCHANGED written

Write(t) ==
  /\ typed = <<>>
  /\ Len(written) < MaxTokens \/ (Len(written) < MaxCore /\ Range(written) \union {t} \subseteq Core)
  /\ written' = Append(written, t) /\ UNCHANGED typed

LangNext == (\E c \in Chars : Type(c)) \/ (\E t \in Tokens : Write(t))

-----------------------------------------------------------------------------
(* The grammar, as sets of derivations of a sequence of tokens (the        *)
(* comment at the head of parser.rs): it does not say in which order the   *)
(* tokens are read.                                                        *)

Before(ts, k) == SubSeq(ts, 1, k - 1)
Behind(ts, k) == SubSeq(ts, k + 1, Len(ts))

Atoms(ts) ==
  {<<"proto", ts[k][2]>> : k \in {j \in DOMAIN ts : Len(ts) = 1 /\ ts[j][1] = "str" /\ ts[j][2] \in Known}}
  \union {<<"bare", ts[k][2]>> :
            k \in {j \in DOMAIN ts : Len(ts) = 1 /\ ts[j][1] = "field" /\ ts[j][2] \in Flags}}
  \union {<<ts[2], ts[1][2], ts[3]>> :
            k \in {j \in {1} : /\ Len(ts) = 3 /\ ts[1][1] = "field"
                               /\ IsOperator(ts[2]) /\ ts[3][1] \in {"str", "int"}}}

RECURSIVE OrExprs(_), AndExprs(_), NotExprs(_)
Joined(op, ts, Lefts(_), Rights(_)) ==
  UNION {{<<op, l, r>> : l \in Lefts(Before(ts, k)), r \in Rights(Behind(ts, k))} :
           k \in {j \in DOMAIN ts : ts[j][1] = op}}
NotExprs(ts) ==
  IF ts = <<>> THEN {}
  ELSE Atoms(ts)
    \union (IF ts[1][1] = "not" THEN {<<"not", e>> : e \in NotExprs(Tail(ts))} ELSE {})
    \union (IF ts[1][1] = "(" /\ Last(ts)[1] = ")" /\ Len(ts) > 1
              THEN OrExprs(SubSeq(ts, 2, Len(ts) - 1)) ELSE {})
AndExprs(ts) == NotExprs(ts) \union Joined("and", ts, AndExprs, NotExprs)
OrExprs(ts) == AndExprs(ts) \union Joined("or", ts, OrExprs, AndExprs)

(* A filter is accepted exactly when the grammar derives it, and then as   *)
(* the only expression that the grammar gives it: how and, or and not bind *)
(* (parse, parse_or, parse_and, parse_not, parse_primary).                 *)
ParserIsGrammar == OrExprs(written) = {Parse(written)} \ {Fail}

(* A blank between two operators, brackets or whole words changes nothing: *)
(* what is before and what is behind it are read by themselves, unless it  *)
(* is in quotes (tokenize).                                                *)
BlankSeparates ==
  \A k \in {j \in DOMAIN typed : typed[j] = Blank} :
    LET left == Tokenize(Before(typed, k))  right == Tokenize(Behind(typed, k))
    IN  left # Fail => Tokenize(typed) = (IF right = Fail THEN Fail ELSE left \o right)

(* An operator of two characters is never read as one and a rest, wherever *)
(* outside quotes it stands (tokenize).                                    *)
LongestFirst ==
  LET ts == Tokenize(typed)
  IN  ts # Fail /\ Quote \notin Range(typed) =>
        \A k \in 1..(Len(typed) - 1) : SubSeq(typed, k, k + 1) = <<"!", "=">>
          => \E t \in Range(ts) : t = <<"op", OpsOf[<<"!", "=">>]>>

(* The text of a filter means what its grammar says.                       *)
LangSound == ParserIsGrammar /\ BlankSeparates /\ LongestFirst
=============================================================================
