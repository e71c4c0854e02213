----------------------------- MODULE FilterEval -----------------------------
(***************************************************************************)
(* What a comparison of a display filter says of a packet                  *)
(* (filter/eval.rs).  Texts are sequences of characters; an address that   *)
(* was captured is written in its canonical form, one in a filter need not *)
(* be.  Addresses have Width bits in place of 32 or 128.                   *)
(***************************************************************************)
EXTENDS Integers, Sequences, FiniteSets

CONSTANTS
  Lower,     \* each character in lower case (to_ascii_lowercase)
  Rank,      \* the order of characters
  Width,     \* bits of an address
  AddressOf, \* the address that each text is that is one, as a function
  Spelled,   \* the text of each address (to_string of an IpAddr)
  NumberIn,  \* the number that each text is that is one (parse), as a function
  Written,   \* the text of each number (to_string), as a function
  Names,     \* of each protocol, the texts that match it (matches_str)
  NameOf,    \* of each protocol, its name in lower case (contains_lower)
  Packets,   \* the packets looked at
  Values,    \* the values compared with
  Absent     \* no port, no tag, no address

VARIABLE query  \* a field, an operator, a value and a packet

Ops == {"eq", "ne", "gt", "lt", "ge", "le"}
FlagBit == [fin |-> 1, syn |-> 2, rst |-> 4, psh |-> 8, ack |-> 16, urg |-> 32]
Shift == [fin |-> 0, syn |-> 1, rst |-> 2, psh |-> 3, ack |-> 4, urg |-> 5]
PfTexts == {"pf.action", "pf.direction", "pf.ifname", "pf.reason"}
Fields == {"ip.src", "ip.dst", "ip.addr", "port.src", "port.dst", "port", "proto", "len",
           "info", "eth.src", "eth.dst", "eth.addr", "vlan.id", "pf.rule",
           "enc.spi", "enc.flags"} \union PfTexts \union DOMAIN FlagBit

LowerText(w) == [i \in DOMAIN w |-> Lower[w[i]]]

(* 1 << n, and the bits of a number of w bits: what & is about.            *)
Place(n) == LET double[i \in 0..n] == IF i = 0 THEN 1 ELSE 2 * double[i - 1] IN double[n]
Bits(x, w) == {i \in 0..(w - 1) : (x \div Place(i)) % 2 = 1}
AllBits == Place(Width) - 1

-----------------------------------------------------------------------------
(* What is taken for granted of texts, addresses, packets and values.      *)

IsWord(w) == w # Absent /\ w \in Seq(DOMAIN Lower)

(* A text that was written for an address.                                 *)
IsCanonical(w) == w \in DOMAIN AddressOf => Spelled[AddressOf[w]] = w

ASSUME AbsentAssumption == Absent \notin Nat

ASSUME TextAssumption ==
  /\ Width \in Nat \ {0}
  /\ \A c \in DOMAIN Lower : Rank[Lower[c]] \in Nat
  /\ \A w \in DOMAIN NumberIn : NumberIn[w] \in Nat

(* An address is written in lower case, and read as the address it is.     *)
ASSUME SpellingAssumption ==
  \A w \in DOMAIN AddressOf :
    LET canonical == Spelled[AddressOf[w]]
    IN  /\ AddressOf[w] \in 0..AllBits
        /\ canonical \in DOMAIN AddressOf /\ AddressOf[canonical] = AddressOf[w]
        /\ LowerText(canonical) = canonical

ASSUME PacketAssumption ==
  \A p \in Packets :
    /\ IsWord(p.source) /\ IsCanonical(p.source)
    /\ IsWord(p.destination) /\ IsCanonical(p.destination)
    /\ IsWord(p.info) /\ \A mac \in {p.ethSrc, p.ethDst} \ {Absent} : IsWord(mac)
    /\ \A n \in {p.srcPort, p.dstPort, p.vlan} \ {Absent} : n \in Nat
    /\ p.wireLength \in Nat /\ p.flags \in 0..255
    /\ p.link.is = "pflog" => p.link.rule \in Nat /\ \A f \in PfTexts : IsWord(p.link.text[f])
    /\ p.link.is = "enc" => p.link.spi \in Nat /\ p.link.flags \in Nat /\ IsWord(p.link.flagsText)

ASSUME ValueAssumption ==
  \A v \in Values :
    \/ v.is = "int" /\ v.n \in Nat /\ IsWord(Written[v.n])
    \/ v.is = "str" /\ IsWord(v.w)
    \/ v.is = "cidr" /\ v.net \in 0..AllBits /\ v.p \in 0..Width

-----------------------------------------------------------------------------
(* Comparisons of numbers and texts.                                       *)

Ordered(op, less, same) ==
  CASE op = "eq" -> same [] op = "ne" -> ~same
    [] op = "lt" -> less [] op = "gt" -> ~less /\ ~same
    [] op = "le" -> less \/ same [] op = "ge" -> ~less

(* One text is before another.                                             *)
TextBefore(v, w) ==
  \E n \in 0..Len(w) :
    /\ n <= Len(v) /\ SubSeq(v, 1, n) = SubSeq(w, 1, n)
    /\ n < Len(w) /\ (n < Len(v) => Rank[v[n + 1]] < Rank[w[n + 1]])

(* cmp_int, cmp_str and cmp_str_inner.                                     *)
CmpInt(n, op, value) ==
  LET m == IF value.is = "int" THEN value.n
           ELSE IF value.is = "str" /\ value.w \in DOMAIN NumberIn THEN NumberIn[value.w] ELSE Absent
  IN  m # Absent /\ Ordered(op, n < m, n = m)

CmpStr(text, op, value) ==
  LET w == LowerText(IF value.is = "int" THEN Written[value.n] ELSE value.w)
  IN  value.is # "cidr" /\ Ordered(op, TextBefore(LowerText(text), w), LowerText(text) = w)

(* A fault: the mask of an empty prefix is not a case of its own: the      *)
(* shift takes its distance modulo the width.                              *)
MaskShifted(p) == (AllBits * Place((Width - p) % Width)) % Place(Width)

(* The mask of a prefix.                                                   *)
Mask(p) == IF p = 0 THEN 0
           ELSE IF p >= Width THEN AllBits
           ELSE (AllBits * Place(Width - p)) % Place(Width)

InNetwork(text, value) ==
  /\ text \in DOMAIN AddressOf
  /\ LET mask == Bits(Mask(value.p), Width)
     IN  Bits(AddressOf[text], Width) \intersect mask = Bits(value.net, Width) \intersect mask

(* A fault: <= and >= are those of texts.                                  *)
CmpIpStrict(text, op, value) ==
  IF value.is = "cidr"
    THEN (op = "eq" /\ InNetwork(text, value)) \/ (op = "ne" /\ ~InNetwork(text, value))
  ELSE IF op \in {"gt", "lt"} /\ value.is = "str" /\ {text, value.w} \subseteq DOMAIN AddressOf
    THEN Ordered(op, AddressOf[text] < AddressOf[value.w], AddressOf[text] = AddressOf[value.w])
  ELSE CmpStr(text, op, value)

(* cmp_ip.                                                                 *)
CmpIp(text, op, value) ==
  IF value.is = "cidr"
    THEN (op = "eq" /\ InNetwork(text, value)) \/ (op = "ne" /\ ~InNetwork(text, value))
  ELSE IF op \notin {"eq", "ne"} /\ value.is = "str" /\ {text, value.w} \subseteq DOMAIN AddressOf
    THEN Ordered(op, AddressOf[text] < AddressOf[value.w], AddressOf[text] = AddressOf[value.w])
  ELSE CmpStr(text, op, value)

(* cmp_proto.                                                              *)
CmpProto(protocol, op, value) ==
  value.is = "str" /\ op \in {"eq", "ne"} /\ (op = "eq" <=> LowerText(value.w) \in Names[protocol])

-----------------------------------------------------------------------------
(* eval_compare, eval_bare_field and eval_contains.                        *)

(* A fault: a packet without a port is different from every port.          *)
PresentOrNe(x, op, cmp) == IF x = Absent THEN op = "ne" ELSE cmp

Present(x, op, cmp) == x # Absent /\ cmp

EvalCompare(field, op, value, p) ==
  CASE field = "ip.src" -> CmpIp(p.source, op, value)
    [] field = "ip.dst" -> CmpIp(p.destination, op, value)
    [] field = "ip.addr" -> CmpIp(p.source, op, value) \/ CmpIp(p.destination, op, value)
    [] field = "port.src" -> Present(p.srcPort, op, CmpInt(p.srcPort, op, value))
    [] field = "port.dst" -> Present(p.dstPort, op, CmpInt(p.dstPort, op, value))
    [] field = "port" -> \E x \in {p.srcPort, p.dstPort} : Present(x, op, CmpInt(x, op, value))
    [] field = "proto" -> CmpProto(p.protocol, op, value)
    [] field = "len" -> CmpInt(p.wireLength, op, value)
    [] field = "info" -> CmpStr(p.info, op, value)
    [] field = "eth.src" -> Present(p.ethSrc, op, CmpStr(p.ethSrc, op, value))
    [] field = "eth.dst" -> Present(p.ethDst, op, CmpStr(p.ethDst, op, value))
    [] field = "eth.addr" -> \E x \in {p.ethSrc, p.ethDst} : Present(x, op, CmpStr(x, op, value))
    [] field = "vlan.id" -> Present(p.vlan, op, CmpInt(p.vlan, op, value))
    [] field \in DOMAIN FlagBit -> CmpInt((p.flags \div Place(Shift[field])) % 2, op, value)
    [] field \in PfTexts -> p.link.is = "pflog" /\ CmpStr(p.link.text[field], op, value)
    [] field = "pf.rule" -> p.link.is = "pflog" /\ CmpInt(p.link.rule, op, value)
    [] field = "enc.spi" -> p.link.is = "enc" /\ CmpInt(p.link.spi, op, value)
    [] field = "enc.flags" ->
         /\ p.link.is = "enc"
         /\ CASE value.is = "str" -> CmpStr(p.link.flagsText, op, value)
              [] value.is = "int" -> CmpInt(p.link.flags, op, value)
              [] OTHER -> FALSE

(* A fault: the bits of two flags are exchanged.                           *)
EvalBareFieldSwapped(field, p) ==
  LET other == IF field = "psh" THEN "ack" ELSE IF field = "ack" THEN "psh" ELSE field
  IN  Bits(p.flags, 8) \intersect Bits(FlagBit[other], 8) # {}

EvalBareField(field, p) == Bits(p.flags, 8) \intersect Bits(FlagBit[field], 8) # {}

(* str_contains_lower: every window of the length of the needle.           *)
Windows(w, n) == {SubSeq(w, i, i + n - 1) : i \in 1..(Len(w) - n + 1)}

(* A fault: the last window is left out.                                   *)
ContainsLowerShort(w, needle) ==
  needle = <<>> \/ \E v \in {SubSeq(w, i, i + Len(needle) - 1) : i \in 1..(Len(w) - Len(needle))} :
                     LowerText(v) = needle

ContainsLower(w, needle) ==
  needle = <<>> \/ (Len(w) >= Len(needle)
                    /\ \E v \in Windows(w, Len(needle)) : LowerText(v) = needle)

(* The texts of a packet that contains looks into; numbers are none.       *)
TextsOf(field, p) ==
  (CASE field = "ip.src" -> {p.source} [] field = "ip.dst" -> {p.destination}
     [] field = "ip.addr" -> {p.source, p.destination} [] field = "info" -> {p.info}
     [] field = "eth.src" -> {p.ethSrc} [] field = "eth.dst" -> {p.ethDst}
     [] field = "eth.addr" -> {p.ethSrc, p.ethDst}
     [] field = "proto" -> {NameOf[p.protocol]}
     [] field \in PfTexts /\ p.link.is = "pflog" -> {p.link.text[field]}
     [] field = "enc.flags" /\ p.link.is = "enc" -> {p.link.flagsText}
     [] OTHER -> {}) \ {Absent}
EvalContains(field, needle, p) == \E w \in TextsOf(field, p) : ContainsLower(w, needle)

(* matches; And, Or and Not are the connectives of logic.                  *)
Matches(e, p) ==
  CASE e.is = "proto" -> e.name \in Names[p.protocol]
    [] e.is = "bare" -> EvalBareField(e.field, p)
    [] e.is = "contains" -> EvalContains(e.field, e.needle, p)
    [] OTHER -> EvalCompare(e.field, e.op, e.value, p)

-----------------------------------------------------------------------------
(* Every field, operator, value and packet is asked about in turn.         *)

EvalInit ==
  query \in [field : {"len"}, op : {"eq"}, value : Values, p : Packets]

Ask == \/ \E f \in Fields : query' = [query EXCEPT !.field = f]
       \/ \E op \in Ops : query' = [query EXCEPT !.op = op]

EvalSpec == EvalInit /\ [][Ask]_query

Answer(op) == Matches([is |-> "cmp", field |-> query.field, op |-> op, value |-> query.value], query.p)

-----------------------------------------------------------------------------
(* Properties.                                                             *)

EitherEnd == {"ip.addr", "port", "eth.addr"}
Canonical ==
  query.value.is = "str" /\ query.value.w \in DOMAIN AddressOf
    => Spelled[AddressOf[query.value.w]] = query.value.w

(* The bits of a prefix decide, from no bit to all of them: the mask is    *)
(* never shifted out of its width (cmp_ip).                                *)
PrefixDecides ==
  query.value.is = "cidr" /\ query.field \in {"ip.src", "ip.dst"} =>
    LET text == IF query.field = "ip.src" THEN query.p.source ELSE query.p.destination
        size == Place(Width - query.value.p)
    IN  Answer("eq") <=> /\ text \in DOMAIN AddressOf
                         /\ AddressOf[text] \div size = query.value.net \div size

(* A field of one value that can be compared at all has exactly one of     *)
(* three orders to the value, and the other operators follow from it,      *)
(* although addresses are compared as texts by some operators and as       *)
(* numbers by others (cmp_ip, cmp_str_inner, cmp_int).  The value is       *)
(* spelled as the packet's address would be.                               *)
OneOrder ==
  /\ query.field \notin EitherEnd /\ Canonical /\ (Answer("eq") \/ Answer("ne"))
  /\ query.field # "proto" /\ query.value.is # "cidr"
  => /\ Cardinality({op \in {"lt", "eq", "gt"} : Answer(op)}) = 1
     /\ Answer("le") <=> (Answer("lt") \/ Answer("eq"))
     /\ Answer("ge") <=> (Answer("gt") \/ Answer("eq"))
     /\ Answer("ne") <=> ~Answer("eq")

(* A packet without the field satisfies no comparison, != neither, so that *)
(* != and the negation of == are different filters (eval_compare).         *)
AbsentNeverMatches ==
  /\ query.field = "port.src" /\ query.p.srcPort = Absent => ~Answer(query.op)
  /\ query.field = "vlan.id" /\ query.p.vlan = Absent => ~Answer(query.op)
  /\ query.field = "eth.src" /\ query.p.ethSrc = Absent => ~Answer(query.op)

(* A flag by itself says what a comparison of it with 1 and with 0 says:   *)
(* the masks of the one and the shifts of the other name the same bits     *)
(* (eval_bare_field, eval_compare).                                        *)
FlagsAgree ==
  query.field \in DOMAIN FlagBit =>
    LET set == Matches([is |-> "bare", field |-> query.field], query.p)
    IN  /\ set <=> EvalCompare(query.field, "eq", [is |-> "int", n |-> 1], query.p)
        /\ set <=> ~EvalCompare(query.field, "eq", [is |-> "int", n |-> 0], query.p)

(* What a field equals it contains, whatever the case of its letters, and  *)
(* with anything written before or behind it as well (str_contains_lower). *)
EqualIsContained ==
  query.value.is = "str" /\ query.field \in {"info", "eth.src", "ip.src"} \union PfTexts =>
    LET needle == LowerText(query.value.w)
    IN  /\ Answer("eq") => Matches([is |-> "contains", field |-> query.field, needle |-> needle], query.p)
        /\ \A w \in TextsOf(query.field, query.p) :
             ContainsLower(w \o query.value.w, needle) /\ ContainsLower(query.value.w \o w, needle)

(* The comparisons of a filter are consistent with each other.             *)
EvalSound == PrefixDecides /\ OneOrder /\ AbsentNeverMatches /\ FlagsAgree /\ EqualIsContained
=============================================================================
