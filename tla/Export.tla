------------------------------- MODULE Export -------------------------------
(***************************************************************************)
(* Packets as text: the three formats of the export dialog (export/*.rs)   *)
(* and of the command line mode (cli.rs), and the calendar for times.      *)
(* A text is a sequence of characters, of which only those that a format   *)
(* gives a meaning to are told apart: "comma", "quote", "back" for the     *)
(* backslash, "nl" for a line feed, "cr" for a carriage return and "ctl"   *)
(* for another control character.                                          *)
(***************************************************************************)
EXTENDS Integers, Sequences, FiniteSets, SequencesExt

CONSTANTS
  Infos,    \* what PacketSummary.info and the interface of pf may be
  MaxDay    \* bound: the day after 1970-01-01 up to which months begin

(* An info or an interface is a text.                                      *)
ASSUME InfoAssumption == \A text \in Infos : text \in Seq(ToSet(text))

VARIABLES
  exported, \* the packets of the file, as far as the columns of two differ
  day,      \* days from the epoch to the first of a month
  month     \* its year and month, counted on from January 1970

exportVars == <<exported, day, month>>

-----------------------------------------------------------------------------
(* export/csv.rs.                                                          *)

Doubled(s) == FlattenSeq([i \in DOMAIN s |-> IF s[i] = "quote" THEN <<"quote", "quote">> ELSE <<s[i]>>])
Quoted(s) == <<"quote">> \o Doubled(s) \o <<"quote">>

(* A fault: a comma is no reason to quote.                                 *)
CsvEscapeComma(s) == IF {"quote", "nl", "cr"} \intersect ToSet(s) # {} THEN Quoted(s) ELSE s

CsvEscape(s) == IF {"quote", "comma", "nl", "cr"} \intersect ToSet(s) # {} THEN Quoted(s) ELSE s

Line(fields) ==
  FlattenSeq([n \in DOMAIN fields |-> Append(fields[n], IF n = Len(fields) THEN "nl" ELSE "comma")])

(* The names of the columns, in CSV and in JSON. What a column that no     *)
(* property asks about holds is one character of its own.                  *)
ExportColumns ==
  <<"index", "timestamp", "absolute_time", "source", "destination", "protocol", "length",
    "src_port", "dst_port", "info", "pf_action", "pf_direction", "pf_interface", "pf_rule",
    "pf_reason", "enc_spi", "enc_flags">>

PflogColumns == {"pf_action", "pf_direction", "pf_interface", "pf_rule", "pf_reason"}
EncColumns == {"enc_spi", "enc_flags"}

(* ExportPacket::from_summary: the members that are not None. A packet of  *)
(* pf or of an IPsec interface has been given no ports here.               *)
Members(p) ==
  ToSet(ExportColumns) \ UNION {IF p.meta = "pflog" THEN {} ELSE PflogColumns,
                          IF p.meta = "enc" THEN {} ELSE EncColumns,
                          IF p.ports THEN {} ELSE {"src_port", "dst_port"},
                          IF p.based THEN {} ELSE {"absolute_time"}}

FromSummary(p) ==
  [c \in Members(p) |->
     CASE c = "info" -> p.info [] c = "pf_interface" -> p.ifname
       [] c = "enc_flags" -> <<"number">> [] OTHER -> <<c>>]

(* write_csv_row: the same columns, empty where there is nothing.          *)
Cell(p, c) ==
  CASE c \in {"src_port", "dst_port"} -> IF p.ports THEN <<c>> ELSE <<>>
    [] c = "absolute_time" -> IF p.based THEN <<c>> ELSE <<>>
    [] c = "info" -> p.info
    [] c = "pf_interface" -> IF p.meta = "pflog" THEN p.ifname ELSE <<>>
    [] c \in PflogColumns \ {"pf_interface"} -> IF p.meta = "pflog" THEN <<c>> ELSE <<>>
    [] c \in EncColumns -> IF p.meta = "enc" THEN <<c>> ELSE <<>>
    [] OTHER -> <<c>>

(* A fault: the ports come after the info, as in JSON.                     *)
CsvFieldsPortsLast(p) ==
  [n \in DOMAIN ExportColumns |->
     Cell(p, CASE n = 8 -> "info" [] n = 9 -> "src_port" [] n = 10 -> "dst_port" [] OTHER -> ExportColumns[n])]

CsvFields(p) == [n \in DOMAIN ExportColumns |-> Cell(p, ExportColumns[n])]

WriteCsvRow(p) == Line([n \in DOMAIN ExportColumns |-> CsvEscape(CsvFields(p)[n])])

CsvHeader == Line([n \in DOMAIN ExportColumns |-> Quoted(<<ExportColumns[n]>>)])

-----------------------------------------------------------------------------
(* cli.rs: every text is quoted there, and there are nine columns; a JSON  *)
(* object is one line.                                                     *)

(* A fault: quotes are left as they are.                                   *)
CliEscapeNothing(s) == s

CliEscape(s) == Doubled(s)

CliColumns == <<"No", "Time", "Source", "Destination", "Protocol", "Length", "Info", "Process", "Path">>
CliCell(p, c) == CASE c = "Info" -> p.info [] c = "Process" -> p.ifname [] OTHER -> <<c>>

CliCsv(p) ==
  Line([n \in DOMAIN CliColumns |->
          LET text == CliCell(p, CliColumns[n])
          IN IF n \in {1, 2, 6} THEN text ELSE <<"quote">> \o CliEscape(text) \o <<"quote">>])

CliHeader == Line([n \in DOMAIN CliColumns |-> <<CliColumns[n]>>])

(* A fault: the character that escapes is not escaped itself.              *)
EscapeJsonQuotes(s) ==
  FlattenSeq([i \in DOMAIN s |->
    CASE s[i] = "quote" -> <<"back", "quote">> [] s[i] = "nl" -> <<"back", "n">>
      [] s[i] = "cr" -> <<"back", "r">> [] s[i] = "ctl" -> <<"back", "u">> [] OTHER -> <<s[i]>>])

EscapeJson(s) ==
  FlattenSeq([i \in DOMAIN s |->
    CASE s[i] = "quote" -> <<"back", "quote">> [] s[i] = "back" -> <<"back", "back">>
      [] s[i] = "nl" -> <<"back", "n">> [] s[i] = "cr" -> <<"back", "r">> [] s[i] = "ctl" -> <<"back", "u">> [] OTHER -> <<s[i]>>])

(* The member of the object that holds the info.                           *)
JsonInfo(p) == <<"quote">> \o EscapeJson(p.info) \o <<"quote">>

-----------------------------------------------------------------------------
(* epoch_days_to_date of export/mod.rs.                                    *)

(* A fault: the year of the algorithm, which begins in March, is taken for *)
(* that of the calendar.                                                   *)
CivilYearFromMarch(y, m) == y

CivilYear(y, m) == IF m <= 2 THEN y + 1 ELSE y

EpochDaysToDate(days) ==
  LET z == days + 719468
      era == z \div 146097
      doe == z - era * 146097
      yoe == (doe - doe \div 1460 + doe \div 36524 - doe \div 146096) \div 365
      doy == doe - (365 * yoe + yoe \div 4 - yoe \div 100)
      mp == (5 * doy + 2) \div 153
      m == IF mp < 10 THEN mp + 3 ELSE mp - 9
  IN <<CivilYear(yoe + era * 400, m), m, doy - (153 * mp + 2) \div 5 + 1>>

-----------------------------------------------------------------------------
(* The calendar as it is defined.                                          *)

IsLeap(y) == y % 4 = 0 /\ (y % 100 # 0 \/ y % 400 = 0)
DaysIn(y, m) ==
  CASE m = 2 -> IF IsLeap(y) THEN 29 ELSE 28 [] m \in {4, 6, 9, 11} -> 30 [] OTHER -> 31

ExportInit ==
  /\ \/ exported = <<>>
     \/ \E p \in [info : Infos, meta : {"none", "pflog", "enc"}, ifname : {<<"x">>, <<"x", "comma">>},
                  ports : BOOLEAN, based : BOOLEAN] :
          (p.ports => p.meta = "none") /\ exported = <<p>>
  /\ day = 0 /\ month = <<1970, 1>>

(* Another packet like the first: a row follows a row.                     *)
ExportNext ==
  /\ Len(exported) = 1
  /\ exported' = <<exported[1], exported[1]>>
  /\ UNCHANGED <<day, month>>

NextMonth ==
  /\ exported = <<>> /\ day < MaxDay
  /\ day' = day + DaysIn(month[1], month[2])
  /\ month' = IF month[2] = 12 THEN <<month[1] + 1, 1>> ELSE <<month[1], month[2] + 1>>
  /\ UNCHANGED exported

ExportSpec == ExportInit /\ [][ExportNext \/ NextMonth]_exportVars

-----------------------------------------------------------------------------
(* Properties.                                                             *)

(* A reader of CSV by the rules of RFC 4180 for quotes, between the        *)
(* characters of a text: what it has read, and whether it is at the start  *)
(* of a field, in one without or with quotes, or behind a quote in the     *)
(* latter, which another one may follow.  It takes the line feed that      *)
(* csv.rs writes as the end of a record, where the RFC asks for CR LF, and *)
(* refuses a CR outside quotes.                                            *)
CsvState(fields, rows, text, at) == [fields |-> fields, rows |-> rows, text |-> text, at |-> at]

ReadCsvChar(s, c) ==
  IF s.at = "quoted"
    THEN IF c = "quote" THEN [s EXCEPT !.at = "behind"] ELSE [s EXCEPT !.text = Append(@, c)]
  ELSE IF c = "quote" /\ s.at = "start" THEN [s EXCEPT !.at = "quoted"]
  ELSE IF c = "quote" /\ s.at = "behind" THEN [s EXCEPT !.at = "quoted", !.text = Append(@, c)]
  ELSE IF c \in {"comma", "nl"} /\ s.at # "bad"
    THEN CsvState(Append(s.fields, s.text),
                  IF c = "nl" THEN s.rows \union {Len(s.fields) + 1} ELSE s.rows, <<>>, "start")
  ELSE IF c \notin {"quote", "cr"} /\ s.at \in {"start", "plain"}
    THEN [s EXCEPT !.at = "plain", !.text = Append(@, c)]
  ELSE [s EXCEPT !.at = "bad"]

(* A reader of JSON, before, in and after a string.                        *)
ReadJsonChar(s, c) ==
  IF s.at = "before" /\ c = "quote" THEN [s EXCEPT !.at = "in"]
  ELSE IF s.at = "in" /\ c = "quote" THEN [s EXCEPT !.at = "out"]
  ELSE IF s.at = "in" /\ c = "back" THEN [s EXCEPT !.at = "escape"]
  ELSE IF s.at = "in" /\ c \notin {"nl", "cr", "ctl"} THEN [s EXCEPT !.text = Append(@, c)]
  ELSE IF s.at = "escape" /\ c \in {"quote", "back"} THEN [s EXCEPT !.at = "in", !.text = Append(@, c)]
  ELSE IF s.at = "escape" /\ c = "n" THEN [s EXCEPT !.at = "in", !.text = Append(@, "nl")]
  ELSE IF s.at = "escape" /\ c = "r" THEN [s EXCEPT !.at = "in", !.text = Append(@, "cr")]
  ELSE IF s.at = "escape" /\ c = "u" THEN [s EXCEPT !.at = "in", !.text = Append(@, "ctl")]
  ELSE [s EXCEPT !.at = "bad"]

ReadChar(format, s, c) == IF format = "csv" THEN ReadCsvChar(s, c) ELSE ReadJsonChar(s, c)

(* The state after a text that is read from the state start on.            *)
Read(format, start, text) ==
  LET state[n \in 0..Len(text)] ==
        IF n = 0 THEN start ELSE ReadChar(format, state[n - 1], text[n])
  IN  state[Len(text)]

(* The fields of a text, and how many of them there are as each line ends. *)
ReadCsv(text) == Read("csv", CsvState(<<>>, {}, <<>>, "start"), text)

(* An exported file is read back as rows of as many columns as its header *)
(* names, with each packet's texts under their names, whatever the texts   *)
(* hold (write_csv_row, csv_escape: "quote fields containing commas,       *)
(* quotes, or newlines").                                                  *)
CsvReadsBack ==
  exported # <<>> =>
    LET header == ReadCsv(CsvHeader).fields
        width == Len(header)
        read == ReadCsv(FlattenSeq([i \in DOMAIN exported |-> WriteCsvRow(exported[i])]))
    IN /\ read.at = "start" /\ read.rows = {i * width : i \in DOMAIN exported}
       /\ \A i \in DOMAIN exported, n \in 1..width :
            read.fields[(i - 1) * width + n] = Cell(exported[i], header[n][1])

(* The two formats say the same of a packet, of each column by its name    *)
(* (the flags of an IPsec packet are words in one and a number in the      *)
(* other).                                                                 *)
FormatsAgree ==
  \A i \in DOMAIN exported :
    LET members == FromSummary(exported[i])
    IN \A n \in DOMAIN ExportColumns :
         ExportColumns[n] # "enc_flags" =>
           CsvFields(exported[i])[n] =
             IF ExportColumns[n] \in DOMAIN members THEN members[ExportColumns[n]] ELSE <<>>

(* What the command line mode prints is read back, too.                    *)
CliCsvReadsBack ==
  \A i \in DOMAIN exported :
    LET header == ReadCsv(CliHeader).fields
        read == ReadCsv(CliCsv(exported[i]))
    IN /\ read.at = "start" /\ read.rows = {Len(header)}
       /\ \A n \in DOMAIN header : read.fields[n] = CliCell(exported[i], header[n][1])

(* A printed object is one line of JSON, and its info text, the one member *)
(* looked at here, is read back as it was (cli.rs: "NDJSON - one JSON      *)
(* object per line, pipeable to jq").                                      *)
JsonReadsBack ==
  \A i \in DOMAIN exported :
    Read("json", [at |-> "before", text |-> <<>>], JsonInfo(exported[i])) =
      [at |-> "out", text |-> exported[i].info]

(* The dates of a month's days are those of the calendar, through leap     *)
(* years and the century that is none (epoch_days_to_date).                *)
DateIsCalendar ==
  month # <<>> =>
    \A d \in 1..DaysIn(month[1], month[2]) :
      EpochDaysToDate(day + d - 1) = <<month[1], month[2], d>>

(* What is written as CSV, and the info text of what is written as JSON,   *)
(* can be read by a reader that knows only the format; and dates are right.*)
ExportSound == CsvReadsBack /\ FormatsAgree /\ CliCsvReadsBack /\ JsonReadsBack /\ DateIsCalendar
=============================================================================
