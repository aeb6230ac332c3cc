----------------------------- MODULE TableWriter -----------------------------
(***************************************************************************)
(* One table on its way out: the clauses that schema_writer puts together  *)
(* for CREATE and LOAD (SQL.cpp, SQLSchemaWriter.h), the values that       *)
(* CSV::writer writes (CSVWriter.h, CSVOutput.cpp), and what the server    *)
(* makes of the one with the help of the other.                            *)
(*                                                                         *)
(* Both walk the members that PDBReflection.inl lists for the row type,    *)
(* independently of each other: nothing but the order of the walk says     *)
(* which value belongs to which column.                                    *)
(*                                                                         *)
(* Text is a sequence of characters.  Those that matter are told apart;    *)
(* what is written without quotes and the name of an enumerator count as   *)
(* one character.                                                          *)
(***************************************************************************)
EXTENDS Integers, Sequences, SequencesExt

CONSTANTS
  Names,       \* the names of members
  Structs,     \* row types: sequences of members
  Characters,  \* what texts and files are made of
  Texts,       \* the strings that a member may hold
  Separators,  \* what the locale may make of the separator of csv
  Width,       \* characters a VARCHAR column holds (2047)
  MaxRows      \* bound: rows of the table

Types  == {"number", "text", "bool", "enum", "address"}
Member == [name : Names, type : Types, unique : BOOLEAN]

Quote     == "quote"
Backslash == "backslash"
Newline   == "newline"
Comma     == "comma"

ASSUME StructsAssumption ==
  /\ Structs \subseteq Seq(Member) \ {<<>>}
  /\ \A s \in Structs :
       /\ \A i, j \in 1..Len(s) : s[i].name = s[j].name => i = j
       /\ \A i \in 1..Len(s) : s[i].unique => s[i].type = "number"
Digit == {"0", "1", "7"}
ASSUME TextsAssumption ==
  /\ Texts \subseteq Seq(Characters)
  /\ Digit \cup {Quote, Backslash, Newline, "n", "listed"} \subseteq Characters
  /\ Names \cup Separators \subseteq Characters
  /\ Names \cap {Quote, Backslash, Newline} = {}
\* A list separator is no letter, digit or quote.
ASSUME SeparatorsAssumption ==
  /\ Comma \in Separators
  /\ Separators \cap (Names \cup Digit \cup {Quote, Backslash, Newline, "n"}) = {}
ASSUME BoundsAssumption == Width \in Nat /\ MaxRows \in Nat

VARIABLES
  engine, struct,
  separator, naked,               \* options of csv
  phase,
  Result, Keys,                   \* the columns and the keys of CREATE
  LoadClause, SetClause,          \* the targets of LOAD
  out,                            \* the file of values
  rows, row                       \* history: what was written to it

schema  == <<Result, Keys, LoadClause, SetClause>>
options == <<engine, struct, separator, naked>>
vars    == <<options, phase, schema, out, rows, row>>

Init ==
  /\ struct \in Structs
  /\ \/ /\ engine \in {"mysql", "odbc"}
        /\ separator = Comma
        /\ naked = TRUE
        /\ phase = "create"
     \/ /\ engine = "csv"
        /\ separator \in Separators
        /\ naked \in BOOLEAN
        /\ phase = "header"
  /\ Result = <<>>
  /\ Keys = <<>>
  /\ LoadClause = <<>>
  /\ SetClause = <<>>
  /\ out = <<>>
  /\ rows = <<>>
  /\ row = <<>>

-----------------------------------------------------------------------------
(* schema_writer: one operator<< per kind of member.  Only mysql asks for   *)
(* BIT columns, and with them for a LOAD clause.                            *)

UseBitType == engine = "mysql"

Walking == phase = "create" /\ Len(Result) < Len(struct)
member  == struct[Len(Result) + 1]

\* The name of a member, or, for an address, of the part of it that is written.
Plain(name)   == <<name>>
Rv(name)      == <<name, "_rv">>
ColumnName(m) == IF m.type = "address" THEN Rv(m.name) ELSE Plain(m.name)

column_desc(name, key, sql) ==
  /\ Result' = Append(Result, [name |-> name, sql |-> sql])
  /\ Keys' = IF key THEN Append(Keys, name) ELSE Keys
  /\ LoadClause' = IF UseBitType
                   THEN Append(LoadClause, [tmp |-> FALSE, name |-> name])
                   ELSE LoadClause

NumberColumn ==
  /\ Walking /\ member.type = "number"
  /\ column_desc(Plain(member.name), member.unique, "INT")
  /\ UNCHANGED <<options, phase, SetClause, out, rows, row>>

TextColumn ==
  /\ Walking /\ member.type = "text"
  /\ column_desc(Plain(member.name), member.unique, "VARCHAR")
  /\ UNCHANGED <<options, phase, SetClause, out, rows, row>>

EnumColumn ==
  /\ Walking /\ member.type = "enum"
  /\ column_desc(Plain(member.name), member.unique, "ENUM")
  /\ UNCHANGED <<options, phase, SetClause, out, rows, row>>

AddressColumn ==
  /\ Walking /\ member.type = "address"
  /\ column_desc(Rv(member.name), FALSE, "INT")
  /\ UNCHANGED <<options, phase, SetClause, out, rows, row>>

\* Mutated BoolColumn: the value is left in the variable.
BoolColumnWithoutSet ==
  /\ Walking /\ member.type = "bool" /\ UseBitType
  /\ Result' = Append(Result, [name |-> Plain(member.name), sql |-> "BIT"])
  /\ LoadClause' = Append(LoadClause, [tmp |-> TRUE, name |-> Plain(member.name)])
  /\ UNCHANGED <<options, phase, Keys, SetClause, out, rows, row>>

\* LOAD would take the digit for its bits, so it goes through a variable.
BoolColumn ==
  /\ Walking /\ member.type = "bool"
  /\ \/ /\ UseBitType
        /\ Result' = Append(Result, [name |-> Plain(member.name), sql |-> "BIT"])
        /\ LoadClause' = Append(LoadClause, [tmp |-> TRUE, name |-> Plain(member.name)])
        /\ SetClause' = Append(SetClause, Plain(member.name))
     \/ /\ ~UseBitType
        /\ Result' = Append(Result, [name |-> Plain(member.name), sql |-> "BOOLEAN"])
        /\ UNCHANGED <<LoadClause, SetClause>>
  /\ UNCHANGED <<options, phase, Keys, out, rows, row>>

\* Mutated EndCreate: the last member is passed over.
EndCreateEarly ==
  /\ phase = "create" /\ Len(Result) >= Len(struct) - 1
  /\ phase' = "rows"
  /\ UNCHANGED <<options, schema, out, rows, row>>

EndCreate ==
  /\ phase = "create" /\ ~Walking
  /\ phase' = "rows"
  /\ UNCHANGED <<options, schema, out, rows, row>>

-----------------------------------------------------------------------------
(* CSV::writer and the loops around it. *)

\* AppendHeader: each name and the separator, the last of which goes again.
Header ==
  FlattenSeq([i \in 1..Len(struct) |->
    IF i < Len(struct) THEN <<struct[i].name, separator>> ELSE <<struct[i].name>>])
  \o <<Newline>>

AppendHeader ==
  /\ phase = "header"
  /\ out' = IF naked THEN <<>> ELSE Header
  /\ phase' = "rows"
  /\ UNCHANGED <<options, schema, rows, row>>

Values(type) ==
  CASE type \in {"number", "address"} -> {"0", "7"}
    [] type = "bool" -> BOOLEAN
    [] type = "enum" -> {"listed", "unlisted"}
    [] type = "text" -> Texts

\* Mutated Escaped: a backslash is an ordinary character.
EscapedQuotes(text) ==
  FlattenSeq([i \in 1..Len(text) |->
    IF text[i] \in {Quote, separator} THEN <<Backslash, text[i]>> ELSE <<text[i]>>])

Escaped(text) ==
  FlattenSeq([i \in 1..Len(text) |->
    IF text[i] \in {Quote, Backslash, separator}
    THEN <<Backslash, text[i]>> ELSE <<text[i]>>])

Digits(v) == IF v THEN "1" ELSE "0"
Words(v)  == IF v THEN "TRUE" ELSE "FALSE"

\* The switch of an enumeration has no default.
Field(type, v) ==
  CASE type \in {"number", "address"} -> <<v>>
    [] type = "bool" -> <<IF engine = "odbc" THEN Words(v) ELSE Digits(v)>>
    [] type = "enum" -> IF v = "listed" THEN <<Quote, v, Quote>> ELSE <<Quote, Quote>>
    [] type = "text" -> <<Quote>> \o Escaped(v) \o <<Quote>>

WriteField ==
  /\ phase = "rows"
  /\ Len(rows) < MaxRows
  /\ Len(row) < Len(struct)
  /\ LET type == struct[Len(row) + 1].type
     IN \E v \in Values(type) :
          /\ out' = out \o Field(type, v) \o <<separator>>
          /\ row' = Append(row, v)
  /\ UNCHANGED <<options, phase, schema, rows>>

\* Mutated EndRow: backup() is not called.
EndRowWithoutBackup ==
  /\ phase = "rows"
  /\ Len(row) = Len(struct)
  /\ out' = Append(out, Newline)
  /\ rows' = Append(rows, row)
  /\ row' = <<>>
  /\ UNCHANGED <<options, phase, schema>>

\* backup() takes the last separator away.
EndRow ==
  /\ phase = "rows"
  /\ Len(row) = Len(struct)
  /\ out' = Append(Front(out), Newline)
  /\ rows' = Append(rows, row)
  /\ row' = <<>>
  /\ UNCHANGED <<options, phase, schema>>

EndTable ==
  /\ phase = "rows"
  /\ row = <<>>
  /\ phase' = "done"
  /\ UNCHANGED <<options, schema, out, rows, row>>

Next ==
  \/ NumberColumn \/ TextColumn \/ EnumColumn \/ AddressColumn \/ BoolColumn
  \/ EndCreate \/ AppendHeader
  \/ WriteField \/ EndRow \/ EndTable

Spec == Init /\ [][Next]_vars

-----------------------------------------------------------------------------
(* LOAD DATA LOCAL INFILE as LoadTable words it: fields terminated by ',',  *)
(* optionally enclosed by '"', lines terminated by '\n', and the server's   *)
(* own escape character, the backslash.                                     *)

Start == [lines |-> <<>>, fields |-> <<>>, text |-> <<>>, in |-> "field"]

EndField(s) ==
  [lines |-> s.lines, fields |-> Append(s.fields, s.text), text |-> <<>>, in |-> "field"]
EndLine(s) ==
  LET line == Append(s.fields, s.text)
  IN [lines |-> Append(s.lines, line), fields |-> <<>>, text |-> <<>>, in |-> "field"]
Put(s, c, where) ==
  [lines |-> s.lines, fields |-> s.fields, text |-> Append(s.text, c), in |-> where]

\* Backslash and n are a newline; before anything else the backslash just goes.
Meant(c) == IF c = "n" THEN Newline ELSE c

\* in: within a field, within quotes, after the quote that may close them, or
\* after a backslash in either.
ReadChar(s, c) ==
  CASE s.in = "escape"       -> Put(s, Meant(c), "field")
    [] s.in = "quotedEscape" -> Put(s, Meant(c), "quoted")
    [] s.in = "quoted" ->
         CASE c = Quote     -> [s EXCEPT !.in = "closed"]
           [] c = Backslash -> [s EXCEPT !.in = "quotedEscape"]
           [] OTHER         -> Put(s, c, "quoted")
    [] s.in = "closed" /\ c = Quote -> Put(s, c, "quoted")
    [] s.in = "closed" /\ c \notin {separator, Newline} ->
         Put(Put(s, Quote, "quoted"), c, "quoted")
    [] OTHER ->
         CASE c = separator -> EndField(s)
           [] c = Newline   -> EndLine(s)
           [] c = Backslash -> [s EXCEPT !.in = "escape"]
           [] c = Quote /\ s.text = <<>> -> [s EXCEPT !.in = "quoted"]
           [] OTHER -> Put(s, c, "field")

Read(text) ==
  LET state[n \in 0..Len(text)] ==
        IF n = 0 THEN Start ELSE ReadChar(state[n - 1], text[n])
  IN state[Len(text)]

LinesRead == Read(out).lines

\* What a column holds after a field was stored in it, or, through SET, the
\* number that the field says.  A BIT(1) column takes the field for its bytes,
\* and every byte that a field can be has more than one bit.
Converted(sql, text) ==
  CASE sql = "VARCHAR" -> SubSeq(text, 1, IF Len(text) <= Width THEN Len(text) ELSE Width)
    [] sql = "ENUM"    -> IF text = <<"listed">> THEN "listed" ELSE "unlisted"
    [] sql = "BIT"     -> text # <<>>
    [] OTHER           -> IF text = <<>> THEN "0" ELSE text[1]
Cast(text) == text = <<"1">>

Targets(name) ==
  {i \in 1..Len(LoadClause) : LoadClause[i].name = name /\ ~LoadClause[i].tmp}
Variable(name) ==
  {i \in 1..Len(LoadClause) : LoadClause[i].name = name /\ LoadClause[i].tmp}
Assigned(name) == \E i \in 1..Len(SetClause) : SetClause[i] = name

\* The row that a line becomes; a column that nothing reaches stays at its
\* default.
Loaded(line) ==
  [k \in 1..Len(Result) |->
     LET c == Result[k] IN
     IF Assigned(c.name) /\ Variable(c.name) # {}
     THEN Cast(line[CHOOSE i \in Variable(c.name) : TRUE])
     ELSE IF Targets(c.name) # {}
          THEN Converted(c.sql, line[CHOOSE i \in Targets(c.name) : TRUE])
          ELSE "default"]

-----------------------------------------------------------------------------
(* Properties. *)

Sql == {"INT", "VARCHAR", "ENUM", "BIT", "BOOLEAN"}
ColumnNames == {Plain(n) : n \in Names} \cup {Rv(n) : n \in Names}

\* Type correctness of the clauses and of what was written; CREATE is complete
\* when the first value is written.
TypeOK ==
  /\ engine \in {"mysql", "odbc", "csv"}
  /\ struct \in Structs
  /\ phase \in {"create", "header", "rows", "done"}
  /\ Result \in Seq([name : ColumnNames, sql : Sql])
  /\ Keys \in Seq(ColumnNames)
  /\ LoadClause \in Seq([tmp : BOOLEAN, name : ColumnNames])
  /\ SetClause \in Seq(ColumnNames)
  /\ Len(Result) <= Len(struct)
  /\ engine = "csv" => phase # "create" /\ Result = <<>>
  /\ engine # "csv" /\ phase \in {"rows", "done"} => Len(Result) = Len(struct)
  /\ Len(row) <= Len(struct) /\ Len(rows) <= MaxRows

\* The k-th column that CREATE declares is that of the k-th member, the k-th
\* target of LOAD, where there is one, is this column or the variable from
\* which SET, and nothing else, assigns it: the positions by which values are
\* matched to columns mean the same member in all three lists.
ColumnsAligned ==
  /\ \A k \in 1..Len(Result) : Result[k].name = ColumnName(struct[k])
  /\ engine = "mysql" =>
       /\ Len(LoadClause) = Len(Result)
       /\ \A k \in 1..Len(Result) :
            /\ LoadClause[k].name = Result[k].name
            /\ LoadClause[k].tmp <=> Result[k].sql = "BIT"
            /\ LoadClause[k].tmp <=> Assigned(Result[k].name)

\* What the column of a member holds when the member is v: a long text is cut.
Stored(type, v) ==
  IF type = "text" THEN Converted("VARCHAR", v) ELSE v

\* No two rows agree in a column that is a key, or LOAD would drop the second.
KeysDistinct ==
  \A k \in 1..Len(struct), i, j \in 1..Len(rows) :
    /\ \E c \in 1..Len(Keys) : Keys[c] = ColumnName(struct[k])
    /\ rows[i][k] = rows[j][k]
    => i = j

\* The rows that LOAD makes of the file are the rows that were written, one of
\* each line, with a field for every target, whatever characters texts hold.
LoadsBack ==
  engine = "mysql" /\ phase = "done" /\ KeysDistinct =>
    /\ Len(LinesRead) = Len(rows)
    /\ \A i \in 1..Len(rows) :
         /\ Len(LinesRead[i]) = Len(LoadClause)
         /\ Loaded(LinesRead[i]) =
              [k \in 1..Len(struct) |-> Stored(struct[k].type, rows[i][k])]

\* The text of the field of a member that is v.
FieldText(type, v) ==
  CASE type \in {"number", "address"} -> <<v>>
    [] type = "bool" -> <<Digits(v)>>
    [] type = "enum" -> IF v = "listed" THEN <<v>> ELSE <<>>
    [] type = "text" -> v

\* A csv file, read with the separator that it was written with and with
\* backslash escapes (as LOAD reads, not as a spreadsheet does), has the names of
\* the members in its first line if they were asked for, and then a line for each
\* row, with the text of each member in the member's place.
CsvReadsBack ==
  LET skip == IF naked THEN 0 ELSE 1
  IN engine = "csv" /\ phase = "done" =>
       /\ Len(LinesRead) = Len(rows) + skip
       /\ \A i \in 1..Len(LinesRead) : Len(LinesRead[i]) = Len(struct)
       /\ ~naked => \A k \in 1..Len(struct) : LinesRead[1][k] = <<struct[k].name>>
       /\ \A i \in 1..Len(rows), k \in 1..Len(struct) :
            LinesRead[i + skip][k] = FieldText(struct[k].type, rows[i][k])
=============================================================================
