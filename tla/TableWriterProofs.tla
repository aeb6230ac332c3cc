-------------------------- MODULE TableWriterProofs --------------------------
(***************************************************************************)
(* For every row type, however its members are mixed and ordered, the      *)
(* columns of CREATE, the targets of LOAD and the assignments of SET speak *)
(* of the same member at the same position; and for every text and locale, *)
(* what a reader of the file makes of it is what was written.              *)
(***************************************************************************)
EXTENDS TableWriter, SequenceTheorems, WellFoundedInduction, TLAPS

\* What Append makes of a sequence.
LEMMA Appended ==
  ASSUME NEW S, NEW s \in Seq(S), NEW e \in S
  PROVE  /\ Append(s, e) \in Seq(S)
         /\ Len(Append(s, e)) = Len(s) + 1
         /\ \A i \in 1..Len(s) : Append(s, e)[i] = s[i]
         /\ Append(s, e)[Len(s) + 1] = e
OBVIOUS

\* A row type and one of its members.
LEMMA StructParts ==
  ASSUME NEW s \in Structs
  PROVE  /\ s \in Seq(Member)
         /\ Len(s) \in Nat /\ Len(s) > 0
         /\ \A k \in 1..Len(s) :
              /\ s[k].name \in Names /\ s[k].type \in Types
              /\ s[k].unique \in BOOLEAN
              /\ s[k].unique => s[k].type = "number"
         /\ \A i, j \in 1..Len(s) : s[i].name = s[j].name => i = j
<1>1. s \in Seq(Member) /\ s # <<>>
  BY StructsAssumption
<1>2. \A k \in 1..Len(s) : s[k] \in Member
  BY <1>1
<1>3. Len(s) \in Nat /\ Len(s) > 0
  BY <1>1
<1> QED
  BY <1>1, <1>2, <1>3, StructsAssumption DEF Member

\* Column names tell members apart.
LEMMA NamesApart ==
  ASSUME NEW s \in Structs, NEW i \in 1..Len(s), NEW j \in 1..Len(s),
         ColumnName(s[i]) = ColumnName(s[j])
  PROVE  i = j
<1>1. s[i].name = s[j].name
  BY DEF ColumnName, Plain, Rv
<1> QED
  BY <1>1, StructParts

\* What the state of the walk is made of.
WalkOK ==
  /\ engine \in {"mysql", "odbc", "csv"}
  /\ struct \in Structs
  /\ phase \in {"create", "header", "rows", "done"}
  /\ Result \in Seq([name : ColumnNames, sql : Sql])
  /\ Keys \in Seq(ColumnNames)
  /\ LoadClause \in Seq([tmp : BOOLEAN, name : ColumnNames])
  /\ SetClause \in Seq(ColumnNames)
  /\ Len(Result) <= Len(struct)
  /\ engine = "csv" => phase # "create" /\ Result = <<>>
  /\ engine # "csv" => phase # "header"
  /\ engine # "csv" /\ phase \in {"rows", "done"} => Len(Result) = Len(struct)

\* An operator<< of schema_writer is one of these: a column that is loaded
\* directly, or one that goes through a variable.
Direct(m) ==
  \E sql \in Sql \ {"BIT"}, key \in BOOLEAN :
    /\ column_desc(ColumnName(m), key, sql)
    /\ UNCHANGED SetClause
ThroughVariable(m) ==
  /\ UseBitType
  /\ Result' = Append(Result, [name |-> ColumnName(m), sql |-> "BIT"])
  /\ LoadClause' = Append(LoadClause, [tmp |-> TRUE, name |-> ColumnName(m)])
  /\ SetClause' = Append(SetClause, ColumnName(m))
  /\ UNCHANGED Keys
NoLoad(m) ==
  /\ ~UseBitType
  /\ Result' = Append(Result, [name |-> ColumnName(m), sql |-> "BOOLEAN"])
  /\ UNCHANGED <<LoadClause, SetClause, Keys>>
AddColumn ==
  /\ Walking
  /\ Direct(member) \/ ThroughVariable(member) \/ NoLoad(member)
  /\ UNCHANGED <<options, phase, out, rows, row>>

ColumnSteps ==
  NumberColumn \/ TextColumn \/ EnumColumn \/ AddressColumn \/ BoolColumn

\* The member that the walk is at.
LEMMA NextMember ==
  ASSUME WalkOK, Walking
  PROVE  /\ Len(Result) + 1 \in 1..Len(struct)
         /\ member.name \in Names
         /\ member.unique \in BOOLEAN
         /\ ColumnName(member) \in ColumnNames
<1>1. Len(Result) \in Nat /\ Len(struct) \in Nat
  BY StructParts DEF WalkOK
<1>2. Len(Result) + 1 \in 1..Len(struct)
  BY <1>1 DEF Walking
<1>3. member.name \in Names /\ member.unique \in BOOLEAN
  BY <1>2, StructParts DEF WalkOK, member
<1>4. ColumnName(member) \in ColumnNames
  BY <1>3 DEF ColumnName, ColumnNames
<1> QED
  BY <1>2, <1>3, <1>4

LEMMA ColumnStep ==
  ASSUME WalkOK, ColumnSteps
  PROVE  AddColumn
<1>1. Walking
  BY DEF ColumnSteps, NumberColumn, TextColumn, EnumColumn, AddressColumn, BoolColumn
<1>2. member.unique \in BOOLEAN
  BY <1>1, NextMember
<1>3. CASE NumberColumn
  <2>1. ColumnName(member) = Plain(member.name)
    BY <1>3 DEF NumberColumn, ColumnName
  <2>2. Direct(member)
    BY <1>2, <1>3, <2>1 DEF NumberColumn, Direct, Sql
  <2> QED
    BY <1>1, <1>3, <2>2 DEF NumberColumn, AddColumn
<1>4. CASE TextColumn
  <2>1. ColumnName(member) = Plain(member.name)
    BY <1>4 DEF TextColumn, ColumnName
  <2>2. Direct(member)
    BY <1>2, <1>4, <2>1 DEF TextColumn, Direct, Sql
  <2> QED
    BY <1>1, <1>4, <2>2 DEF TextColumn, AddColumn
<1>5. CASE EnumColumn
  <2>1. ColumnName(member) = Plain(member.name)
    BY <1>5 DEF EnumColumn, ColumnName
  <2>2. Direct(member)
    BY <1>2, <1>5, <2>1 DEF EnumColumn, Direct, Sql
  <2> QED
    BY <1>1, <1>5, <2>2 DEF EnumColumn, AddColumn
<1>6. CASE AddressColumn
  <2>1. ColumnName(member) = Rv(member.name)
    BY <1>6 DEF AddressColumn, ColumnName
  <2>2. Direct(member)
    BY <1>6, <2>1 DEF AddressColumn, Direct, Sql
  <2> QED
    BY <1>1, <1>6, <2>2 DEF AddressColumn, AddColumn
<1>7. CASE BoolColumn
  <2>1. ColumnName(member) = Plain(member.name)
    BY <1>7 DEF BoolColumn, ColumnName
  <2>2. ThroughVariable(member) \/ NoLoad(member)
    BY <1>7, <2>1 DEF BoolColumn, ThroughVariable, NoLoad
  <2> QED
    BY <1>1, <1>7, <2>2 DEF BoolColumn, AddColumn
<1> QED
  BY <1>3, <1>4, <1>5, <1>6, <1>7 DEF ColumnSteps

\* The steps that leave the clauses alone.
LEMMA OtherStep ==
  ASSUME WalkOK, [Next]_vars, ~ColumnSteps
  PROVE  UNCHANGED <<options, schema>>
BY DEF Next, vars, ColumnSteps, EndCreate, AppendHeader, WriteField, EndRow, EndTable

LEMMA WalkInit == Init => WalkOK
<1>1. ASSUME Init PROVE WalkOK
  <2>1. Len(struct) \in Nat /\ Len(struct) > 0
    BY <1>1, StructParts DEF Init
  <2> QED
    BY <1>1, <2>1 DEF Init, WalkOK
<1> QED
  BY <1>1

LEMMA WalkStep ==
  ASSUME WalkOK, [Next]_vars
  PROVE  WalkOK'
<1> DEFINE Col == [name : ColumnNames, sql : Sql]
           Tgt == [tmp : BOOLEAN, name : ColumnNames]
<1>1. CASE ColumnSteps
  <2>1. AddColumn
    BY <1>1, ColumnStep
  <2>2. /\ Len(Result) + 1 \in 1..Len(struct)
        /\ ColumnName(member) \in ColumnNames
    BY <2>1, NextMember DEF AddColumn
  <2>3. PICK sql \in Sql :
          Result' = Append(Result, [name |-> ColumnName(member), sql |-> sql])
    BY <2>1 DEF AddColumn, Direct, ThroughVariable, NoLoad, column_desc, Sql
  <2>4. Result' \in Seq(Col) /\ Len(Result') = Len(Result) + 1
    <3>1. [name |-> ColumnName(member), sql |-> sql] \in Col
      BY <2>2
    <3>2. \A c \in Col : /\ Append(Result, c) \in Seq(Col)
                        /\ Len(Append(Result, c)) = Len(Result) + 1
      BY Appended DEF WalkOK
    <3> QED
      BY <2>3, <3>1, <3>2
  <2>5. Keys' \in Seq(ColumnNames)
    <3>1. Keys' = Keys \/ Keys' = Append(Keys, ColumnName(member))
      BY <2>1 DEF AddColumn, Direct, ThroughVariable, NoLoad, column_desc
    <3>2. \A c \in ColumnNames : Append(Keys, c) \in Seq(ColumnNames)
      BY Appended DEF WalkOK
    <3> QED
      BY <2>2, <3>1, <3>2 DEF WalkOK
  <2>6. LoadClause' \in Seq(Tgt)
    <3>1. \/ LoadClause' = LoadClause
          \/ \E tmp \in BOOLEAN : LoadClause' =
               Append(LoadClause, [tmp |-> tmp, name |-> ColumnName(member)])
      BY <2>1 DEF AddColumn, Direct, ThroughVariable, NoLoad, column_desc
    <3>2. \A tmp \in BOOLEAN : [tmp |-> tmp, name |-> ColumnName(member)] \in Tgt
      BY <2>2
    <3>3. \A t \in Tgt : Append(LoadClause, t) \in Seq(Tgt)
      BY Appended DEF WalkOK
    <3> QED
      BY <3>1, <3>2, <3>3 DEF WalkOK
  <2>7. SetClause' \in Seq(ColumnNames)
    <3>1. SetClause' = SetClause \/ SetClause' = Append(SetClause, ColumnName(member))
      BY <2>1 DEF AddColumn, Direct, ThroughVariable, NoLoad
    <3>2. \A c \in ColumnNames : Append(SetClause, c) \in Seq(ColumnNames)
      BY Appended DEF WalkOK
    <3> QED
      BY <2>2, <3>1, <3>2 DEF WalkOK
  <2>8. /\ engine' = engine /\ struct' = struct /\ phase' = phase
        /\ phase = "create"
    BY <2>1 DEF AddColumn, options, Walking
  <2> QED
    BY <2>2, <2>4, <2>5, <2>6, <2>7, <2>8 DEF WalkOK
<1>2. CASE ~ColumnSteps
  <2>1. UNCHANGED <<options, schema>>
    BY <1>2, OtherStep
  <2>2. /\ phase' \in {"create", "header", "rows", "done"}
        /\ engine = "csv" => phase' # "create"
        /\ engine # "csv" => phase' # "header"
        /\ engine # "csv" /\ phase' \in {"rows", "done"} => Len(Result) = Len(struct)
    <3>1. CASE EndCreate
      <4>1. Len(Result) \in Nat /\ Len(struct) \in Nat
        BY StructParts DEF WalkOK
      <4> QED
        BY <3>1, <4>1 DEF EndCreate, Walking, WalkOK
    <3>2. CASE AppendHeader
      BY <3>2 DEF AppendHeader, WalkOK
    <3>3. CASE WriteField \/ EndRow \/ EndTable \/ UNCHANGED vars
      BY <3>3 DEF WriteField, EndRow, EndTable, vars, WalkOK
    <3> QED
      BY <1>2, <3>1, <3>2, <3>3 DEF Next, ColumnSteps
  <2> QED
    BY <2>1, <2>2 DEF WalkOK, options, schema
<1> QED
  BY <1>1, <1>2

-----------------------------------------------------------------------------
(* Type correctness. *)

Value == {"0", "7", "listed", "unlisted"} \cup BOOLEAN \cup Texts

\* What was written: its length, and that a row that was begun has room.
WrittenOK ==
  /\ rows \in Seq(Seq(Value))
  /\ row \in Seq(Value)
  /\ Len(row) <= Len(struct)
  /\ Len(rows) <= MaxRows
  /\ row # <<>> => Len(rows) < MaxRows

LEMMA WrittenInit == Init => WrittenOK
<1>1. ASSUME Init PROVE WrittenOK
  <2>1. Len(struct) \in Nat /\ Len(struct) > 0
    BY <1>1, StructParts DEF Init
  <2> QED
    BY <1>1, <2>1, BoundsAssumption DEF Init, WrittenOK
<1> QED
  BY <1>1

LEMMA WrittenStep ==
  ASSUME WalkOK, WrittenOK, [Next]_vars
  PROVE  WrittenOK'
<1>1. Len(struct) \in Nat /\ Len(struct) > 0 /\ MaxRows \in Nat
  BY StructParts, BoundsAssumption DEF WalkOK
<1>2. CASE WriteField
  <2>1. PICK v \in Values(struct[Len(row) + 1].type) : row' = Append(row, v)
    BY <1>2 DEF WriteField
  <2>2. Len(row) \in Nat /\ Len(row) + 1 \in 1..Len(struct)
    BY <1>1, <1>2 DEF WriteField, WrittenOK
  <2>3. struct[Len(row) + 1].type \in Types
    BY <2>2, StructParts DEF WalkOK
  <2>4. v \in Value
    BY <2>1, <2>3 DEF Values, Value, Types
  <2>5. row' \in Seq(Value) /\ Len(row') = Len(row) + 1
    BY <2>1, <2>4, Appended DEF WrittenOK
  <2>6. rows' = rows /\ struct' = struct /\ Len(rows) < MaxRows /\ Len(row) < Len(struct)
    BY <1>2 DEF WriteField, options
  <2> QED
    BY <1>1, <2>2, <2>5, <2>6 DEF WrittenOK
<1>3. CASE EndRow
  <2>1. rows' = Append(rows, row) /\ row' = <<>> /\ struct' = struct
    BY <1>3 DEF EndRow, options
  <2>2. rows' \in Seq(Seq(Value)) /\ Len(rows') = Len(rows) + 1
    BY <2>1, Appended DEF WrittenOK
  <2>3. Len(rows) < MaxRows
    BY <1>1, <1>3 DEF EndRow, WrittenOK
  <2>4. Len(rows) \in Nat
    BY DEF WrittenOK
  <2> QED
    BY <1>1, <2>1, <2>2, <2>3, <2>4 DEF WrittenOK
<1>4. CASE ColumnSteps \/ EndCreate \/ AppendHeader \/ EndTable \/ UNCHANGED vars
  <2>1. rows' = rows /\ row' = row /\ struct' = struct
    BY <1>4 DEF ColumnSteps, NumberColumn, TextColumn, EnumColumn, AddressColumn,
                BoolColumn, EndCreate, AppendHeader, EndTable, vars, options
  <2> QED
    BY <2>1 DEF WrittenOK
<1> QED
  BY <1>2, <1>3, <1>4 DEF Next, ColumnSteps

\* For every set of row types: the clauses and the rows stay well typed, and
\* no value is written before CREATE has a column for every member.
THEOREM TypeCorrect == Spec => []TypeOK
<1>1. Init => WalkOK /\ WrittenOK
  BY WalkInit, WrittenInit
<1>2. WalkOK /\ WrittenOK /\ [Next]_vars => WalkOK' /\ WrittenOK'
  BY WalkStep, WrittenStep
<1>3. WalkOK /\ WrittenOK => TypeOK
  BY DEF WalkOK, WrittenOK, TypeOK
<1> QED
  BY <1>1, <1>2, <1>3, PTL DEF Spec

-----------------------------------------------------------------------------
(* The columns. *)

\* ColumnsAligned, and what the walk needs to go on with it: only columns that
\* are declared are assigned by SET, so that the next one is not yet.
Aligned ==
  /\ ColumnsAligned
  /\ \A i \in 1..Len(SetClause) : \E k \in 1..Len(Result) : Result[k].name = SetClause[i]

LEMMA AlignedInit == Init => Aligned
BY DEF Init, Aligned, ColumnsAligned

LEMMA AlignedColumn ==
  ASSUME WalkOK, Aligned, AddColumn
  PROVE  Aligned'
<1> DEFINE name == ColumnName(member)
<1>0. PICK n \in Nat : n = Len(Result)
  BY DEF WalkOK
<1>1. /\ n = Len(Result) /\ n + 1 \in 1..Len(struct) /\ name \in ColumnNames
      /\ engine' = engine /\ struct' = struct
  BY <1>0, NextMember DEF AddColumn, WalkOK, options
<1>2. PICK sql \in Sql :
        /\ Result' = Append(Result, [name |-> name, sql |-> sql])
        /\ sql = "BIT" <=> ThroughVariable(member)
  BY DEF AddColumn, Direct, ThroughVariable, NoLoad, column_desc, Sql
<1>3. /\ Len(Result') = n + 1
      /\ \A k \in 1..n : Result'[k] = Result[k]
      /\ Result'[n + 1] = [name |-> name, sql |-> sql]
  <2>1. [name |-> name, sql |-> sql] \in [name : ColumnNames, sql : Sql]
    BY <1>1
  <2> QED
    BY <1>1, <1>2, <2>1, Appended DEF WalkOK
<1>4. \A k \in 1..(n + 1) : Result'[k].name = ColumnName(struct[k])
  BY <1>1, <1>3 DEF Aligned, ColumnsAligned, member
<1>5. \A k \in 1..n : Result[k].name # name
  <2>1. ASSUME NEW k \in 1..n, Result[k].name = name PROVE FALSE
    <3>1. ColumnName(struct[k]) = ColumnName(struct[n + 1]) /\ k \in 1..Len(struct)
      BY <1>1, <2>1 DEF Aligned, ColumnsAligned, member
    <3> QED
      BY <1>1, <2>1, <3>1, NamesApart DEF WalkOK
  <2> QED
    BY <2>1
<1>6. ~Assigned(name)
  BY <1>1, <1>5 DEF Aligned, Assigned
<1>7. Len(SetClause) \in Nat /\ Len(LoadClause) \in Nat
  BY DEF WalkOK
<1> HIDE DEF name
<1>8. CASE ThroughVariable(member)
  <2>1. /\ SetClause' = Append(SetClause, name)
        /\ LoadClause' = Append(LoadClause, [tmp |-> TRUE, name |-> name])
        /\ engine = "mysql"
    BY <1>8 DEF ThroughVariable, UseBitType, name
  <2>2. /\ Len(SetClause') = Len(SetClause) + 1
        /\ \A i \in 1..Len(SetClause) : SetClause'[i] = SetClause[i]
        /\ SetClause'[Len(SetClause) + 1] = name
    BY <1>1, <2>1, Appended DEF WalkOK
  <2>3. /\ Len(LoadClause') = n + 1
        /\ \A k \in 1..n : LoadClause'[k] = LoadClause[k]
        /\ LoadClause'[n + 1] = [tmp |-> TRUE, name |-> name]
    <3>1. [tmp |-> TRUE, name |-> name] \in [tmp : BOOLEAN, name : ColumnNames]
      BY <1>1
    <3>2. Len(LoadClause) = n
      BY <1>1, <2>1 DEF Aligned, ColumnsAligned
    <3> QED
      BY <2>1, <3>1, <3>2, Appended DEF WalkOK
  <2>4. ASSUME NEW k \in 1..n
        PROVE  Assigned(Result[k].name)' <=> Assigned(Result[k].name)
    <3>1. Result'[k].name = Result[k].name /\ Result[k].name # name
      BY <1>3, <1>5
    <3>2. \A i \in 1..Len(SetClause') :
            SetClause'[i] = Result[k].name => i \in 1..Len(SetClause)
      BY <1>7, <2>2, <3>1
    <3> QED
      BY <1>7, <2>2, <3>1, <3>2 DEF Assigned
  <2>5. Assigned(Result[n + 1].name)'
    BY <1>3, <1>7, <2>2 DEF Assigned
  <2>6. \A i \in 1..Len(SetClause') :
          \E k \in 1..Len(Result') : Result'[k].name = SetClause'[i]
    <3>1. \A i \in 1..Len(SetClause) :
            \E k \in 1..n : Result'[k].name = SetClause'[i]
      BY <1>1, <1>3, <2>2 DEF Aligned
    <3>2. Result'[n + 1].name = SetClause'[Len(SetClause) + 1]
      BY <1>3, <2>2
    <3> QED
      BY <1>3, <1>7, <2>2, <3>1, <3>2
  <2>7. \A k \in 1..n :
          /\ LoadClause'[k].name = Result'[k].name
          /\ LoadClause'[k].tmp <=> Result'[k].sql = "BIT"
          /\ LoadClause'[k].tmp <=> Assigned(Result[k].name)'
    BY <1>1, <1>3, <2>1, <2>3, <2>4 DEF Aligned, ColumnsAligned
  <2>8. /\ LoadClause'[n + 1].name = Result'[n + 1].name
        /\ LoadClause'[n + 1].tmp /\ Result'[n + 1].sql = "BIT"
    BY <1>2, <1>3, <1>8, <2>3
  <2> QED
    BY <1>1, <1>3, <1>4, <2>3, <2>5, <2>6, <2>7, <2>8 DEF Aligned, ColumnsAligned
<1>9. CASE ~ThroughVariable(member)
  <2>1. /\ SetClause' = SetClause
        /\ engine = "mysql" =>
             LoadClause' = Append(LoadClause, [tmp |-> FALSE, name |-> name])
    BY <1>9 DEF AddColumn, Direct, NoLoad, column_desc, UseBitType, name
  <2>2. \A i \in 1..Len(SetClause') :
          \E k \in 1..Len(Result') : Result'[k].name = SetClause'[i]
    BY <1>1, <1>3, <2>1 DEF Aligned
  <2>3. CASE engine = "mysql"
    <3>1. /\ Len(LoadClause') = n + 1
          /\ \A k \in 1..n : LoadClause'[k] = LoadClause[k]
          /\ LoadClause'[n + 1] = [tmp |-> FALSE, name |-> name]
      <4>1. [tmp |-> FALSE, name |-> name] \in [tmp : BOOLEAN, name : ColumnNames]
        BY <1>1
      <4>2. Len(LoadClause) = n
        BY <1>1, <2>3 DEF Aligned, ColumnsAligned
      <4> QED
        <5>1. \A t \in [tmp : BOOLEAN, name : ColumnNames] :
                /\ Len(Append(LoadClause, t)) = Len(LoadClause) + 1
                /\ \A i \in 1..Len(LoadClause) : Append(LoadClause, t)[i] = LoadClause[i]
                /\ Append(LoadClause, t)[Len(LoadClause) + 1] = t
          BY Appended DEF WalkOK
        <5> QED
          BY <2>1, <2>3, <4>1, <4>2, <5>1
    <3>2. \A k \in 1..n :
            /\ LoadClause'[k].name = Result'[k].name
            /\ LoadClause'[k].tmp <=> Result'[k].sql = "BIT"
            /\ LoadClause'[k].tmp <=> Assigned(Result[k].name)'
      BY <1>3, <2>1, <2>3, <3>1 DEF Aligned, ColumnsAligned, Assigned
    <3>3. /\ LoadClause'[n + 1].name = Result'[n + 1].name
          /\ ~LoadClause'[n + 1].tmp /\ Result'[n + 1].sql # "BIT"
      BY <1>2, <1>3, <1>9, <3>1
    <3>4. ~Assigned(Result[n + 1].name)'
      BY <1>3, <1>6, <2>1 DEF Assigned
    <3> QED
      BY <1>1, <1>3, <1>4, <2>2, <3>1, <3>2, <3>3, <3>4 DEF Aligned, ColumnsAligned
  <2>4. CASE engine # "mysql"
    BY <1>1, <1>3, <1>4, <2>2, <2>4 DEF Aligned, ColumnsAligned
  <2> QED
    BY <2>3, <2>4
<1> QED
  BY <1>8, <1>9

LEMMA AlignedStep ==
  ASSUME WalkOK, Aligned, [Next]_vars
  PROVE  Aligned'
<1>1. CASE ColumnSteps
  BY <1>1, ColumnStep, AlignedColumn
<1>2. CASE ~ColumnSteps
  <2>1. /\ engine' = engine /\ struct' = struct /\ Result' = Result
        /\ LoadClause' = LoadClause /\ SetClause' = SetClause
    BY <1>2, OtherStep DEF options, schema
  <2>2. \A name : Assigned(name)' <=> Assigned(name)
    BY <2>1 DEF Assigned
  <2> QED
    BY <2>1, <2>2 DEF Aligned, ColumnsAligned
<1> QED
  BY <1>1, <1>2

\* For every row type: the positions by which CREATE, LOAD and SET are matched
\* mean the same member.
THEOREM ColumnsAreAligned == Spec => []ColumnsAligned
<1>1. Init => WalkOK /\ Aligned
  BY WalkInit, AlignedInit
<1>2. WalkOK /\ Aligned /\ [Next]_vars => WalkOK' /\ Aligned'
  BY WalkStep, AlignedStep
<1>3. Aligned => ColumnsAligned
  BY DEF Aligned
<1> QED
  BY <1>1, <1>2, <1>3, PTL DEF Spec

-----------------------------------------------------------------------------
(* Induction, and functions that are defined by it. *)

\* A set of numbers that has 0 and with each number below n the next one has
\* every number up to n.
LEMMA UpTo ==
  ASSUME NEW n \in Nat, NEW T, 0 \in T,
         \A k \in 0..(n - 1) : k \in T => k + 1 \in T
  PROVE  \A k \in 0..n : k \in T
<1> DEFINE U == {k \in 0..n : k \notin T}
<1>1. CASE U = {}
  BY <1>1
<1>2. CASE U # {}
  <2>1. U \subseteq Nat
    OBVIOUS
  <2>2. PICK k \in U : \A j \in U : ~(<<j, k>> \in OpToRel(<, Nat))
    <3> HIDE DEF U
    <3> QED
      BY <1>2, <2>1, NatLessThanWellFounded, WFMin
  <2>3. k # 0 /\ k \in 0..n
    OBVIOUS
  <2>4. PICK m \in 0..(n - 1) : k = m + 1
    BY <2>3
  <2>5. m \notin U
    <3>1. m \in Nat /\ k \in Nat /\ m < k
      BY <2>4
    <3>2. <<m, k>> \in OpToRel(<, Nat)
      BY <3>1 DEF OpToRel
    <3> HIDE DEF U
    <3> QED
      BY <2>2, <3>2
  <2> QED
    BY <2>4, <2>5
<1> QED
  BY <1>1, <1>2

\* From every start and by every rule a function is defined step by step.
StepByStep(S, n, start, rule) ==
  \E f \in [0..n -> S] :
    /\ f[0] = start
    /\ \A i \in 1..n : f[i] = rule[<<f[i - 1], i>>]

LEMMA Recursion ==
  ASSUME NEW S, NEW n \in Nat, NEW start \in S, NEW rule \in [S \X (1..n) -> S]
  PROVE  StepByStep(S, n, start, rule)
<1> DEFINE Defined(k) == \E f \in [0..k -> S] :
             /\ f[0] = start
             /\ \A i \in 1..k : f[i] = rule[<<f[i - 1], i>>]
           T == {k \in 0..n : Defined(k)}
<1>1. 0 \in T
  <2> DEFINE f == [i \in 0..0 |-> start]
  <2>1. f \in [0..0 -> S] /\ f[0] = start
    OBVIOUS
  <2> HIDE DEF f
  <2>2. \A i \in 1..0 : f[i] = rule[<<f[i - 1], i>>]
    OBVIOUS
  <2>3. Defined(0)
    BY <2>1, <2>2
  <2> QED
    BY <2>3
<1>2. ASSUME NEW k \in 0..(n - 1), k \in T
      PROVE  k + 1 \in T
  <2>1. PICK f \in [0..k -> S] :
          f[0] = start /\ \A i \in 1..k : f[i] = rule[<<f[i - 1], i>>]
    BY <1>2
  <2> DEFINE e == rule[<<f[k], k + 1>>]
             g == [i \in 0..(k + 1) |-> IF i = k + 1 THEN e ELSE f[i]]
  <2>2. f[k] \in S /\ k + 1 \in 1..n
    BY <2>1
  <2>3. e \in S
    BY <2>2
  <2>4. \A i \in 0..k : g[i] = f[i] /\ f[i] \in S
    BY <2>1
  <2>5. g[k + 1] = rule[<<g[k], k + 1>>]
    <3>1. g[k + 1] = e /\ g[k] = f[k]
      BY <2>4
    <3> QED
      BY <3>1
  <2>6. g \in [0..(k + 1) -> S]
    BY <2>3, <2>4
  <2> HIDE DEF g, e
  <2>7. ASSUME NEW i \in 1..(k + 1)
        PROVE  g[i] = rule[<<g[i - 1], i>>]
    <3>1. CASE i = k + 1
      <4>1. i - 1 = k
        BY <3>1
      <4> QED
        BY <2>5, <3>1, <4>1
    <3>2. CASE i # k + 1
      <4>1. i \in 1..k /\ i \in 0..k /\ i - 1 \in 0..k
        BY <3>2
      <4>2. g[i] = f[i] /\ g[i - 1] = f[i - 1]
        BY <2>4, <4>1
      <4> QED
        BY <2>1, <4>1, <4>2
    <3> QED
      BY <3>1, <3>2
  <2>8. g[0] = start
    BY <2>1, <2>4
  <2> QED
    BY <2>6, <2>7, <2>8
<1>3. n \in T
  <2> HIDE DEF T
  <2> QED
    BY <1>1, <1>2, UpTo
<1> QED
  BY <1>3 DEF StepByStep

-----------------------------------------------------------------------------
(* Reading, character by character. *)

File   == Seq(Characters)
Places == {"field", "quoted", "closed", "escape", "quotedEscape"}
At(lines, fields, text, where) ==
  [lines |-> lines, fields |-> fields, text |-> text, in |-> where]
State ==
  [lines : Seq(Seq(File)), fields : Seq(File), text : File, in : Places]

LEMMA ReadTyped ==
  ASSUME NEW s \in State, NEW c \in Characters
  PROVE  ReadChar(s, c) \in State
<1>1. PICK lines \in Seq(Seq(File)), fields \in Seq(File), text \in File, where \in Places :
        s = At(lines, fields, text, where)
  BY DEF State, At
<1>2. /\ Append(fields, text) \in Seq(File)
      /\ <<>> \in Seq(File) /\ <<>> \in File
      /\ Append(lines, Append(fields, text)) \in Seq(Seq(File))
      /\ Append(text, c) \in File /\ Append(text, Newline) \in File
      /\ Append(text, Quote) \in File /\ Append(Append(text, Quote), c) \in File
  BY TextsAssumption DEF File
<1>3. /\ EndField(s) = At(lines, Append(fields, text), <<>>, "field")
      /\ EndLine(s) = At(Append(lines, Append(fields, text)), <<>>, <<>>, "field")
  BY <1>1 DEF At, EndField, EndLine, Start
<1>4. \A d \in {c, Newline, Quote}, in2 \in Places :
        Put(s, d, in2) = At(lines, fields, Append(text, d), in2)
  BY <1>1 DEF At, Put
<1>5. Put(Put(s, Quote, "quoted"), c, "quoted") =
        At(lines, fields, Append(Append(text, Quote), c), "quoted")
  BY <1>1 DEF At, Put
<1>6. \A in2 \in Places : [s EXCEPT !.in = in2] = At(lines, fields, text, in2)
  BY <1>1 DEF At
<1>7. /\ "field" \in Places /\ "quoted" \in Places /\ "closed" \in Places
      /\ "escape" \in Places /\ "quotedEscape" \in Places
  BY DEF Places
<1>8. \A l \in Seq(Seq(File)), f \in Seq(File), t \in File, in2 \in Places :
        At(l, f, t, in2) \in State
  BY DEF At, State
<1>9. EndField(s) \in State /\ EndLine(s) \in State
  BY <1>2, <1>3, <1>7, <1>8
<1>10. \A d \in {c, Newline, Quote}, in2 \in Places : Put(s, d, in2) \in State
  BY <1>2, <1>4, <1>8
<1>11. Put(Put(s, Quote, "quoted"), c, "quoted") \in State
  BY <1>2, <1>5, <1>7, <1>8
<1>12. \A in2 \in Places : [s EXCEPT !.in = in2] \in State
  BY <1>6, <1>8
<1>13. Meant(c) \in {c, Newline}
  BY DEF Meant
<1> QED
  BY <1>7, <1>9, <1>10, <1>11, <1>12, <1>13 DEF ReadChar

LEMMA StartTyped == Start \in State
<1>1. /\ <<>> \in Seq(Seq(File)) /\ <<>> \in Seq(File) /\ <<>> \in File
      /\ "field" \in Places
  BY DEF File, Places
<1> QED
  BY <1>1 DEF Start, State

\* The states that the reader goes through.
Trace(text, f) ==
  /\ f[0] = Start
  /\ \A i \in 1..Len(text) : f[i] = ReadChar(f[i - 1], text[i])

LEMMA Traced ==
  ASSUME NEW text \in File
  PROVE  \E f \in [0..Len(text) -> State] : Trace(text, f) /\ Read(text) = f[Len(text)]
<1>1. PICK n \in Nat : n = Len(text)
  BY DEF File
<1>2. \A i \in 1..n : text[i] \in Characters
  BY <1>1 DEF File
<1>3. PICK rule \in [State \X (1..n) -> State] :
        \A t \in State, i \in 1..n : rule[<<t, i>>] = ReadChar(t, text[i])
  <2> DEFINE rule == [p \in State \X (1..n) |-> ReadChar(p[1], text[p[2]])]
  <2>1. rule \in [State \X (1..n) -> State]
    BY <1>2, ReadTyped
  <2>2. \A t \in State, i \in 1..n : rule[<<t, i>>] = ReadChar(t, text[i])
    OBVIOUS
  <2> HIDE DEF rule
  <2> QED
    BY <2>1, <2>2
<1>4. PICK f \in [0..n -> State] :
        f[0] = Start /\ \A i \in 1..n : f[i] = rule[<<f[i - 1], i>>]
  <2>1. StepByStep(State, n, Start, rule)
    BY StartTyped, Recursion
  <2> QED
    BY <2>1 DEF StepByStep
<1>5. \A i \in 0..n : f[i] \in State
  BY <1>4
<1>6. \A i \in 1..n : f[i] = ReadChar(f[i - 1], text[i])
  <2>1. \A i \in 1..n : f[i - 1] \in State
    BY <1>5
  <2> QED
    BY <1>3, <1>4, <2>1
<1>7. f = [i \in 0..n |-> IF i = 0 THEN Start ELSE ReadChar(f[i - 1], text[i])]
  BY <1>4, <1>6
<1> DEFINE IsTrace(g) ==
      g = [i \in 0..n |-> IF i = 0 THEN Start ELSE ReadChar(g[i - 1], text[i])]
<1>8. PICK r : r = CHOOSE g : IsTrace(g)
  OBVIOUS
<1>9. IsTrace(r)
  BY <1>7, <1>8
<1>10. Read(text) = r[n]
  BY <1>1, <1>8 DEF Read
<1>11. /\ DOMAIN r = 0..n /\ r[0] = Start
       /\ \A i \in 1..n : r[i] = ReadChar(r[i - 1], text[i])
  BY <1>9
<1> DEFINE T == {i \in 0..n : r[i] = f[i]}
<1>12. \A i \in 0..n : i \in T
  <2>1. 0 \in T
    BY <1>4, <1>11
  <2>2. ASSUME NEW k \in 0..(n - 1), k \in T
        PROVE  k + 1 \in T
    BY <1>6, <1>11, <2>2
  <2> HIDE DEF T
  <2> QED
    BY <2>1, <2>2, UpTo
<1>13. r[n] = f[n]
  BY <1>12
<1> QED
  BY <1>1, <1>4, <1>6, <1>10, <1>13 DEF Trace

LEMMA ReadEmpty == Read(<<>>) = Start
<1>1. <<>> \in File
  BY DEF File
<1>2. Len(<<>>) = 0
  OBVIOUS
<1> QED
  BY <1>1, <1>2, Traced DEF Trace

\* What one more character does.
LEMMA ReadMore ==
  ASSUME NEW text \in File, NEW c \in Characters
  PROVE  /\ Append(text, c) \in File
         /\ Read(text) \in State
         /\ Read(Append(text, c)) = ReadChar(Read(text), c)
<1> DEFINE more == Append(text, c)
<1>1. PICK n \in Nat : n = Len(text)
  BY DEF File
<1>2. /\ more \in File /\ Len(more) = n + 1 /\ more[n + 1] = c
      /\ \A i \in 1..n : more[i] = text[i]
  BY <1>1 DEF File
<1> HIDE DEF more
<1>3. PICK f \in [0..n -> State] : Trace(text, f) /\ Read(text) = f[n]
  BY <1>1, Traced
<1>4. PICK g \in [0..(n + 1) -> State] : Trace(more, g) /\ Read(more) = g[n + 1]
  BY <1>2, Traced
<1> DEFINE T == {i \in 0..n : g[i] = f[i]}
<1>5. \A i \in 0..n : i \in T
  <2>1. 0 \in T
    BY <1>3, <1>4 DEF Trace
  <2>2. ASSUME NEW k \in 0..(n - 1), k \in T
        PROVE  k + 1 \in T
    <3>1. k + 1 \in 1..n /\ k + 1 \in 1..(n + 1)
      OBVIOUS
    <3> QED
      BY <1>1, <1>2, <1>3, <1>4, <2>2, <3>1 DEF Trace
  <2> HIDE DEF T
  <2> QED
    BY <2>1, <2>2, UpTo
<1>6. g[n + 1] = ReadChar(g[n], c)
  BY <1>2, <1>4 DEF Trace
<1> QED
  BY <1>2, <1>3, <1>4, <1>5, <1>6 DEF more

-----------------------------------------------------------------------------
(* The texts that are put together of parts. *)

\* Two texts one behind the other, and what one part more is.
LEMMA Joined ==
  ASSUME NEW s \in File, NEW t \in File
  PROVE  /\ s \o t \in File
         /\ \A c \in Characters : s \o Append(t, c) = Append(s \o t, c)
         /\ s \o <<>> = s
         /\ <<>> \o s = s
BY DEF File

\* A text of n parts grows by one part after the other.
Grows(parts, f) ==
  /\ f \in [0..Len(parts) -> File]
  /\ f[0] = <<>>
  /\ \A i \in 1..Len(parts) : f[i] = f[i - 1] \o parts[i]
  /\ FlattenSeq(parts) = f[Len(parts)]

LEMMA Flattened ==
  ASSUME NEW parts \in Seq(File)
  PROVE  \E f : Grows(parts, f)
<1>1. PICK n \in Nat : n = Len(parts)
  OBVIOUS
<1>2. \A i \in 1..n : parts[i] \in File
  BY <1>1
<1>3. PICK rule \in [File \X (1..n) -> File] :
        \A t \in File, i \in 1..n : rule[<<t, i>>] = t \o parts[i]
  <2> DEFINE rule == [p \in File \X (1..n) |-> p[1] \o parts[p[2]]]
  <2>1. rule \in [File \X (1..n) -> File]
    BY <1>2, Joined
  <2>2. \A t \in File, i \in 1..n : rule[<<t, i>>] = t \o parts[i]
    OBVIOUS
  <2> HIDE DEF rule
  <2> QED
    BY <2>1, <2>2
<1>4. <<>> \in File
  BY DEF File
<1>5. PICK f \in [0..n -> File] :
        f[0] = <<>> /\ \A i \in 1..n : f[i] = rule[<<f[i - 1], i>>]
  <2>1. StepByStep(File, n, <<>>, rule)
    BY <1>4, Recursion
  <2> QED
    BY <2>1 DEF StepByStep
<1>6. \A i \in 1..n : f[i] = f[i - 1] \o parts[i]
  <2>1. \A i \in 1..n : f[i - 1] \in File
    BY <1>5
  <2> QED
    BY <1>3, <1>5, <2>1
<1>7. CASE n = 0
  <2>1. parts = <<>>
    BY <1>1, <1>7
  <2>2. FlattenSeq(parts) = parts
    BY <1>1, <1>7 DEF FlattenSeq
  <2>3. Grows(parts, f)
    BY <1>1, <1>5, <1>6, <1>7, <2>1, <2>2 DEF Grows
  <2> QED
    BY <2>3
<1>8. CASE n # 0
  <2> DEFINE IsFlat(g) ==
        g = [i \in 1..n |-> IF i = 1 THEN parts[i] ELSE g[i - 1] \o parts[i]]
             h == [i \in 1..n |-> f[i]]
  <2>1. f[1] = parts[1]
    <3>1. PICK i \in 1..n : i = 1 /\ i - 1 = 0
      BY <1>8
    <3>2. f[i] = f[i - 1] \o parts[i] /\ parts[i] \in File
      BY <1>2, <1>6
    <3> QED
      BY <1>5, <3>1, <3>2, Joined
  <2>2. \A i \in 1..n : h[i] = f[i] /\ (i # 1 => i - 1 \in 1..n /\ h[i - 1] = f[i - 1])
    OBVIOUS
  <2>3. IsFlat(h)
    <3>1. \A i \in 1..n : h[i] = IF i = 1 THEN parts[i] ELSE h[i - 1] \o parts[i]
      BY <1>6, <2>1, <2>2
    <3> QED
      BY <3>1
  <2>4. PICK r : r = CHOOSE g : IsFlat(g)
    OBVIOUS
  <2>5. IsFlat(r)
    <3> HIDE DEF h
    <3> QED
      BY <2>3, <2>4
  <2>6. FlattenSeq(parts) = r[n]
    BY <1>1, <1>8, <2>4 DEF FlattenSeq
  <2>7. \A i \in 1..n : r[i] = IF i = 1 THEN parts[i] ELSE r[i - 1] \o parts[i]
    BY <2>5
  <2> DEFINE T == {i \in 0..(n - 1) : r[i + 1] = f[i + 1]}
  <2>8. \A i \in 0..(n - 1) : i \in T
    <3>1. 0 \in T
      BY <1>8, <2>1, <2>7
    <3>2. ASSUME NEW k \in 0..((n - 1) - 1), k \in T
          PROVE  k + 1 \in T
      <4>1. PICK m \in 2..n : m = k + 2
        BY <1>8
      <4>2. r[m - 1] = f[m - 1] /\ m \in 1..n /\ m # 1
        BY <3>2, <4>1
      <4>3. r[m] = f[m]
        BY <1>6, <2>7, <4>2
      <4> QED
        BY <4>1, <4>3
    <3>3. n - 1 \in Nat
      BY <1>8
    <3> HIDE DEF T
    <3> QED
      BY <3>1, <3>2, <3>3, UpTo
  <2>9. r[n] = f[n]
    <3>1. PICK m \in 0..(n - 1) : m + 1 = n
      BY <1>8
    <3> QED
      BY <2>8, <3>1
  <2>10. Grows(parts, f)
    BY <1>1, <1>5, <1>6, <2>6, <2>9 DEF Grows
  <2> QED
    BY <2>10
<1> QED
  BY <1>7, <1>8

-----------------------------------------------------------------------------
(* What the reader makes of each kind of field. *)

\* The characters that the formats give a meaning are not those of names and
\* numbers.
LEMMA Characteristic ==
  ASSUME separator \in Separators
  PROVE  /\ separator \in Characters
         /\ separator \notin Names \cup Digit
         /\ separator \notin {Quote, Backslash, Newline, "n"}
         /\ {Quote, Backslash, Newline, "n", "listed"} \subseteq Characters
         /\ Digit \cup Names \subseteq Characters
         /\ Names \cap {Quote, Backslash, Newline} = {}
BY TextsAssumption, SeparatorsAssumption

\* One character at each place where a field that was written can be.
LEMMA ReadPlain ==
  ASSUME NEW l, NEW f, NEW t,
         NEW c, c \notin {separator, Newline, Backslash, Quote}
  PROVE  ReadChar(At(l, f, t, "field"), c) = At(l, f, Append(t, c), "field")
BY DEF ReadChar, At, Put, Quote, Newline, Backslash

LEMMA ReadOpening ==
  ASSUME separator \in Separators, NEW l, NEW f
  PROVE  ReadChar(At(l, f, <<>>, "field"), Quote) = At(l, f, <<>>, "quoted")
BY Characteristic DEF ReadChar, At, Put, Quote, Newline, Backslash

LEMMA ReadQuoted ==
  ASSUME NEW l, NEW f, NEW t, NEW c, c \notin {Quote, Backslash}
  PROVE  ReadChar(At(l, f, t, "quoted"), c) = At(l, f, Append(t, c), "quoted")
BY DEF ReadChar, At, Put, Quote, Newline, Backslash

LEMMA ReadBackslash ==
  ASSUME NEW l, NEW f, NEW t
  PROVE  ReadChar(At(l, f, t, "quoted"), Backslash) = At(l, f, t, "quotedEscape")
BY DEF ReadChar, At, Quote, Backslash

LEMMA ReadEscaped ==
  ASSUME NEW l, NEW f, NEW t, NEW c, c # "n"
  PROVE  ReadChar(At(l, f, t, "quotedEscape"), c) = At(l, f, Append(t, c), "quoted")
BY DEF ReadChar, At, Put, Meant

LEMMA ReadClosing ==
  ASSUME NEW l, NEW f, NEW t
  PROVE  ReadChar(At(l, f, t, "quoted"), Quote) = At(l, f, t, "closed")
BY DEF ReadChar, At, Quote, Backslash

\* A field may end where it was not quoted and where its quote was closed.
LEMMA ReadSeparator ==
  ASSUME separator \in Separators,
         NEW l, NEW f, NEW t, NEW where \in {"field", "closed"}
  PROVE  ReadChar(At(l, f, t, where), separator) = At(l, Append(f, t), <<>>, "field")
BY Characteristic DEF ReadChar, At, EndField, Quote, Newline, Backslash

LEMMA ReadNewline ==
  ASSUME separator \in Separators,
         NEW l, NEW f, NEW t, NEW where \in {"field", "closed"}
  PROVE  ReadChar(At(l, f, t, where), Newline) =
           At(Append(l, Append(f, t)), <<>>, <<>>, "field")
BY Characteristic DEF ReadChar, At, EndLine, Quote, Newline, Backslash

\* s read from o on, where o ends in a field of which t is read and the reader is
\* where w says.
ReadAs(o, l, f, t, where) == o \in File /\ Read(o) = At(l, f, t, where)

\* How one character more moves the reader.
LEMMA Reached ==
  ASSUME NEW o \in File, NEW c \in Characters
  PROVE  o \o <<c>> = Append(o, c)
BY DEF File

LEMMA OneMore ==
  ASSUME NEW o, NEW l, NEW f, NEW t, NEW where, ReadAs(o, l, f, t, where),
         NEW c \in Characters,
         NEW l2, NEW f2, NEW t2, NEW where2,
         ReadChar(At(l, f, t, where), c) = At(l2, f2, t2, where2)
  PROVE  ReadAs(Append(o, c), l2, f2, t2, where2)
BY ReadMore DEF ReadAs

\* A character that is none of the format's own, at the place of a field.
LEMMA UnquotedRead ==
  ASSUME separator \in Separators,
         NEW o, NEW l, NEW f, ReadAs(o, l, f, <<>>, "field"),
         NEW c \in Names \cup Digit
  PROVE  ReadAs(o \o <<c>>, l, f, <<c>>, "field")
<1>1. c \in Characters /\ c \notin {separator, Newline, Backslash, Quote}
  <2>1. c \in Digit => c \notin {Newline, Backslash, Quote}
    BY DEF Digit, Newline, Backslash, Quote
  <2> QED
    BY <2>1, Characteristic
<1>2. ReadChar(At(l, f, <<>>, "field"), c) = At(l, f, <<c>>, "field")
  <2>1. Append(<<>>, c) = <<c>>
    OBVIOUS
  <2>2. ReadChar(At(l, f, <<>>, "field"), c) = At(l, f, Append(<<>>, c), "field")
    <3>1. PICK t : t = <<>>
      OBVIOUS
    <3>2. ReadChar(At(l, f, t, "field"), c) = At(l, f, Append(t, c), "field")
      BY <1>1, ReadPlain
    <3> QED
      BY <3>1, <3>2
  <2> QED
    BY <2>1, <2>2
<1>3. ReadAs(Append(o, c), l, f, <<c>>, "field")
  BY <1>1, <1>2, OneMore
<1> QED
  BY <1>1, <1>3, Reached DEF ReadAs

\* The text between the quotes.
LEMMA EscapedRead ==
  ASSUME separator \in Separators, NEW v \in File,
         NEW o, NEW l, NEW f, ReadAs(o, l, f, <<>>, "quoted")
  PROVE  Escaped(v) \in File /\ ReadAs(o \o Escaped(v), l, f, v, "quoted")
<1>1. PICK n \in Nat : n = Len(v)
  BY DEF File
<1>2. \A i \in 1..n : v[i] \in Characters
  BY <1>1 DEF File
<1> DEFINE Part(i) == IF v[i] \in {Quote, Backslash, separator}
                      THEN <<Backslash, v[i]>> ELSE <<v[i]>>
           parts == [i \in 1..n |-> Part(i)]
<1>3. \A i \in 1..n : Part(i) \in File
  BY <1>2, Characteristic DEF File
<1>4. parts \in Seq(File) /\ Len(parts) = n /\ \A i \in 1..n : parts[i] = Part(i)
  BY <1>3
<1>5. Escaped(v) = FlattenSeq(parts)
  BY <1>1 DEF Escaped
<1> HIDE DEF parts
<1>6. PICK g : Grows(parts, g)
  BY <1>4, Flattened
<1>7. /\ g[0] = <<>> /\ \A i \in 0..n : g[i] \in File
      /\ \A i \in 1..n : g[i] = g[i - 1] \o parts[i]
      /\ Escaped(v) = g[n]
  BY <1>4, <1>5, <1>6 DEF Grows
<1> DEFINE Pre(i) == SubSeq(v, 1, i)
           T == {i \in 0..n : ReadAs(o \o g[i], l, f, Pre(i), "quoted")}
<1>8. 0 \in T
  <2>1. Pre(0) = <<>>
    BY <1>1 DEF File
  <2>2. o \o g[0] = o
    BY <1>7, Joined DEF ReadAs
  <2>3. ReadAs(o \o g[0], l, f, Pre(0), "quoted")
    BY <2>1, <2>2
  <2>4. 0 \in 0..n
    OBVIOUS
  <2> HIDE DEF Pre
  <2> QED
    BY <2>3, <2>4
<1>9. ASSUME NEW k \in 0..(n - 1), k \in T
      PROVE  k + 1 \in T
  <2>1. PICK i \in 1..n : i = k + 1 /\ i - 1 = k
    OBVIOUS
  <2>2. PICK c \in Characters : c = v[i]
    BY <1>2
  <2>3. PICK t : t = Pre(k)
    OBVIOUS
  <2>4. Pre(i) = Append(t, c)
    <3>1. Pre(i) \in Seq(Characters) /\ Len(Pre(i)) = i
      BY <1>1 DEF File
    <3>2. t \in Seq(Characters) /\ Len(t) = k
      BY <1>1, <2>3 DEF File
    <3>3. \A j \in 1..i : Pre(i)[j] = v[j]
      BY <1>1 DEF File
    <3>4. \A j \in 1..k : t[j] = v[j]
      BY <1>1, <2>3 DEF File
    <3>5. /\ Append(t, c) \in Seq(Characters) /\ Len(Append(t, c)) = i
          /\ \A j \in 1..k : Append(t, c)[j] = t[j]
          /\ Append(t, c)[i] = c
      BY <2>1, <3>2
    <3> HIDE DEF Pre
    <3>6. \A j \in 1..i : Pre(i)[j] = Append(t, c)[j]
      BY <2>1, <2>2, <3>3, <3>4, <3>5
    <3> QED
      BY <3>1, <3>5, <3>6, SeqEqual
  <2> HIDE DEF Pre
  <2>5. PICK e : e = o \o g[k]
    OBVIOUS
  <2>6. ReadAs(e, l, f, t, "quoted")
    BY <1>9, <2>3, <2>5
  <2>7. g[i] = g[k] \o parts[i] /\ g[k] \in File
    <3>1. g[i] = g[i - 1] \o parts[i]
      BY <1>7
    <3>2. k \in 0..n
      BY <1>1
    <3> QED
      BY <1>7, <2>1, <3>1, <3>2
  <2>8. CASE c \in {Quote, Backslash, separator}
    <3>1. parts[i] = <<Backslash, c>>
      BY <1>4, <2>2, <2>8
    <3>2. Backslash \in Characters /\ c # "n"
      BY <2>8, Characteristic DEF Quote, Backslash
    <3>3. ReadAs(Append(e, Backslash), l, f, t, "quotedEscape")
      BY <2>6, <3>2, ReadBackslash, OneMore
    <3>4. ReadAs(Append(Append(e, Backslash), c), l, f, Append(t, c), "quoted")
      BY <3>2, <3>3, ReadEscaped, OneMore
    <3>5. o \o g[i] = Append(Append(e, Backslash), c)
      <4>1. \A a, b \in Seq(Characters) :
              a \o (b \o <<Backslash, c>>) = Append(Append(a \o b, Backslash), c)
        BY <3>2
      <4>2. o \in Seq(Characters) /\ g[k] \in Seq(Characters)
        BY <2>7 DEF ReadAs, File
      <4> QED
        BY <2>5, <2>7, <3>1, <4>1, <4>2
    <3>6. ReadAs(o \o g[i], l, f, Pre(i), "quoted")
      BY <2>4, <3>4, <3>5
    <3> QED
      BY <2>1, <3>6
  <2>9. CASE c \notin {Quote, Backslash, separator}
    <3>1. parts[i] = <<c>>
      BY <1>4, <2>2, <2>9
    <3>2. ReadAs(Append(e, c), l, f, Append(t, c), "quoted")
      BY <2>6, <2>9, ReadQuoted, OneMore
    <3>3. o \o g[i] = Append(e, c)
      BY <2>5, <2>7, <3>1 DEF ReadAs, File
    <3>4. ReadAs(o \o g[i], l, f, Pre(i), "quoted")
      BY <2>4, <3>2, <3>3
    <3> QED
      BY <2>1, <3>4
  <2> QED
    BY <2>8, <2>9
<1>10. n \in T
  <2>1. \A i \in 0..n : i \in T
    <3> HIDE DEF T
    <3> QED
      BY <1>8, <1>9, UpTo
  <2> QED
    BY <2>1
<1>11. Pre(n) = v
  BY <1>1, SubSeqFull DEF File
<1>12. Escaped(v) \in File
  BY <1>7
<1> QED
  BY <1>7, <1>10, <1>11, <1>12

LEMMA SwitchOnType ==
  ASSUME NEW v
  PROVE  /\ \A type \in {"number", "address"} :
              Values(type) = {"0", "7"} /\ Field(type, v) = <<v>>
              /\ FieldText(type, v) = <<v>>
         /\ Values("bool") = BOOLEAN /\ FieldText("bool", v) = <<Digits(v)>>
         /\ engine # "odbc" => Field("bool", v) = <<Digits(v)>>
         /\ Values("enum") = {"listed", "unlisted"}
         /\ Field("enum", v) =
              IF v = "listed" THEN <<Quote, v, Quote>> ELSE <<Quote, Quote>>
         /\ FieldText("enum", v) = IF v = "listed" THEN <<v>> ELSE <<>>
         /\ Values("text") = Texts /\ FieldText("text", v) = v
         /\ Field("text", v) = <<Quote>> \o Escaped(v) \o <<Quote>>
BY DEF Values, Field, FieldText

\* A field, whatever is in it, is read as what it says, and the reader is where a
\* field may end.
FieldIsRead(o, l, f, type, v) ==
  /\ Field(type, v) \in File
  /\ FieldText(type, v) \in File
  /\ \E where \in {"field", "closed"} :
       ReadAs(o \o Field(type, v), l, f, FieldText(type, v), where)

LEMMA FieldRead ==
  ASSUME separator \in Separators, engine # "odbc",
         NEW o, NEW l, NEW f, ReadAs(o, l, f, <<>>, "field"),
         NEW type \in Types, NEW v \in Values(type)
  PROVE  FieldIsRead(o, l, f, type, v)
<1>1. o \in File
  BY DEF ReadAs
<1>2. CASE type \in {"number", "address"}
  <2>1. v \in Digit /\ Field(type, v) = <<v>> /\ FieldText(type, v) = <<v>>
    BY <1>2, SwitchOnType DEF Digit
  <2>2. ReadAs(o \o <<v>>, l, f, <<v>>, "field")
    BY <2>1, UnquotedRead
  <2>3. <<v>> \in File
    BY <2>1, Characteristic DEF File
  <2> QED
    BY <2>1, <2>2, <2>3 DEF FieldIsRead
<1>3. CASE type = "bool"
  <2>1. PICK d \in Digit : d = Digits(v)
    BY <1>3, SwitchOnType DEF Digits, Digit
  <2>2. Field(type, v) = <<d>> /\ FieldText(type, v) = <<d>>
    BY <1>3, <2>1, SwitchOnType
  <2>3. ReadAs(o \o <<d>>, l, f, <<d>>, "field")
    BY UnquotedRead
  <2>4. <<d>> \in File
    BY <2>1, Characteristic DEF File
  <2> QED
    BY <2>2, <2>3, <2>4 DEF FieldIsRead
<1>4. PICK q : q = Append(o, Quote)
  OBVIOUS
<1>5. Quote \in Characters /\ ReadAs(q, l, f, <<>>, "quoted")
  BY <1>4, Characteristic, ReadOpening, OneMore
<1>6. CASE type = "enum" /\ v = "listed"
  <2>1. /\ Field(type, v) = <<Quote, v, Quote>> /\ FieldText(type, v) = <<v>>
        /\ v \in Characters /\ v \notin {Quote, Backslash}
    BY <1>6, SwitchOnType, Characteristic DEF Quote, Backslash
  <2>2. ReadAs(Append(q, v), l, f, <<v>>, "quoted")
    <3>1. PICK t : t = <<>>
      OBVIOUS
    <3>2. ReadChar(At(l, f, t, "quoted"), v) = At(l, f, Append(t, v), "quoted")
      BY <2>1, ReadQuoted
    <3>3. ReadAs(Append(q, v), l, f, Append(t, v), "quoted")
      BY <1>5, <2>1, <3>1, <3>2, OneMore
    <3> QED
      BY <3>1, <3>3
  <2>3. ReadAs(Append(Append(q, v), Quote), l, f, <<v>>, "closed")
    BY <1>5, <2>2, ReadClosing, OneMore
  <2>4. o \o <<Quote, v, Quote>> = Append(Append(q, v), Quote)
    BY <1>1, <1>4, <1>5, <2>1 DEF File
  <2>5. <<Quote, v, Quote>> \in File /\ <<v>> \in File
    BY <1>5, <2>1 DEF File
  <2> QED
    BY <2>1, <2>3, <2>4, <2>5 DEF FieldIsRead
<1>7. CASE type = "enum" /\ v # "listed"
  <2>1. Field(type, v) = <<Quote, Quote>> /\ FieldText(type, v) = <<>>
    BY <1>7, SwitchOnType
  <2>2. ReadAs(Append(q, Quote), l, f, <<>>, "closed")
    BY <1>5, ReadClosing, OneMore
  <2>3. o \o <<Quote, Quote>> = Append(q, Quote)
    BY <1>1, <1>4, <1>5 DEF File
  <2>4. <<Quote, Quote>> \in File /\ <<>> \in File
    BY <1>5 DEF File
  <2> QED
    BY <2>1, <2>2, <2>3, <2>4 DEF FieldIsRead
<1>8. CASE type = "text"
  <2>1. /\ Field(type, v) = <<Quote>> \o Escaped(v) \o <<Quote>>
        /\ FieldText(type, v) = v /\ v \in File
    BY <1>8, SwitchOnType, TextsAssumption DEF File
  <2>2. PICK e \in File : e = Escaped(v) /\ ReadAs(q \o e, l, f, v, "quoted")
    BY <1>5, <2>1, EscapedRead
  <2>3. ReadAs(Append(q \o e, Quote), l, f, v, "closed")
    BY <1>5, <2>2, ReadClosing, OneMore
  <2>4. /\ o \o (<<Quote>> \o e \o <<Quote>>) = Append(q \o e, Quote)
        /\ <<Quote>> \o e \o <<Quote>> \in File
    <3>1. \A a, b \in Seq(Characters), c \in Characters :
            /\ a \o (<<c>> \o b \o <<c>>) = Append(Append(a, c) \o b, c)
            /\ <<c>> \o b \o <<c>> \in Seq(Characters)
      OBVIOUS
    <3> QED
      BY <1>1, <1>4, <1>5, <3>1 DEF File
  <2> QED
    BY <2>1, <2>2, <2>3, <2>4 DEF FieldIsRead
<1> QED
  BY <1>2, <1>3, <1>6, <1>7, <1>8 DEF Types

-----------------------------------------------------------------------------
(* What is read of the rows and of the header. *)

FieldsOf(r) == [k \in 1..Len(r) |-> FieldText(struct[k].type, r[k])]
RowTyped(r) ==
  /\ r \in Seq(Value)
  /\ Len(r) <= Len(struct)
  /\ \A k \in 1..Len(r) : r[k] \in Values(struct[k].type)

HeaderFields(n) == [k \in 1..n |-> <<struct[k].name>>]
skip == IF naked THEN 0 ELSE 1
LinesOf(rs) ==
  [i \in 1..(Len(rs) + skip) |->
     IF i <= skip THEN HeaderFields(Len(struct)) ELSE FieldsOf(rs[i - skip])]

\* The fields of a row, and of a row with one value more.
LEMMA TextTyped ==
  ASSUME NEW type \in Types, NEW v \in Values(type)
  PROVE  FieldText(type, v) \in File /\ v \in Value
<1>1. CASE type \in {"number", "address"}
  <2>1. v \in {"0", "7"} /\ FieldText(type, v) = <<v>>
    BY <1>1, SwitchOnType
  <2> QED
    BY <2>1, TextsAssumption DEF File, Value, Digit
<1>2. CASE type = "bool"
  <2>1. v \in BOOLEAN /\ FieldText(type, v) = <<Digits(v)>>
    BY <1>2, SwitchOnType
  <2>2. Digits(v) \in Characters
    BY TextsAssumption DEF Digits, Digit
  <2> QED
    BY <2>1, <2>2 DEF File, Value
<1>3. CASE type = "enum"
  <2>1. /\ v \in {"listed", "unlisted"}
        /\ FieldText(type, v) = IF v = "listed" THEN <<v>> ELSE <<>>
    BY <1>3, SwitchOnType
  <2> QED
    BY <2>1, TextsAssumption DEF File, Value
<1>4. CASE type = "text"
  BY <1>4, SwitchOnType, TextsAssumption DEF File, Value
<1> QED
  BY <1>1, <1>2, <1>3, <1>4 DEF Types

LEMMA RowFields ==
  ASSUME struct \in Structs, NEW r, RowTyped(r)
  PROVE  FieldsOf(r) \in Seq(File) /\ Len(FieldsOf(r)) = Len(r)
<1>1. \A k \in 1..Len(r) : k \in 1..Len(struct) /\ struct[k].type \in Types
  BY StructParts DEF RowTyped
<1>2. \A k \in 1..Len(r) : FieldText(struct[k].type, r[k]) \in File
  BY <1>1, TextTyped DEF RowTyped
<1>3. Len(r) \in Nat
  BY DEF RowTyped
<1> QED
  BY <1>2, <1>3 DEF FieldsOf

LEMMA MoreFields ==
  ASSUME struct \in Structs, NEW r, RowTyped(r), Len(r) < Len(struct),
         NEW v \in Values(struct[Len(r) + 1].type)
  PROVE  /\ RowTyped(Append(r, v))
         /\ FieldsOf(Append(r, v)) =
              Append(FieldsOf(r), FieldText(struct[Len(r) + 1].type, v))
<1>1. PICK n \in Nat : n = Len(r)
  BY DEF RowTyped
<1>2. n + 1 \in 1..Len(struct) /\ struct[n + 1].type \in Types /\ Len(struct) \in Nat
  BY <1>1, StructParts
<1>3. PICK x : x = FieldText(struct[n + 1].type, v)
  OBVIOUS
<1>4. x \in File /\ v \in Value
  BY <1>1, <1>2, <1>3, TextTyped
<1>5. PICK more : more = Append(r, v)
  OBVIOUS
<1>6. /\ more \in Seq(Value) /\ Len(more) = n + 1 /\ more[n + 1] = v
      /\ \A k \in 1..n : more[k] = r[k]
  BY <1>1, <1>4, <1>5 DEF RowTyped
<1>7. RowTyped(more)
  <2>1. ASSUME NEW k \in 1..(n + 1) PROVE more[k] \in Values(struct[k].type)
    BY <1>1, <1>6 DEF RowTyped
  <2> QED
    BY <1>1, <1>2, <1>6, <2>1 DEF RowTyped
<1>8. PICK fs : fs = FieldsOf(r) /\ fs \in Seq(File) /\ Len(fs) = n
  BY <1>1, RowFields
<1>9. \A k \in 1..n : fs[k] = FieldText(struct[k].type, r[k])
  BY <1>1, <1>8 DEF FieldsOf
<1>10. /\ FieldsOf(more) \in Seq(File) /\ Len(FieldsOf(more)) = n + 1
       /\ \A k \in 1..(n + 1) : FieldsOf(more)[k] = FieldText(struct[k].type, more[k])
  <2>1. \A k \in 1..(n + 1) : FieldsOf(more)[k] = FieldText(struct[k].type, more[k])
    BY <1>6 DEF FieldsOf
  <2> QED
    BY <1>6, <1>7, <2>1, RowFields
<1>11. /\ Append(fs, x) \in Seq(File) /\ Len(Append(fs, x)) = n + 1
       /\ Append(fs, x)[n + 1] = x /\ \A k \in 1..n : Append(fs, x)[k] = fs[k]
  BY <1>4, <1>8
<1>12. \A k \in 1..(n + 1) : FieldsOf(more)[k] = Append(fs, x)[k]
  BY <1>3, <1>6, <1>9, <1>10, <1>11
<1>13. FieldsOf(more) = Append(fs, x)
  BY <1>10, <1>11, <1>12, SeqEqual
<1> QED
  BY <1>1, <1>3, <1>5, <1>7, <1>8, <1>13

\* The lines of the rows, and of one row more.
Whole(r) == RowTyped(r) /\ Len(r) = Len(struct)

LEMMA HeaderTyped ==
  ASSUME struct \in Structs, NEW n \in 0..Len(struct)
  PROVE  HeaderFields(n) \in Seq(File) /\ Len(HeaderFields(n)) = n
<1>1. \A k \in 1..n : <<struct[k].name>> \in File
  <2>1. \A k \in 1..n : struct[k].name \in Characters
    BY StructParts, TextsAssumption
  <2> QED
    BY <2>1 DEF File
<1>2. n \in Nat
  BY StructParts
<1> QED
  BY <1>1, <1>2 DEF HeaderFields

LEMMA LinesTyped ==
  ASSUME struct \in Structs, NEW rs, rs \in Seq(Seq(Value)),
         \A i \in 1..Len(rs) : Whole(rs[i])
  PROVE  LinesOf(rs) \in Seq(Seq(File)) /\ Len(LinesOf(rs)) = Len(rs) + skip
<1>1. PICK n \in Nat : n = Len(rs)
  OBVIOUS
<1>2. PICK m \in {0, 1} : m = skip
  BY DEF skip
<1>3. ASSUME NEW i \in 1..(n + m)
      PROVE  LinesOf(rs)[i] \in Seq(File)
  <2>1. LinesOf(rs)[i] =
          IF i <= m THEN HeaderFields(Len(struct)) ELSE FieldsOf(rs[i - m])
    BY <1>1, <1>2 DEF LinesOf
  <2>2. CASE i <= m
    <3>1. Len(struct) \in 0..Len(struct)
      BY StructParts
    <3> QED
      BY <2>1, <2>2, <3>1, HeaderTyped
  <2>3. CASE ~(i <= m)
    <3>1. i - m \in 1..n
      BY <2>3
    <3> QED
      BY <1>1, <2>1, <2>3, <3>1, RowFields DEF Whole
  <2> QED
    BY <2>2, <2>3
<1>4. PICK size \in Nat : size = n + m
  OBVIOUS
<1>5. LinesOf(rs) = [i \in 1..size |-> LinesOf(rs)[i]]
  BY <1>1, <1>2, <1>4 DEF LinesOf
<1>6. PICK ls : ls = LinesOf(rs)
  OBVIOUS
<1>7. ls \in [1..size -> Seq(File)]
  BY <1>3, <1>4, <1>5, <1>6
<1>8. ls \in Seq(Seq(File)) /\ Len(ls) = size
  BY <1>7
<1> QED
  BY <1>1, <1>2, <1>4, <1>6, <1>8

LEMMA MoreLines ==
  ASSUME struct \in Structs, NEW rs, rs \in Seq(Seq(Value)),
         \A i \in 1..Len(rs) : Whole(rs[i]), NEW r, Whole(r)
  PROVE  /\ \A i \in 1..Len(Append(rs, r)) : Whole(Append(rs, r)[i])
         /\ LinesOf(Append(rs, r)) = Append(LinesOf(rs), FieldsOf(r))
<1>1. PICK n \in Nat : n = Len(rs)
  OBVIOUS
<1>2. PICK m \in {0, 1} : m = skip
  BY DEF skip
<1>3. r \in Seq(Value) /\ FieldsOf(r) \in Seq(File)
  BY RowFields DEF Whole, RowTyped
<1>4. PICK more : more = Append(rs, r)
  OBVIOUS
<1>5. /\ more \in Seq(Seq(Value)) /\ Len(more) = n + 1 /\ more[n + 1] = r
      /\ \A k \in 1..n : more[k] = rs[k]
  BY <1>1, <1>3, <1>4
<1>6. \A i \in 1..Len(more) : Whole(more[i])
  <2>1. ASSUME NEW i \in 1..(n + 1) PROVE Whole(more[i])
    <3>1. i = n + 1 \/ i \in 1..n
      OBVIOUS
    <3> QED
      BY <1>1, <1>5, <3>1
  <2> QED
    BY <1>5, <2>1
<1>7. LinesOf(more) \in Seq(Seq(File)) /\ Len(LinesOf(more)) = n + 1 + m
  BY <1>2, <1>5, <1>6, LinesTyped
<1>8. PICK ls : ls = LinesOf(rs) /\ ls \in Seq(Seq(File)) /\ Len(ls) = n + m
  BY <1>1, <1>2, LinesTyped
<1>9. PICK fs \in Seq(File) : fs = FieldsOf(r)
  BY <1>3
<1>10. /\ Append(ls, fs) \in Seq(Seq(File)) /\ Len(Append(ls, fs)) = n + 1 + m
       /\ Append(ls, fs)[n + 1 + m] = fs
       /\ \A i \in 1..(n + m) : Append(ls, fs)[i] = ls[i]
  BY <1>8
<1>11. ASSUME NEW i \in 1..(n + 1 + m)
       PROVE  LinesOf(more)[i] = Append(ls, fs)[i]
  <2>1. LinesOf(more)[i] =
          IF i <= m THEN HeaderFields(Len(struct)) ELSE FieldsOf(more[i - m])
    BY <1>2, <1>5 DEF LinesOf
  <2>2. CASE i = n + 1 + m
    <3>1. ~(i <= m) /\ i - m = n + 1
      BY <2>2
    <3> QED
      BY <1>5, <1>9, <1>10, <2>1, <2>2, <3>1
  <2>3. CASE i # n + 1 + m
    <3>1. i \in 1..(n + m)
      BY <2>3
    <3>2. ls[i] = IF i <= m THEN HeaderFields(Len(struct)) ELSE FieldsOf(rs[i - m])
      BY <1>1, <1>2, <1>8, <3>1 DEF LinesOf
    <3>3. ~(i <= m) => more[i - m] = rs[i - m]
      BY <1>5, <3>1
    <3> QED
      BY <1>10, <2>1, <3>1, <3>2, <3>3
  <2> QED
    BY <2>2, <2>3
<1>12. LinesOf(more) = Append(ls, fs)
  BY <1>7, <1>10, <1>11, SeqEqual
<1> QED
  BY <1>4, <1>6, <1>8, <1>9, <1>12

\* The header is read as one line with the names.
LEMMA MoreHeader ==
  ASSUME struct \in Structs, NEW k \in Nat, k + 1 \in 1..Len(struct)
  PROVE  HeaderFields(k + 1) = Append(HeaderFields(k), <<struct[k + 1].name>>)
<1>1. k \in 0..Len(struct) /\ k + 1 \in 0..Len(struct)
  BY StructParts
<1>2. PICK h : h = HeaderFields(k) /\ h \in Seq(File) /\ Len(h) = k
  BY <1>1, HeaderTyped
<1>3. PICK g : g = HeaderFields(k + 1) /\ g \in Seq(File) /\ Len(g) = k + 1
  BY <1>1, HeaderTyped
<1>4. \A i \in 1..(k + 1) : g[i] = <<struct[i].name>>
  BY <1>3 DEF HeaderFields
<1>5. \A i \in 1..k : h[i] = <<struct[i].name>>
  BY <1>2 DEF HeaderFields
<1>6. PICK x \in File : x = <<struct[k + 1].name>>
  <2>1. struct[k + 1].name \in Characters
    BY StructParts, TextsAssumption
  <2>2. PICK c \in Characters : c = struct[k + 1].name
    BY <2>1
  <2>3. <<c>> \in File
    BY DEF File
  <2> QED
    BY <2>2, <2>3
<1>7. /\ Append(h, x) \in Seq(File) /\ Len(Append(h, x)) = k + 1
      /\ Append(h, x)[k + 1] = x /\ \A i \in 1..k : Append(h, x)[i] = h[i]
  BY <1>2
<1>8. ASSUME NEW i \in 1..(k + 1)
      PROVE  g[i] = Append(h, x)[i]
  <2>1. CASE i = k + 1
    BY <1>4, <1>6, <1>7, <2>1
  <2>2. CASE i # k + 1
    <3>1. i \in 1..k
      BY <2>2
    <3> QED
      BY <1>4, <1>5, <1>7, <3>1
  <2> QED
    BY <2>1, <2>2
<1> QED
  BY <1>2, <1>3, <1>6, <1>7, <1>8, SeqEqual

LEMMA HeaderRead ==
  ASSUME struct \in Structs, separator \in Separators
  PROVE  ReadAs(Header, <<HeaderFields(Len(struct))>>, <<>>, <<>>, "field")
<1>1. PICK n \in Nat : n = Len(struct) /\ n > 0
  BY StructParts
<1>2. \A i \in 1..n : struct[i].name \in Names /\ struct[i].name \in Characters
  BY <1>1, StructParts, TextsAssumption
<1> DEFINE Part(i) == IF i < n THEN <<struct[i].name, separator>> ELSE <<struct[i].name>>
           parts == [i \in 1..n |-> Part(i)]
<1>3. \A i \in 1..n : Part(i) \in File
  BY <1>2, Characteristic DEF File
<1>4. parts \in Seq(File) /\ Len(parts) = n /\ \A i \in 1..n : parts[i] = Part(i)
  BY <1>3
<1>5. Header = FlattenSeq(parts) \o <<Newline>>
  BY <1>1 DEF Header
<1> HIDE DEF parts
<1>6. PICK g : Grows(parts, g)
  BY <1>4, Flattened
<1>7. /\ g[0] = <<>> /\ \A i \in 0..n : g[i] \in File
      /\ \A i \in 1..n : g[i] = g[i - 1] \o parts[i]
      /\ Header = g[n] \o <<Newline>>
  BY <1>4, <1>5, <1>6 DEF Grows
<1> DEFINE T == {i \in 0..(n - 1) : ReadAs(g[i], <<>>, HeaderFields(i), <<>>, "field")}
<1>8. 0 \in T
  <2>1. HeaderFields(0) = <<>>
    BY DEF HeaderFields
  <2>2. ReadAs(<<>>, <<>>, <<>>, <<>>, "field")
    BY ReadEmpty DEF ReadAs, File, Start, At
  <2>3. ReadAs(g[0], <<>>, HeaderFields(0), <<>>, "field")
    BY <1>7, <2>1, <2>2
  <2>4. 0 \in 0..(n - 1)
    BY <1>1
  <2> QED
    BY <2>3, <2>4
<1>9. ASSUME NEW k \in 0..((n - 1) - 1), k \in T
      PROVE  k + 1 \in T
  <2>1. PICK i \in 1..(n - 1) : i = k + 1 /\ i - 1 = k
    BY <1>1
  <2>2. PICK c \in Names : c = struct[i].name /\ c \in Characters /\ i \in 1..n /\ i < n
    BY <1>1, <1>2, <2>1
  <2>3. PICK e \in File : e = g[k] /\ ReadAs(e, <<>>, HeaderFields(k), <<>>, "field")
    BY <1>7, <1>9
  <2>4. ReadAs(e \o <<c>>, <<>>, HeaderFields(k), <<c>>, "field")
    BY <2>2, <2>3, UnquotedRead
  <2>5. /\ separator \in Characters
        /\ ReadAs(Append(e \o <<c>>, separator), <<>>,
                  Append(HeaderFields(k), <<c>>), <<>>, "field")
    BY <2>4, Characteristic, ReadSeparator, OneMore
  <2>6. HeaderFields(i) = Append(HeaderFields(k), <<c>>)
    <3>1. k \in Nat /\ k + 1 \in 1..Len(struct)
      BY <1>1, <2>1
    <3> QED
      BY <2>1, <2>2, <3>1, MoreHeader
  <2>7. g[i] = Append(e \o <<c>>, separator)
    <3>1. g[i] = e \o <<c, separator>>
      <4>1. g[i] = g[i - 1] \o parts[i]
        BY <1>7, <2>2
      <4> QED
        BY <1>4, <2>1, <2>2, <2>3, <4>1
    <3> QED
      BY <2>2, <2>5, <3>1 DEF File
  <2>8. ReadAs(g[i], <<>>, HeaderFields(i), <<>>, "field")
    BY <2>5, <2>6, <2>7
  <2>9. i \in 0..(n - 1)
    OBVIOUS
  <2> QED
    BY <2>1, <2>8, <2>9
<1>10. PICK k \in 0..(n - 1) : k + 1 = n /\ k \in T
  <2>1. \A i \in 0..(n - 1) : i \in T
    <3>1. n - 1 \in Nat
      BY <1>1
    <3> HIDE DEF T
    <3> QED
      BY <1>8, <1>9, <3>1, UpTo
  <2>2. PICK k \in 0..(n - 1) : k + 1 = n
    BY <1>1
  <2> HIDE DEF T
  <2> QED
    BY <2>1, <2>2
<1>11. PICK c \in Names : c = struct[n].name /\ c \in Characters
  BY <1>1, <1>2
<1>12. PICK e \in File : e = g[k] /\ ReadAs(e, <<>>, HeaderFields(k), <<>>, "field")
  BY <1>7, <1>10
<1>13. ReadAs(e \o <<c>>, <<>>, HeaderFields(k), <<c>>, "field")
  BY <1>12, UnquotedRead
<1>14. HeaderFields(n) = Append(HeaderFields(k), <<c>>)
  <2>1. k \in Nat /\ k + 1 \in 1..Len(struct)
    BY <1>1, <1>10
  <2> QED
    BY <1>10, <1>11, <2>1, MoreHeader
<1>15. Newline \in Characters
  BY Characteristic
<1>16. PICK ls : ls = <<>>
  OBVIOUS
<1>17. ReadAs(Append(e \o <<c>>, Newline), Append(ls, HeaderFields(n)), <<>>, <<>>, "field")
  <2>1. ReadAs(Append(e \o <<c>>, Newline), Append(ls, Append(HeaderFields(k), <<c>>)),
               <<>>, <<>>, "field")
    <3>1. ReadChar(At(ls, HeaderFields(k), <<c>>, "field"), Newline) =
            At(Append(ls, Append(HeaderFields(k), <<c>>)), <<>>, <<>>, "field")
      BY ReadNewline
    <3>2. ReadAs(e \o <<c>>, ls, HeaderFields(k), <<c>>, "field")
      BY <1>13, <1>16
    <3> QED
      BY <1>15, <3>1, <3>2, OneMore
  <2> QED
    BY <1>14, <2>1
<1>18. Append(ls, HeaderFields(n)) = <<HeaderFields(n)>>
  BY <1>16
<1>19. Header = Append(e \o <<c>>, Newline)
  <2>1. g[n] = e \o <<c>>
    <3>1. n \in 1..n /\ n - 1 = k
      BY <1>1, <1>10
    <3>2. g[n] = g[n - 1] \o parts[n]
      BY <1>7, <3>1
    <3>3. parts[n] = <<c>>
      BY <1>4, <1>11, <3>1
    <3> QED
      BY <1>12, <3>1, <3>2, <3>3
  <2>2. e \o <<c>> \in File
    BY <1>13 DEF ReadAs
  <2> QED
    BY <1>7, <1>15, <2>1, <2>2, Reached
<1> QED
  BY <1>1, <1>17, <1>18, <1>19

-----------------------------------------------------------------------------
(* The file, as it grows. *)

\* The file ends in a separator; before it the reader was where a field may end.
EndsInField ==
  \E o, f, t : \E where \in {"field", "closed"} :
    /\ out = Append(o, separator)
    /\ ReadAs(o, LinesOf(rows), f, t, where)
    /\ Append(f, t) = FieldsOf(row)

RowsWhole == \A i \in 1..Len(rows) : Whole(rows[i])

\* What is read of the file so far is what was written to it, field by field, and
\* the reader stands where the next field begins.
FileInv ==
  /\ separator \in Separators /\ naked \in BOOLEAN
  /\ engine = "mysql" => naked = TRUE
  /\ phase \in {"create", "header"} => out = <<>> /\ rows = <<>> /\ row = <<>>
  /\ RowTyped(row)
  /\ RowsWhole
  /\ engine # "odbc" /\ phase \in {"rows", "done"} =>
       /\ ReadAs(out, LinesOf(rows), FieldsOf(row), <<>>, "field")
       /\ row # <<>> => EndsInField
  /\ phase = "done" => row = <<>>

LEMMA FileInit == Init => FileInv
<1> SUFFICES ASSUME Init PROVE FileInv
  OBVIOUS
<1>1. RowTyped(row)
  <2>1. Len(struct) \in Nat /\ row = <<>>
    BY StructParts DEF Init
  <2> QED
    BY <2>1 DEF RowTyped
<1>2. RowsWhole
  BY DEF Init, RowsWhole
<1>3. /\ separator \in Separators /\ naked \in BOOLEAN
      /\ engine = "mysql" => naked = TRUE
      /\ phase \in {"create", "header"}
      /\ out = <<>> /\ rows = <<>> /\ row = <<>>
  BY SeparatorsAssumption DEF Init
<1> QED
  BY <1>1, <1>2, <1>3 DEF FileInv

\* The options and the row type stay as they are, and what is read with them.
LEMMA SameReader ==
  ASSUME UNCHANGED options
  PROVE  /\ \A text : Read(text)' = Read(text)
         /\ \A r : FieldsOf(r)' = FieldsOf(r) /\ (RowTyped(r)' <=> RowTyped(r))
                   /\ (Whole(r)' <=> Whole(r))
         /\ \A rs : LinesOf(rs)' = LinesOf(rs)
         /\ \A o, l, f, t, where :
              ReadAs(o, l, f, t, where)' <=> ReadAs(o, l, f, t, where)
<1>1. separator' = separator /\ struct' = struct /\ naked' = naked
  BY DEF options
<1>2. \A text : Read(text)' = Read(text)
  BY <1>1 DEF Read, ReadChar, EndField, EndLine, Put, Start
<1>3. \A r : FieldsOf(r)' = FieldsOf(r) /\ (RowTyped(r)' <=> RowTyped(r))
             /\ (Whole(r)' <=> Whole(r))
  BY <1>1 DEF FieldsOf, FieldText, RowTyped, Whole, Values
<1>4. \A rs : LinesOf(rs)' = LinesOf(rs)
  BY <1>1 DEF LinesOf, FieldsOf, FieldText, skip, HeaderFields
<1>5. \A o, l, f, t, where : ReadAs(o, l, f, t, where)' <=> ReadAs(o, l, f, t, where)
  BY <1>2 DEF ReadAs, At
<1> QED
  BY <1>2, <1>3, <1>4, <1>5

LEMMA NoLines ==
  ASSUME naked = TRUE
  PROVE  LinesOf(<<>>) = <<>> /\ FieldsOf(<<>>) = <<>>
BY DEF LinesOf, FieldsOf, skip

LEMMA HeaderLine ==
  ASSUME struct \in Structs, naked = FALSE
  PROVE  LinesOf(<<>>) = <<HeaderFields(Len(struct))>> /\ FieldsOf(<<>>) = <<>>
<1>1. skip = 1
  BY DEF skip
<1>2. PICK h : h = HeaderFields(Len(struct))
  OBVIOUS
<1>3. LinesOf(<<>>) = [i \in 1..1 |-> h]
  BY <1>1, <1>2 DEF LinesOf
<1>4. [i \in 1..1 |-> h] = <<h>>
  OBVIOUS
<1> QED
  BY <1>2, <1>3, <1>4 DEF FieldsOf

LEMMA EmptyRead == ReadAs(<<>>, <<>>, <<>>, <<>>, "field")
BY ReadEmpty DEF ReadAs, File, Start, At

LEMMA FileStep ==
  ASSUME WalkOK, WrittenOK, FileInv, [Next]_vars
  PROVE  FileInv'
<1>1. UNCHANGED options /\ struct \in Structs
  BY DEF Next, vars, options, NumberColumn, TextColumn, EnumColumn, AddressColumn,
         BoolColumn, EndCreate, AppendHeader, WriteField, EndRow, EndTable, WalkOK
<1>2. /\ separator' = separator /\ naked' = naked /\ engine' = engine /\ struct' = struct
  BY <1>1 DEF options
<1>3. CASE WriteField
  <2>1. PICK v \in Values(struct[Len(row) + 1].type) :
          /\ out' = out \o Field(struct[Len(row) + 1].type, v) \o <<separator>>
          /\ row' = Append(row, v)
    BY <1>3 DEF WriteField
  <2>2. /\ phase = "rows" /\ phase' = phase /\ rows' = rows /\ Len(row) < Len(struct)
    BY <1>3 DEF WriteField
  <2>3. PICK type \in Types : type = struct[Len(row) + 1].type
    <3>1. Len(row) + 1 \in 1..Len(struct)
      BY <2>2, StructParts DEF WalkOK, WrittenOK
    <3> QED
      BY <3>1, StructParts DEF WalkOK
  <2>4. /\ RowTyped(row')
        /\ FieldsOf(row') = Append(FieldsOf(row), FieldText(type, v))
    BY <1>1, <2>1, <2>2, <2>3, MoreFields DEF FileInv
  <2>5. ASSUME engine # "odbc"
        PROVE  /\ ReadAs(out', LinesOf(rows), FieldsOf(row'), <<>>, "field")
               /\ \E o, f, t : \E where \in {"field", "closed"} :
                    /\ out' = Append(o, separator)
                    /\ ReadAs(o, LinesOf(rows), f, t, where)
                    /\ Append(f, t) = FieldsOf(row')
    <3>1. PICK l, f : l = LinesOf(rows) /\ f = FieldsOf(row)
      OBVIOUS
    <3>2. ReadAs(out, l, f, <<>>, "field")
      BY <2>2, <2>5, <3>1 DEF FileInv
    <3>3. FieldIsRead(out, l, f, type, v)
      BY <2>1, <2>3, <2>5, <3>2, FieldRead DEF FileInv
    <3>4. PICK where \in {"field", "closed"} :
            ReadAs(out \o Field(type, v), l, f, FieldText(type, v), where)
      BY <3>3 DEF FieldIsRead
    <3>5. PICK o : o = out \o Field(type, v)
      OBVIOUS
    <3>6. separator \in Characters
      BY Characteristic DEF FileInv
    <3>7. out' = Append(o, separator)
      <4>1. o \in File
        BY <3>4, <3>5 DEF ReadAs
      <4> QED
        BY <2>1, <2>3, <3>5, <3>6, <4>1, Reached
    <3>8. ReadAs(Append(o, separator), l, Append(f, FieldText(type, v)), <<>>, "field")
      <4>1. ReadChar(At(l, f, FieldText(type, v), where), separator) =
              At(l, Append(f, FieldText(type, v)), <<>>, "field")
        BY ReadSeparator DEF FileInv
      <4> QED
        BY <3>4, <3>5, <3>6, <4>1, OneMore
    <3>9. ReadAs(out', LinesOf(rows), FieldsOf(row'), <<>>, "field")
      BY <2>4, <3>1, <3>7, <3>8
    <3> QED
      BY <2>4, <3>1, <3>4, <3>5, <3>7, <3>9
  <2>6. RowTyped(row)' /\ FieldsOf(row)' = FieldsOf(row')
    BY <1>1, <2>4, SameReader
  <2>7. LinesOf(rows)' = LinesOf(rows)
    BY <1>1, <2>2, SameReader
  <2>8. engine # "odbc" =>
          ReadAs(out, LinesOf(rows), FieldsOf(row), <<>>, "field")' /\ EndsInField'
    <3> SUFFICES ASSUME engine # "odbc"
                 PROVE  /\ ReadAs(out, LinesOf(rows), FieldsOf(row), <<>>, "field")'
                        /\ EndsInField'
      OBVIOUS
    <3>1. ReadAs(out, LinesOf(rows), FieldsOf(row), <<>>, "field")'
      BY <1>1, <2>5, <2>6, <2>7, SameReader
    <3>2. PICK o, f, t : \E where \in {"field", "closed"} :
            /\ out' = Append(o, separator)
            /\ ReadAs(o, LinesOf(rows), f, t, where)
            /\ Append(f, t) = FieldsOf(row')
      BY <2>5
    <3>3. PICK where \in {"field", "closed"} :
            /\ out' = Append(o, separator)
            /\ ReadAs(o, LinesOf(rows), f, t, where)
            /\ Append(f, t) = FieldsOf(row')
      BY <3>2
    <3>4. ReadAs(o, LinesOf(rows), f, t, where)'
      BY <1>1, <2>7, <3>3, SameReader
    <3> QED
      BY <1>2, <2>6, <3>1, <3>3, <3>4 DEF EndsInField
  <2>9. RowsWhole'
    BY <1>1, <2>2, SameReader DEF FileInv, RowsWhole
  <2> QED
    BY <1>2, <2>2, <2>6, <2>8, <2>9 DEF FileInv
<1>4. CASE EndRow
  <2>1. /\ phase = "rows" /\ phase' = phase /\ Len(row) = Len(struct)
        /\ out' = Append(Front(out), Newline)
        /\ rows' = Append(rows, row) /\ row' = <<>>
    BY <1>4 DEF EndRow
  <2>2. row # <<>> /\ Whole(row)
    <3>1. Len(struct) > 0
      BY <1>1, StructParts
    <3> QED
      BY <2>1, <3>1 DEF Whole, FileInv
  <2>3. /\ \A i \in 1..Len(rows') : Whole(rows'[i])
        /\ LinesOf(rows') = Append(LinesOf(rows), FieldsOf(row))
    BY <1>1, <2>1, <2>2, MoreLines DEF FileInv, RowsWhole, WrittenOK
  <2>4. RowTyped(<<>>) /\ FieldsOf(<<>>) = <<>>
    <3>1. Len(struct) \in Nat
      BY <1>1, StructParts
    <3> QED
      BY <3>1 DEF RowTyped, FieldsOf
  <2>5. engine # "odbc" => ReadAs(out', LinesOf(rows'), <<>>, <<>>, "field")
    <3> SUFFICES ASSUME engine # "odbc"
                 PROVE  ReadAs(out', LinesOf(rows'), <<>>, <<>>, "field")
      OBVIOUS
    <3>1. EndsInField
      BY <2>1, <2>2 DEF FileInv
    <3>2. PICK o, f, t : \E where \in {"field", "closed"} :
            /\ out = Append(o, separator)
            /\ ReadAs(o, LinesOf(rows), f, t, where)
            /\ Append(f, t) = FieldsOf(row)
      BY <3>1 DEF EndsInField
    <3>3. PICK where \in {"field", "closed"} :
            /\ out = Append(o, separator)
            /\ ReadAs(o, LinesOf(rows), f, t, where)
            /\ Append(f, t) = FieldsOf(row)
      BY <3>2
    <3>4. o \in File /\ separator \in Characters /\ Newline \in Characters
      BY <3>3, Characteristic DEF ReadAs, FileInv
    <3>5. Front(out) = o
      <4>1. \A s \in Seq(Characters), c \in Characters :
              /\ Append(s, c) \in Seq(Characters) /\ Len(Append(s, c)) = Len(s) + 1
              /\ Front(Append(s, c)) = SubSeq(Append(s, c), 1, Len(s))
        BY DEF Front
      <4>2. \A s \in Seq(Characters), c \in Characters :
              SubSeq(Append(s, c), 1, Len(s)) = s
        OBVIOUS
      <4> QED
        BY <3>3, <3>4, <4>1, <4>2 DEF File
    <3>6. ReadAs(Append(o, Newline), Append(LinesOf(rows), Append(f, t)), <<>>, <<>>, "field")
      <4>1. ReadChar(At(LinesOf(rows), f, t, where), Newline) =
              At(Append(LinesOf(rows), Append(f, t)), <<>>, <<>>, "field")
        BY ReadNewline DEF FileInv
      <4> QED
        BY <3>3, <3>4, <4>1, OneMore
    <3> QED
      BY <2>1, <2>3, <3>3, <3>5, <3>6
  <2>6. /\ RowTyped(row)' /\ FieldsOf(row)' = <<>> /\ LinesOf(rows)' = LinesOf(rows')
        /\ RowsWhole'
    BY <1>1, <2>1, <2>3, <2>4, SameReader DEF RowsWhole
  <2>7. engine # "odbc" => ReadAs(out, LinesOf(rows), FieldsOf(row), <<>>, "field")'
    BY <1>1, <2>5, <2>6, SameReader
  <2> QED
    BY <1>2, <2>1, <2>6, <2>7 DEF FileInv
<1>5. CASE EndCreate \/ AppendHeader
  <2>1. /\ rows = <<>> /\ row = <<>> /\ rows' = <<>> /\ row' = <<>> /\ phase' = "rows"
        /\ out = <<>>
    BY <1>5 DEF EndCreate, AppendHeader, FileInv
  <2>2. engine # "odbc" => ReadAs(out', LinesOf(<<>>), FieldsOf(<<>>), <<>>, "field")
    <3>1. CASE naked = TRUE
      <4>1. out' = <<>>
        BY <1>5, <2>1, <3>1 DEF EndCreate, AppendHeader
      <4> QED
        BY <3>1, <4>1, NoLines, EmptyRead
    <3>2. CASE naked = FALSE /\ engine # "odbc"
      <4>1. AppendHeader
        BY <1>5, <3>2 DEF EndCreate, WalkOK, FileInv
      <4>2. out' = Header
        BY <3>2, <4>1 DEF AppendHeader
      <4> QED
        BY <1>1, <3>2, <4>2, HeaderLine, HeaderRead DEF FileInv
    <3> QED
      BY <3>1, <3>2 DEF FileInv
  <2>3. RowTyped(row)' /\ FieldsOf(row)' = FieldsOf(<<>>) /\ LinesOf(rows)' = LinesOf(<<>>)
    BY <1>1, <2>1, SameReader DEF FileInv
  <2>4. engine # "odbc" => ReadAs(out, LinesOf(rows), FieldsOf(row), <<>>, "field")'
    BY <1>1, <2>2, <2>3, SameReader
  <2>5. RowsWhole'
    BY <1>1, <2>1, SameReader DEF FileInv, RowsWhole
  <2> QED
    BY <1>2, <2>1, <2>3, <2>4, <2>5 DEF FileInv
<1>6. CASE ColumnSteps \/ EndTable \/ UNCHANGED vars
  <2>1. /\ out' = out /\ rows' = rows /\ row' = row
        /\ phase' = phase \/ (phase = "rows" /\ phase' = "done" /\ row = <<>>)
    BY <1>6 DEF ColumnSteps, NumberColumn, TextColumn, EnumColumn, AddressColumn,
                BoolColumn, EndTable, vars
  <2>2. /\ RowTyped(row)' <=> RowTyped(row)
        /\ FieldsOf(row)' = FieldsOf(row) /\ LinesOf(rows)' = LinesOf(rows)
        /\ RowsWhole' <=> RowsWhole
    BY <1>1, <2>1, SameReader DEF RowsWhole
  <2>3. ReadAs(out, LinesOf(rows), FieldsOf(row), <<>>, "field")' <=>
          ReadAs(out, LinesOf(rows), FieldsOf(row), <<>>, "field")
    BY <1>1, <2>1, <2>2, SameReader
  <2>4. EndsInField => EndsInField'
    <3>1. \A o, f, t, where :
            ReadAs(o, LinesOf(rows), f, t, where)' <=> ReadAs(o, LinesOf(rows), f, t, where)
      BY <1>1, <2>2, SameReader
    <3> QED
      BY <1>2, <2>1, <2>2, <3>1 DEF EndsInField
  <2> QED
    BY <1>2, <2>1, <2>2, <2>3, <2>4 DEF FileInv
<1> QED
  BY <1>3, <1>4, <1>5, <1>6 DEF Next, ColumnSteps

-----------------------------------------------------------------------------
(* csv. *)

\* What LinesRead is when the table is done.
LEMMA AllRead ==
  ASSUME WalkOK, WrittenOK, FileInv, phase = "done", engine # "odbc"
  PROVE  /\ LinesRead = LinesOf(rows)
         /\ Len(LinesRead) = Len(rows) + skip
         /\ \A i \in 1..Len(rows) :
              /\ Len(rows[i]) = Len(struct)
              /\ LinesRead[i + skip] = FieldsOf(rows[i])
<1>1. Read(out) = At(LinesOf(rows), FieldsOf(row), <<>>, "field")
  BY DEF FileInv, ReadAs
<1>2. LinesRead = LinesOf(rows)
  BY <1>1 DEF LinesRead, At
<1>3. PICK n \in Nat : n = Len(rows)
  BY DEF WrittenOK
<1>4. PICK m \in {0, 1} : m = skip
  BY DEF skip
<1>5. Len(LinesOf(rows)) = n + m
  BY <1>3, <1>4, LinesTyped DEF WalkOK, WrittenOK, FileInv, RowsWhole
<1>6. ASSUME NEW i \in 1..n
      PROVE  LinesOf(rows)[i + m] = FieldsOf(rows[i])
  <2>1. i + m \in 1..(n + m) /\ ~(i + m <= m) /\ (i + m) - m = i
    OBVIOUS
  <2>2. LinesOf(rows)[i + m] = FieldsOf(rows[(i + m) - m])
    BY <1>3, <1>4, <2>1 DEF LinesOf
  <2> QED
    BY <2>1, <2>2
<1> QED
  BY <1>2, <1>3, <1>4, <1>5, <1>6 DEF FileInv, RowsWhole, Whole

LEMMA ReadsBackCsv ==
  ASSUME WalkOK, WrittenOK, FileInv
  PROVE  CsvReadsBack
<1> SUFFICES ASSUME engine = "csv", phase = "done"
             PROVE  /\ Len(LinesRead) = Len(rows) + skip
                    /\ \A i \in 1..Len(LinesRead) : Len(LinesRead[i]) = Len(struct)
                    /\ ~naked => \A k \in 1..Len(struct) :
                                   LinesRead[1][k] = <<struct[k].name>>
                    /\ \A i \in 1..Len(rows), k \in 1..Len(struct) :
                         LinesRead[i + skip][k] = FieldText(struct[k].type, rows[i][k])
  BY DEF CsvReadsBack, skip
<1>1. PICK n \in Nat : n = Len(rows)
  BY DEF WrittenOK
<1>2. PICK m \in {0, 1} : m = skip
  BY DEF skip
<1>3. /\ LinesRead = LinesOf(rows) /\ Len(LinesRead) = n + m
      /\ \A i \in 1..n : Len(rows[i]) = Len(struct) /\ LinesRead[i + m] = FieldsOf(rows[i])
  BY <1>1, <1>2, AllRead
<1>4. ASSUME NEW i \in 1..(n + m)
      PROVE  Len(LinesRead[i]) = Len(struct)
  <2>1. CASE i <= m
    <3>1. LinesOf(rows)[i] = HeaderFields(Len(struct))
      BY <1>1, <1>2, <2>1 DEF LinesOf
    <3>2. Len(struct) \in 0..Len(struct)
      BY StructParts DEF WalkOK
    <3> QED
      BY <1>3, <3>1, <3>2, HeaderTyped DEF WalkOK
  <2>2. CASE ~(i <= m)
    <3>1. PICK j \in 1..n : i = j + m
      BY <2>2
    <3>2. RowTyped(rows[j]) /\ Len(rows[j]) = Len(struct)
      BY <1>1, <3>1 DEF FileInv, RowsWhole, Whole
    <3>3. LinesRead[i] = FieldsOf(rows[j])
      BY <1>3, <3>1
    <3> QED
      BY <3>2, <3>3, RowFields DEF WalkOK
  <2> QED
    BY <2>1, <2>2
<1>5. ASSUME NEW i \in 1..n, NEW k \in 1..Len(struct)
      PROVE  LinesRead[i + m][k] = FieldText(struct[k].type, rows[i][k])
  BY <1>3 DEF FieldsOf
<1>6. ASSUME ~naked, NEW k \in 1..Len(struct)
      PROVE  LinesRead[1][k] = <<struct[k].name>>
  <2>1. skip = 1 /\ 1 \in 1..(Len(rows) + skip) /\ 1 <= skip
    BY <1>1, <1>6 DEF skip
  <2>2. LinesRead[1] = HeaderFields(Len(struct))
    BY <1>3, <2>1 DEF LinesOf
  <2> QED
    BY <2>2 DEF HeaderFields
<1> QED
  BY <1>1, <1>2, <1>3, <1>4, <1>5, <1>6

\* For every row type, separator and text, a reader that knows backslash escapes
\* finds the members' names in csv's file, if they were asked for, and then the
\* text of every member of every row.
THEOREM CsvIsReadBack == Spec => []CsvReadsBack
<1>1. Init => WalkOK /\ WrittenOK /\ FileInv
  BY WalkInit, WrittenInit, FileInit
<1>2. WalkOK /\ WrittenOK /\ FileInv /\ [Next]_vars => WalkOK' /\ WrittenOK' /\ FileInv'
  BY WalkStep, WrittenStep, FileStep
<1>3. WalkOK /\ WrittenOK /\ FileInv => CsvReadsBack
  BY ReadsBackCsv
<1> QED
  BY <1>1, <1>2, <1>3, PTL DEF Spec

-----------------------------------------------------------------------------
(* LOAD. *)

\* The kind of column that mysql has for each type of member.
SqlOf(type) ==
  CASE type \in {"number", "address"} -> "INT"
    [] type = "bool" -> "BIT"
    [] type = "enum" -> "ENUM"
    [] type = "text" -> "VARCHAR"

ColumnsFit ==
  engine = "mysql" => \A k \in 1..Len(Result) : Result[k].sql = SqlOf(struct[k].type)

LEMMA FitInit == Init => ColumnsFit
BY DEF Init, ColumnsFit

LEMMA FitStep ==
  ASSUME WalkOK, ColumnsFit, [Next]_vars
  PROVE  ColumnsFit'
<1>1. CASE ColumnSteps /\ engine = "mysql"
  <2>1. PICK n \in Nat : n = Len(Result)
    BY DEF WalkOK
  <2>2. AddColumn
    BY <1>1, ColumnStep
  <2>3. /\ n + 1 \in 1..Len(struct) /\ member = struct[n + 1]
        /\ ColumnName(member) \in ColumnNames
        /\ engine' = engine /\ struct' = struct
    BY <2>1, <2>2, NextMember DEF AddColumn, member, options
  <2>4. Result' = Append(Result, [name |-> ColumnName(member), sql |-> SqlOf(member.type)])
    BY <1>1 DEF ColumnSteps, NumberColumn, TextColumn, EnumColumn, AddressColumn, BoolColumn,
                column_desc, UseBitType, ColumnName, SqlOf
  <2>5. PICK c \in [name : ColumnNames, sql : Sql] :
          Result' = Append(Result, c) /\ c.sql = SqlOf(member.type)
    <3>1. SqlOf(member.type) \in Sql
      BY <2>3, StructParts DEF SqlOf, Sql, Types, WalkOK
    <3> QED
      BY <2>3, <2>4, <3>1
  <2>6. /\ Len(Result') = n + 1 /\ Result'[n + 1] = c
        /\ \A k \in 1..n : Result'[k] = Result[k]
    BY <2>1, <2>5, Appended DEF WalkOK
  <2>7. \A k \in 1..(n + 1) : Result'[k].sql = SqlOf(struct[k].type)
    <3>1. \A k \in 1..n : Result'[k].sql = SqlOf(struct[k].type)
      BY <1>1, <2>1, <2>6 DEF ColumnsFit
    <3>2. \A k \in 1..(n + 1) : k = n + 1 \/ k \in 1..n
      OBVIOUS
    <3> QED
      BY <2>3, <2>5, <2>6, <3>1, <3>2
  <2> QED
    BY <2>3, <2>6, <2>7 DEF ColumnsFit, SqlOf
<1>2. CASE ColumnSteps /\ engine # "mysql"
  <2>1. engine' = engine
    BY <1>2, ColumnStep DEF AddColumn, options
  <2> QED
    BY <1>2, <2>1 DEF ColumnsFit
<1>3. CASE ~ColumnSteps
  BY <1>3, OtherStep DEF ColumnsFit, SqlOf, options, schema
<1> QED
  BY <1>1, <1>2, <1>3

\* What a column is given of the field at its own position is the member.
LEMMA ColumnLoaded ==
  ASSUME NEW type \in Types, NEW v \in Values(type)
  PROVE  /\ type = "bool" => Cast(FieldText(type, v)) = v
         /\ type # "bool" => Converted(SqlOf(type), FieldText(type, v)) = Stored(type, v)
<1>1. CASE type \in {"number", "address"}
  <2>1. v \in {"0", "7"} /\ FieldText(type, v) = <<v>> /\ SqlOf(type) = "INT"
    BY <1>1, SwitchOnType DEF SqlOf
  <2>2. <<v>> # <<>> /\ <<v>>[1] = v
    OBVIOUS
  <2>3. Converted("INT", <<v>>) = v
    BY <2>2 DEF Converted
  <2>4. Stored(type, v) = v
    BY <1>1 DEF Stored
  <2> QED
    BY <1>1, <2>1, <2>3, <2>4
<1>2. CASE type = "bool"
  <2>1. v \in BOOLEAN /\ FieldText(type, v) = <<Digits(v)>>
    BY <1>2, SwitchOnType
  <2>2. <<"0">> # <<"1">>
    <3>1. <<"0">>[1] = "0" /\ <<"1">>[1] = "1"
      OBVIOUS
    <3> QED
      BY <3>1
  <2>3. CASE v = TRUE
    BY <1>2, <2>1, <2>3 DEF Cast, Digits
  <2>4. CASE v = FALSE
    BY <1>2, <2>1, <2>2, <2>4 DEF Cast, Digits
  <2> QED
    BY <1>2, <2>1, <2>3, <2>4
<1>3. CASE type = "enum"
  <2>1. /\ v \in {"listed", "unlisted"} /\ SqlOf(type) = "ENUM"
        /\ FieldText(type, v) = IF v = "listed" THEN <<v>> ELSE <<>>
    BY <1>3, SwitchOnType DEF SqlOf
  <2>2. <<"listed">> # <<>>
    OBVIOUS
  <2>3. Converted("ENUM", FieldText(type, v)) = v
    BY <2>1, <2>2 DEF Converted
  <2> QED
    BY <1>3, <2>1, <2>3 DEF Stored
<1>4. CASE type = "text"
  <2>1. FieldText(type, v) = v /\ SqlOf(type) = "VARCHAR"
    BY <1>4, SwitchOnType DEF SqlOf
  <2> QED
    BY <1>4, <2>1 DEF Stored
<1> QED
  BY <1>1, <1>2, <1>3, <1>4 DEF Types

\* The field that LOAD takes for the k-th column, or for the variable that SET
\* takes for it, is the k-th.
LEMMA OwnTarget ==
  ASSUME WalkOK, Aligned, ColumnsFit, engine = "mysql", phase = "done",
         NEW k \in 1..Len(struct)
  PROVE  /\ Len(LoadClause) = Len(struct) /\ Len(Result) = Len(struct)
         /\ Result[k].sql = SqlOf(struct[k].type)
         /\ struct[k].type = "bool" =>
              Assigned(Result[k].name) /\ Variable(Result[k].name) = {k}
         /\ struct[k].type # "bool" =>
              ~Assigned(Result[k].name) /\ Targets(Result[k].name) = {k}
<1>1. PICK n \in Nat : n = Len(struct) /\ struct \in Structs
  BY StructParts DEF WalkOK
<1>2. Len(Result) = n /\ Len(LoadClause) = n
  BY <1>1 DEF WalkOK, Aligned, ColumnsAligned
<1>3. \A i \in 1..n :
        /\ Result[i].name = ColumnName(struct[i]) /\ LoadClause[i].name = Result[i].name
        /\ Result[i].sql = SqlOf(struct[i].type) /\ LoadClause[i].tmp \in BOOLEAN
        /\ LoadClause[i].tmp <=> Result[i].sql = "BIT"
        /\ LoadClause[i].tmp <=> Assigned(Result[i].name)
  <2>1. \A i \in 1..n : Result[i].sql = SqlOf(struct[i].type)
    BY <1>2 DEF ColumnsFit
  <2>2. \A i \in 1..n : LoadClause[i].tmp \in BOOLEAN
    <3>1. \A i \in 1..n : LoadClause[i] \in [tmp : BOOLEAN, name : ColumnNames]
      <4>1. PICK Tgt : Tgt = [tmp : BOOLEAN, name : ColumnNames]
        OBVIOUS
      <4>2. LoadClause \in Seq(Tgt)
        BY <4>1 DEF WalkOK
      <4>3. \A i \in 1..n : LoadClause[i] \in Tgt
        BY <1>2, <4>2
      <4> QED
        BY <4>1, <4>3
    <3> QED
      BY <3>1, Zenon
  <2> QED
    BY <1>2, <2>1, <2>2 DEF Aligned, ColumnsAligned
<1>4. SqlOf(struct[k].type) = "BIT" <=> struct[k].type = "bool"
  BY <1>1, StructParts DEF SqlOf, Types
<1>5. ASSUME NEW i \in 1..n, LoadClause[i].name = Result[k].name
      PROVE  i = k
  BY <1>1, <1>3, <1>5, NamesApart
<1>6. CASE struct[k].type = "bool"
  BY <1>1, <1>2, <1>3, <1>4, <1>5, <1>6 DEF Variable
<1>7. CASE struct[k].type # "bool"
  BY <1>1, <1>2, <1>3, <1>4, <1>5, <1>7 DEF Targets
<1> QED
  BY <1>1, <1>2, <1>3, <1>6, <1>7

LEMMA ReadsBackMySQL ==
  ASSUME WalkOK, WrittenOK, FileInv, Aligned, ColumnsFit
  PROVE  LoadsBack
<1> SUFFICES ASSUME engine = "mysql", phase = "done"
             PROVE  /\ Len(LinesRead) = Len(rows)
                    /\ \A i \in 1..Len(rows) :
                         /\ Len(LinesRead[i]) = Len(LoadClause)
                         /\ Loaded(LinesRead[i]) =
                              [k \in 1..Len(struct) |-> Stored(struct[k].type, rows[i][k])]
  BY DEF LoadsBack
<1>1. PICK n \in Nat : n = Len(struct) /\ struct \in Structs
  BY StructParts DEF WalkOK
<1>2. skip = 0 /\ Len(rows) \in Nat
  BY DEF skip, FileInv, WrittenOK
<1>3. /\ Len(LinesRead) = Len(rows)
      /\ \A i \in 1..Len(rows) :
           Len(rows[i]) = n /\ LinesRead[i] = FieldsOf(rows[i])
  BY <1>1, <1>2, AllRead
<1>4. Len(LoadClause) = n /\ Len(Result) = n
  BY <1>1 DEF WalkOK, Aligned, ColumnsAligned
<1>5. ASSUME NEW i \in 1..Len(rows)
      PROVE  /\ Len(LinesRead[i]) = n
             /\ Loaded(LinesRead[i]) = [k \in 1..n |-> Stored(struct[k].type, rows[i][k])]
  <2>1. RowTyped(rows[i])
    BY DEF FileInv, RowsWhole, Whole
  <2>2. PICK line : line = FieldsOf(rows[i])
    OBVIOUS
  <2>3. \A k \in 1..n : line[k] = FieldText(struct[k].type, rows[i][k])
    BY <1>3, <2>2 DEF FieldsOf
  <2>4. Len(line) = n
    BY <1>1, <1>3, <2>1, <2>2, RowFields
  <2>5. ASSUME NEW k \in 1..n
        PROVE  Loaded(line)[k] = Stored(struct[k].type, rows[i][k])
    <3>1. struct[k].type \in Types /\ rows[i][k] \in Values(struct[k].type)
      BY <1>1, <1>3, <2>1, StructParts DEF RowTyped
    <3>2. PICK type, v :
            /\ type = struct[k].type /\ v = rows[i][k] /\ line[k] = FieldText(type, v)
            /\ type \in Types /\ v \in Values(type)
      BY <2>3, <3>1
    <3>3. Loaded(line)[k] =
            IF Assigned(Result[k].name) /\ Variable(Result[k].name) # {}
            THEN Cast(line[CHOOSE j \in Variable(Result[k].name) : TRUE])
            ELSE IF Targets(Result[k].name) # {}
                 THEN Converted(Result[k].sql, line[CHOOSE j \in Targets(Result[k].name) : TRUE])
                 ELSE "default"
      BY <1>4 DEF Loaded
    <3>4. (CHOOSE j \in {k} : TRUE) = k /\ {k} # {}
      OBVIOUS
    <3>5. CASE type = "bool"
      <4>1. Assigned(Result[k].name) /\ Variable(Result[k].name) = {k}
        BY <1>1, <3>2, <3>5, OwnTarget
      <4>2. Loaded(line)[k] = Cast(line[k])
        BY <3>3, <3>4, <4>1
      <4>3. Stored(type, v) = v
        BY <3>5 DEF Stored
      <4> QED
        BY <3>2, <3>5, <4>2, <4>3, ColumnLoaded
    <3>6. CASE type # "bool"
      <4>1. /\ ~Assigned(Result[k].name) /\ Targets(Result[k].name) = {k}
            /\ Result[k].sql = SqlOf(type)
        BY <1>1, <3>2, <3>6, OwnTarget
      <4>2. Loaded(line)[k] = Converted(SqlOf(type), line[k])
        BY <3>3, <3>4, <4>1
      <4> QED
        BY <3>2, <3>6, <4>2, ColumnLoaded
    <3> QED
      BY <3>5, <3>6
  <2>6. Loaded(line) = [k \in 1..n |-> Loaded(line)[k]]
    BY <1>4 DEF Loaded
  <2>7. Loaded(line) = [k \in 1..n |-> Stored(struct[k].type, rows[i][k])]
    BY <2>5, <2>6
  <2> QED
    BY <1>3, <2>2, <2>4, <2>7
<1> QED
  BY <1>1, <1>3, <1>4, <1>5

\* For every row type and whatever characters texts hold: the rows that LOAD
\* makes of the file are those that were written to it.
THEOREM LoadReadsBack == Spec => []LoadsBack
<1>1. Init => WalkOK /\ WrittenOK /\ FileInv /\ Aligned /\ ColumnsFit
  BY WalkInit, WrittenInit, FileInit, AlignedInit, FitInit
<1>2. WalkOK /\ WrittenOK /\ FileInv /\ Aligned /\ ColumnsFit /\ [Next]_vars
        => WalkOK' /\ WrittenOK' /\ FileInv' /\ Aligned' /\ ColumnsFit'
  BY WalkStep, WrittenStep, FileStep, AlignedStep, FitStep
<1>3. WalkOK /\ WrittenOK /\ FileInv /\ Aligned /\ ColumnsFit => LoadsBack
  BY ReadsBackMySQL
<1> QED
  BY <1>1, <1>2, <1>3, PTL DEF Spec
=============================================================================
