------------------------- MODULE SymbolReaderProofs -------------------------
(***************************************************************************)
(* Theorems about SymbolReader, for every PDB, batch size and failure.     *)
(***************************************************************************)
EXTENDS SymbolReader, TLAPS

-----------------------------------------------------------------------------
(* Facts about the constants. *)

\* What PdbsAssumption says of the parts of a PDB.
LEMMA PdbParts ==
  ASSUME NEW p \in Pdbs
  PROVE  /\ p.headers \in Seq({"full", "short"})
         /\ p.order   \in Seq(TableNames \cup {"other"})
         /\ p.symbols \in Seq(SymbolItem)
         /\ p.lines   \in Seq(Lines)
         /\ p.files   \in Seq(FileItem)
         /\ p.plain   \in [EmplaceTables -> Seq(Nat)]
         /\ DistinctIds(p)
         /\ DistinctTables(p)
  BY PdbsAssumption DEF PdbType

\* The elements of each table: what ItemsOf selects, and that it is finite.
LEMMA ItemsOfParts ==
  ASSUME NEW p \in Pdbs
  PROVE  /\ ItemsOf(p, "Symbols") = p.symbols
         /\ ItemsOf(p, "LineNumbers") = p.lines
         /\ ItemsOf(p, "SourceFiles") = p.files
         /\ \A n \in EmplaceTables : ItemsOf(p, n) = p.plain[n]
         /\ \A n \in TableNames : Len(ItemsOf(p, n)) \in Nat
<1>1. ItemsOf(p, "Symbols") = p.symbols
  BY DEF ItemsOf, EmplaceTables
<1>2. ItemsOf(p, "LineNumbers") = p.lines
  BY DEF ItemsOf, EmplaceTables
<1>3. ItemsOf(p, "SourceFiles") = p.files
  BY DEF ItemsOf, EmplaceTables
<1>4. \A n \in EmplaceTables : ItemsOf(p, n) = p.plain[n]
  BY DEF ItemsOf, EmplaceTables
<1>5. ASSUME NEW n \in TableNames
      PROVE  Len(ItemsOf(p, n)) \in Nat
  <2>1. CASE n = "Symbols"
    BY <2>1, <1>1, PdbParts
  <2>2. CASE n = "LineNumbers"
    BY <2>2, <1>2, PdbParts
  <2>3. CASE n = "SourceFiles"
    BY <2>3, <1>3, PdbParts
  <2>4. CASE n \in EmplaceTables
    BY <2>4, <1>4, PdbParts
  <2> QED
    BY <2>1, <2>2, <2>3, <2>4 DEF TableNames
<1> QED
  BY <1>1, <1>2, <1>3, <1>4, <1>5

-----------------------------------------------------------------------------
(* The cursors of the enumerators. *)

\* What the loops keep besides the types: a table not taken yet has not been
\* read, between two batches everything fetched was handed on, and inside a
\* batch something is left to hand on.
Cursor ==
  /\ phase \in {"load", "streams"} => tab = 0
  /\ phase = "rows" => read[current] < got
  /\ phase = "batch" => read[current] = got
  /\ \A n \in TableNames :
       (\A i \in 1..tab : pdb.order[i] # n) => read[n] = 0

\* A handler that takes one element keeps the cursors in order.
LEMMA ElementCursor ==
  ASSUME ControlOK, Cursor, NEW n \in TableNames, Element(n),
         faulted' \in BOOLEAN, outOfBounds' \in BOOLEAN
  PROVE  ControlOK' /\ Cursor'
<1> USE DEF Element
<1>1. /\ pdb \in Pdbs /\ tab \in Nat /\ tab > 0 /\ tab <= Len(pdb.order) /\ got \in Nat
      /\ read \in [TableNames -> Nat]
      /\ read[n] < got /\ got <= Len(ItemsOf(pdb, n))
  BY PdbParts DEF ControlOK, Cursor, items
<1>2. /\ read'[n] = read[n] + 1
      /\ read'[n] <= got
      /\ read' \in [TableNames -> Nat]
      /\ \A m \in TableNames : m # n => read'[m] = read[m]
  BY <1>1
<1>3. current' = n /\ items' = ItemsOf(pdb, n)
  BY DEF current, items
<1>4. phase' \in {"batch", "rows"} /\ phase' \in Phases
  BY DEF Phases
<1>5. \A m \in TableNames : read'[m] <= Len(ItemsOf(pdb, m))
  BY <1>1, <1>2, ItemsOfParts DEF ControlOK
<1>6. ControlOK'
  BY <1>1, <1>2, <1>3, <1>4, <1>5 DEF ControlOK
<1>7. \A m \in TableNames : (\A i \in 1..tab : pdb.order[i] # m) => read'[m] = 0
  <2> SUFFICES ASSUME NEW m \in TableNames, \A i \in 1..tab : pdb.order[i] # m
               PROVE  read'[m] = 0
    OBVIOUS
  <2>1. pdb.order[tab] = n /\ tab \in 1..tab
    BY <1>1 DEF current
  <2>2. m # n
    BY <2>1
  <2> QED
    BY <2>2, <1>2 DEF Cursor
<1>8. Cursor'
  BY <1>1, <1>2, <1>3, <1>4, <1>7 DEF Cursor
<1> QED
  BY <1>6, <1>8

\* Every step keeps the cursors and the control state in order.
LEMMA ControlStep ==
  ASSUME ControlOK, Cursor, [Next]_vars
  PROVE  ControlOK' /\ Cursor'
<1> USE DEF control, history, Phases
<1>0. /\ pdb \in Pdbs /\ Len(pdb.order) \in Nat /\ tab \in 0..Len(pdb.order)
      /\ \A n \in TableNames : Len(ItemsOf(pdb, n)) \in Nat
  BY PdbParts, ItemsOfParts DEF ControlOK
<1>1. CASE LoadFails \/ SourceIsNull \/ LoadSucceeds \/ SessionIsNull
  BY <1>1 DEF LoadFails, SourceIsNull, LoadSucceeds, SessionIsNull, ControlOK, Cursor
<1>2. CASE ReadSectionHeader \/ EndStreams \/ StreamsFail
  BY <1>2 DEF ReadSectionHeader, EndStreams, StreamsFail, ControlOK, Cursor
<1>3. CASE OpenTable
  <2> DEFINE n == pdb.order[tab + 1]
  <2>1. /\ tab + 1 \in 1..Len(pdb.order) /\ n \in TableNames /\ current' = n
        /\ tab' = tab + 1
    BY <1>0, <1>3 DEF OpenTable, current
  <2>2. \A i \in 1..tab : pdb.order[i] # n
    <3>1. DistinctTables(pdb)
      BY <1>0, PdbParts
    <3>2. SUFFICES ASSUME NEW i \in 1..tab, pdb.order[i] = n
                   PROVE  FALSE
      OBVIOUS
    <3>3. i \in 1..Len(pdb.order) /\ i # tab + 1
      BY <1>0
    <3> QED
      BY <2>1, <3>1, <3>2, <3>3 DEF DistinctTables
  <2>3. read[n] = 0 /\ read' = read /\ got' = 0
    BY <2>1, <2>2, <1>3 DEF Cursor, OpenTable
  <2>4. items' = ItemsOf(pdb, n)
    BY <2>1, <1>3 DEF items, OpenTable
  <2>5. ControlOK'
    BY <1>0, <1>3, <2>1, <2>3, <2>4 DEF OpenTable, ControlOK
  <2>6. Cursor'
    BY <1>0, <1>3, <2>1, <2>3 DEF OpenTable, Cursor
  <2> QED
    BY <2>5, <2>6
<1>4. CASE SkipTable \/ TableFails
  <2>1. /\ phase = "tables" /\ phase' = phase /\ pdb' = pdb /\ got' = got /\ read' = read
        /\ tab' = tab + 1 /\ tab < Len(pdb.order)
        /\ faulted' \in {faulted, TRUE} /\ outOfBounds' = outOfBounds
    BY <1>4 DEF SkipTable, TableFails
  <2>2. \A n \in TableNames :
          (\A i \in 1..(tab + 1) : pdb.order[i] # n) => read[n] = 0
    BY <1>0 DEF Cursor
  <2>3. faulted' \in BOOLEAN /\ outOfBounds' \in BOOLEAN
    BY <2>1 DEF ControlOK
  <2>4. ControlOK'
    BY <1>0, <2>1, <2>3 DEF ControlOK
  <2>5. Cursor'
    BY <1>0, <2>1, <2>2 DEF Cursor
  <2> QED
    BY <2>4, <2>5
<1>5. CASE EndTables \/ EnumTablesFails
  BY <1>5 DEF EndTables, EnumTablesFails, ControlOK, Cursor
<1>6. CASE FetchBatch
  <2>1. current \in TableNames /\ Len(items) \in Nat /\ BatchSize \in Nat \ {0}
    BY <1>0, <1>6, BatchAssumption DEF FetchBatch, ControlOK, items
  <2>2. got' \in Nat /\ got < got' /\ got' <= Len(items)
    BY <2>1, <1>6 DEF FetchBatch, AtMost, ControlOK
  <2>3. current' = current /\ items' = items
    BY <1>6 DEF FetchBatch, current, items
  <2> QED
    BY <1>6, <2>1, <2>2, <2>3 DEF FetchBatch, ControlOK, Cursor
<1>7. CASE FetchNothing \/ FetchFails
  BY <1>7 DEF FetchNothing, FetchFails, ControlOK, Cursor
<1>8. CASE ReadSymbol
  <2>1. /\ Element("Symbols")
        /\ faulted' = faulted
        /\ outOfBounds' = outOfBounds \/ outOfBounds' = TRUE
    BY <1>8 DEF ReadSymbol, ReadCompilandSymbol, ReadCompilandDetailsSymbol,
                ReadUDTSymbol, ReadDedicatedSymbol, ReadIgnoredSymbol, Symbolic
  <2> QED
    BY <2>1, ElementCursor DEF ControlOK, TableNames
<1>9. CASE ReadLines
  BY <1>9, ElementCursor DEF ReadLines, ControlOK, TableNames
<1>10. CASE ReadSourceFile \/ ReadSourceFails
  <2>1. /\ Element("SourceFiles")
        /\ faulted' \in {faulted, TRUE}
        /\ outOfBounds' = outOfBounds
    BY <1>10 DEF ReadSourceFile, ReadSourceFails, ReadSource
  <2> QED
    BY <2>1, ElementCursor DEF ControlOK, TableNames
<1>11. CASE EmplaceItem
  <2>1. PICK n \in EmplaceTables : Element(n)
    BY <1>11 DEF EmplaceItem
  <2> QED
    BY <1>11, <2>1, ElementCursor DEF EmplaceItem, ControlOK, TableNames
<1>12. CASE UNCHANGED vars
  BY <1>12 DEF vars, ControlOK, Cursor, current, items
<1> QED
  BY <1>1, <1>2, <1>3, <1>4, <1>5, <1>6, <1>7, <1>8, <1>9, <1>10, <1>11, <1>12
     DEF Next, Progress, Fault

-----------------------------------------------------------------------------
(* The rows. *)

\* The element a handler is given is one of its table.
LEMMA NextElement ==
  ASSUME ControlOK, Cursor, NEW n \in TableNames, Element(n)
  PROVE  /\ read[n] \in Nat
         /\ read[n] + 1 \in 1..Len(ItemsOf(pdb, n))
         /\ read' = [read EXCEPT ![n] = read[n] + 1]
         /\ pdb' = pdb
  BY ItemsOfParts DEF ControlOK, Cursor, Element, items

\* ReadSymbol is given a symbol of the PDB.
LEMMA NextSymbol ==
  ASSUME ControlOK, Cursor, Element("Symbols")
  PROVE  /\ read["Symbols"] + 1 \in 1..Len(pdb.symbols)
         /\ nextSymbol \in SymbolItem
<1>1. pdb \in Pdbs
  BY DEF ControlOK
<1>2. read["Symbols"] + 1 \in 1..Len(pdb.symbols)
  BY <1>1, NextElement, ItemsOfParts DEF TableNames
<1> QED
  BY <1>1, <1>2, PdbParts DEF nextSymbol

\* The batches that ReadSource keeps do not exceed what the file has.
LEMMA Batches ==
  ASSUME NEW n \in Nat
  PROVE  /\ n \div IncludeBatch \in Nat
         /\ FullBatches(n) \in 0..n
         /\ Kept(n) \in 0..n
         /\ \A k \in 0..(n \div IncludeBatch) : k * IncludeBatch \in 0..n
<1> DEFINE q == n \div IncludeBatch
<1>1. IncludeBatch \in Nat /\ IncludeBatch > 0
  BY BatchAssumption
<1>2. q \in Nat /\ q * IncludeBatch <= n
  BY <1>1
<1>3. ASSUME NEW k \in 0..q
      PROVE  k * IncludeBatch \in 0..n
  <2> HIDE DEF q
  <2>1. k \in Nat /\ k <= q
    BY <1>2
  <2>2. k * IncludeBatch <= q * IncludeBatch /\ k * IncludeBatch \in Nat
    BY <1>1, <1>2, <2>1
  <2>3. n \in Nat /\ q * IncludeBatch \in Nat
    BY <1>1, <1>2
  <2> QED
    BY <1>2, <2>2, <2>3
<1> QED
  BY <1>1, <1>2, <1>3 DEF FullBatches, Kept

\* The rows of included that ReadSource appends are well typed.
LEMMA IncludedRowsType ==
  ASSUME NEW file \in FileItem, NEW n \in 0..Len(file.compilands)
  PROVE  IncludedRows(file, n) \in Seq([compiland_symbol : Nat, source_id : Nat])
  BY DEF IncludedRows, FileItem

\* Replacing a row of a vector.
LEMMA ReplaceRow ==
  ASSUME NEW S, NEW s \in Seq(S), NEW i \in 1..Len(s), NEW x \in S
  PROVE  [s EXCEPT ![i] = x] \in Seq(S)
  OBVIOUS

\* Appending the details to a compiland's row leaves its key alone.
LEMMA DetailedRow ==
  ASSUME NEW row \in CompilandRow, NEW d \in SymbolItem
  PROVE  /\ [row EXCEPT !.details = d] \in CompilandRow
         /\ [row EXCEPT !.details = d].symbol = row.symbol
         /\ [row EXCEPT !.details = d].details = d
  BY DEF CompilandRow

\* ReadSymbol keeps the rows well typed.
LEMMA SymbolRowsType ==
  ASSUME TypeOK, Cursor, ReadSymbol
  PROVE  RowsOK'
<1> USE DEF TypeOK, RowsOK, byTag, CompilandRow, UserTypeRow, SrcRangeRow, history
<1>1. Element("Symbols") /\ ControlOK
  BY DEF ReadSymbol, ReadCompilandSymbol, ReadCompilandDetailsSymbol,
         ReadUDTSymbol, ReadDedicatedSymbol, ReadIgnoredSymbol, Symbolic
<1>2. nextSymbol \in SymbolItem
  BY <1>1, NextSymbol
<1>3. /\ nextSymbol.id \in Nat /\ nextSymbol.tag \in Tags /\ nextSymbol.parent \in Nat
      /\ nextSymbol.line # NoLine => nextSymbol.line \in Lines
  BY <1>2 DEF SymbolItem
<1>4. /\ Symbol' \in Seq([symbol : Nat, tag : Tags \cup {"Unknown"}])
      /\ UNCHANGED <<SourceFile, Included, AddrSection, Plain>>
  <2>1. /\ Symbol' = Append(Symbol, [symbol |-> nextSymbol.id, tag |-> nextSymbol.tag])
        /\ UNCHANGED <<SourceFile, Included, AddrSection, Plain>>
    BY DEF ReadSymbol, ReadCompilandSymbol, ReadCompilandDetailsSymbol,
           ReadUDTSymbol, ReadDedicatedSymbol, ReadIgnoredSymbol, Symbolic
  <2> QED
    BY <1>3, <2>1
<1>5. CASE ReadCompilandSymbol
  BY <1>3, <1>4, <1>5 DEF ReadCompilandSymbol
<1>6. CASE ReadCompilandDetailsSymbol
  <2> DEFINE c   == nextSymbol.parent
             idx == IF c \in DOMAIN SymCompilandMap THEN SymCompilandMap[c] ELSE 0
  <2>1. idx \in Nat
    OBVIOUS
  <2>2. /\ DOMAIN SymCompilandMap' \subseteq Nat
        /\ SymCompilandMap' \in [DOMAIN SymCompilandMap' -> Nat]
    BY <1>3, <1>6, <2>1 DEF ReadCompilandDetailsSymbol
  <2>3. Compiland' \in Seq(CompilandRow)
    <3>1. CASE idx < Len(Compiland)
      <4>1. Compiland' = [Compiland EXCEPT ![idx + 1].details = nextSymbol]
        BY <1>6, <3>1 DEF ReadCompilandDetailsSymbol
      <4>2. idx + 1 \in 1..Len(Compiland)
        BY <2>1, <3>1
      <4>3. PICK i \in 1..Len(Compiland) : i = idx + 1
        BY <4>2
      <4>4. [Compiland[i] EXCEPT !.details = nextSymbol] \in CompilandRow
        <5> HIDE DEF CompilandRow
        <5>1. Compiland[i] \in CompilandRow
          OBVIOUS
        <5> QED
          BY <1>2, <5>1, DetailedRow
      <4>5. Compiland' = [Compiland EXCEPT
                            ![i] = [Compiland[i] EXCEPT !.details = nextSymbol]]
        BY <4>1, <4>3
      <4> QED
        <5> HIDE DEF CompilandRow
        <5>1. Compiland \in Seq(CompilandRow)
          OBVIOUS
        <5> QED
          BY <4>4, <4>5, <5>1, ReplaceRow
    <3>2. CASE ~(idx < Len(Compiland))
      BY <1>6, <3>2 DEF ReadCompilandDetailsSymbol
    <3> QED
      BY <3>1, <3>2
  <2> QED
    BY <1>4, <1>6, <2>2, <2>3 DEF ReadCompilandDetailsSymbol
<1>7. CASE ReadUDTSymbol
  <2>1. Len(SrcRange) \in Nat
    OBVIOUS
  <2>2. UserType' \in Seq(UserTypeRow)
    <3>1. PICK l \in Nat :
            UserType' = Append(UserType, [symbol |-> nextSymbol.id, src_line |-> l])
      BY <1>7, <2>1 DEF ReadUDTSymbol
    <3> QED
      BY <1>3, <3>1
  <2>3. SrcRange' \in Seq(SrcRangeRow)
    <3>1. CASE nextSymbol.line # NoLine
      <4>1. SrcRange' = Append(SrcRange, [id |-> Len(SrcRange), line |-> nextSymbol.line])
        BY <1>7, <3>1 DEF ReadUDTSymbol
      <4> QED
        BY <1>3, <2>1, <3>1, <4>1
    <3>2. CASE nextSymbol.line = NoLine
      BY <1>7, <3>2 DEF ReadUDTSymbol
    <3> QED
      BY <3>1, <3>2
  <2> QED
    BY <1>4, <1>7, <2>2, <2>3 DEF ReadUDTSymbol
<1>8. CASE ReadDedicatedSymbol
  <2>1. nextSymbol.tag \in DedicatedTags
    BY <1>8 DEF ReadDedicatedSymbol, Symbolic
  <2> QED
    BY <1>3, <1>4, <1>8, <2>1 DEF ReadDedicatedSymbol
<1>9. CASE ReadIgnoredSymbol
  BY <1>4, <1>9 DEF ReadIgnoredSymbol
<1> QED
  BY <1>5, <1>6, <1>7, <1>8, <1>9 DEF ReadSymbol

\* Every step keeps the rows well typed.
LEMMA RowsStep ==
  ASSUME TypeOK, Cursor, [Next]_vars
  PROVE  RowsOK'
<1> USE DEF TypeOK, result, byTag, history
<1>0. pdb \in Pdbs
  BY DEF ControlOK
<1>1. CASE LoadFails \/ SourceIsNull
  BY <1>1 DEF LoadFails, SourceIsNull, RowsOK
<1>2. CASE LoadSucceeds \/ SessionIsNull
  <2>1. <<Sentinel>> \in Seq([symbol : Nat, tag : Tags \cup {"Unknown"}])
    BY DEF Sentinel
  <2> QED
    BY <1>2, <2>1 DEF LoadSucceeds, SessionIsNull, RowsOK
<1>3. CASE ReadSectionHeader
  BY <1>3 DEF ReadSectionHeader, RowsOK
<1>4. CASE EndStreams \/ StreamsFail
  BY <1>4 DEF EndStreams, StreamsFail, RowsOK
<1>5. CASE OpenTable \/ SkipTable \/ EndTables \/ EnumTablesFails \/ TableFails
  BY <1>5 DEF OpenTable, SkipTable, EndTables, EnumTablesFails, TableFails, RowsOK
<1>6. CASE FetchBatch \/ FetchNothing \/ FetchFails
  BY <1>6 DEF FetchBatch, FetchNothing, FetchFails, RowsOK
<1>7. CASE ReadSymbol
  BY <1>7, SymbolRowsType
<1>8. CASE ReadLines
  <2>1. read["LineNumbers"] + 1 \in 1..Len(pdb.lines)
    BY <1>0, <1>8, NextElement, ItemsOfParts DEF ReadLines, TableNames
  <2>2. pdb.lines[read["LineNumbers"] + 1] \in Lines
    BY <1>0, <2>1, PdbParts
  <2> QED
    BY <1>8, <2>2 DEF ReadLines, RowsOK, SrcRangeRow
<1>9. CASE ReadSourceFile \/ ReadSourceFails
  <2>1. /\ Element("SourceFiles") /\ phase = "rows"
    BY <1>9 DEF ReadSourceFile, ReadSourceFails, ReadSource, Element
  <2>2. read["SourceFiles"] + 1 \in 1..Len(pdb.files)
    BY <1>0, <2>1, NextElement, ItemsOfParts DEF TableNames
  <2>3. nextFile \in FileItem
    BY <1>0, <2>2, PdbParts DEF nextFile
  <2>4. Len(nextFile.compilands) \in Nat /\ nextFile.id \in Nat
    BY <2>3 DEF FileItem
  <2>5. PICK n \in 0..Len(nextFile.compilands) : ReadSource(n)
    <3>1. CASE ReadSourceFile
      BY <3>1, <2>4, Batches DEF ReadSourceFile
    <3>2. CASE ReadSourceFails
      BY <3>2, <2>4, Batches DEF ReadSourceFails
    <3> QED
      BY <1>9, <3>1, <3>2
  <2>6. IncludedRows(nextFile, n) \in Seq([compiland_symbol : Nat, source_id : Nat])
    BY <2>3, IncludedRowsType
  <2> QED
    BY <2>4, <2>5, <2>6 DEF ReadSource, RowsOK
<1>10. CASE EmplaceItem
  <2>1. PICK n \in EmplaceTables :
          /\ Element(n)
          /\ Plain' = [Plain EXCEPT ![n] = Append(@, pdb.plain[n][read[n] + 1])]
    BY <1>10 DEF EmplaceItem
  <2>2. read[n] + 1 \in 1..Len(pdb.plain[n])
    BY <1>0, <2>1, NextElement, ItemsOfParts DEF TableNames
  <2>3. pdb.plain[n][read[n] + 1] \in Nat
    BY <1>0, <2>2, PdbParts
  <2>4. Plain \in [EmplaceTables -> Seq(Nat)] /\ Plain[n] \in Seq(Nat)
    BY DEF RowsOK
  <2>5. Append(Plain[n], pdb.plain[n][read[n] + 1]) \in Seq(Nat)
    BY <2>3, <2>4
  <2>6. Plain' \in [EmplaceTables -> Seq(Nat)]
    BY <2>1, <2>4, <2>5
  <2> QED
    BY <1>10, <2>6 DEF EmplaceItem, RowsOK
<1>11. CASE UNCHANGED vars
  BY <1>11 DEF vars, RowsOK
<1> QED
  BY <1>1, <1>2, <1>3, <1>4, <1>5, <1>6, <1>7, <1>8, <1>9, <1>10, <1>11
     DEF Next, Progress, Fault

\* The initial state is well typed.
LEMMA InitType ==
  ASSUME Init
  PROVE  TypeOK /\ Cursor
<1>1. pdb \in Pdbs /\ \A n \in TableNames : Len(ItemsOf(pdb, n)) \in Nat
  BY ItemsOfParts DEF Init
<1>2. ControlOK
  <2>1. Len(pdb.order) \in Nat
    BY <1>1, PdbParts
  <2>2. read \in [TableNames -> Nat] /\ \A n \in TableNames : read[n] <= Len(ItemsOf(pdb, n))
    BY <1>1 DEF Init
  <2>3. phase \in Phases /\ phase \notin {"batch", "rows"}
    BY DEF Init, Phases
  <2>4. tab \in 0..Len(pdb.order) /\ got \in Nat
    BY <2>1 DEF Init
  <2>5. faulted \in BOOLEAN /\ outOfBounds \in BOOLEAN
    BY DEF Init
  <2> QED
    BY <1>1, <2>2, <2>3, <2>4, <2>5 DEF ControlOK
<1>4. Cursor
  BY DEF Init, Cursor
<1>3. RowsOK
  BY DEF Init, RowsOK
<1> QED
  BY <1>2, <1>3, <1>4 DEF TypeOK

\* What every later proof starts from.
LEMMA Typed == Spec => [](TypeOK /\ Cursor)
<1>1. Init => TypeOK /\ Cursor
  BY InitType
<1>2. (TypeOK /\ Cursor) /\ [Next]_vars => (TypeOK /\ Cursor)'
  BY ControlStep, RowsStep DEF TypeOK
<1> QED
  BY <1>1, <1>2, PTL DEF Spec

\* The reader's state and the vectors of SymbolData stay well typed, and no
\* handler is given an element beyond those its table has.
THEOREM TypeCorrect == Spec => []TypeOK
  BY Typed, PTL

-----------------------------------------------------------------------------
(* The keys of src_lines. *)

\* Whatever order DIA lists its tables in, the two handlers that number the
\* rows of src_lines number them 0, 1, 2, ...: the key has no duplicates.
THEOREM SrcIdsAreDense == Spec => []SrcIdsDense
<1>1. Init => SrcIdsDense
  BY DEF Init, SrcIdsDense
<1>2. TypeOK /\ SrcIdsDense /\ [Next]_vars => SrcIdsDense'
  <2> SUFFICES ASSUME TypeOK, SrcIdsDense, [Next]_vars
               PROVE  SrcIdsDense'
    OBVIOUS
  <2>1. SrcRange \in Seq(SrcRangeRow)
    BY DEF TypeOK, RowsOK
  <2>2. CASE SrcRange' = SrcRange
    BY <2>2 DEF SrcIdsDense
  <2>3. ASSUME NEW l, SrcRange' = Append(SrcRange, [id |-> Len(SrcRange), line |-> l])
        PROVE  SrcIdsDense'
    BY <2>1, <2>3 DEF SrcIdsDense
  <2>4. CASE ReadUDTSymbol \/ ReadLines
    BY <2>2, <2>3, <2>4 DEF ReadUDTSymbol, ReadLines
  <2>5. CASE ~(ReadUDTSymbol \/ ReadLines)
    <3>1. SrcRange' = SrcRange
      BY <2>5 DEF Next, Progress, Fault, ReadSymbol, LoadSucceeds, ReadSectionHeader,
        EndStreams, OpenTable, SkipTable, EndTables, FetchBatch, FetchNothing,
        ReadCompilandSymbol, ReadCompilandDetailsSymbol, ReadDedicatedSymbol,
        ReadIgnoredSymbol, ReadSourceFile, EmplaceItem, LoadFails, SourceIsNull,
        SessionIsNull, StreamsFail, EnumTablesFails, TableFails, FetchFails,
        ReadSourceFails, ReadSource, vars, result
    <3> QED
      BY <2>2, <3>1
  <2> QED
    BY <2>4, <2>5
<1> QED
  BY <1>1, <1>2, TypeCorrect, PTL DEF Spec

-----------------------------------------------------------------------------
(* The master table. *)

\* The sentinel is there once the file is open.
SentinelFirst == phase \in {"streams", "tables", "batch", "rows"} => Symbol # <<>>

\* Whatever the batches, the order of the tables and the failures, the master
\* table is the sentinel and then the symbols read, in DIA's order.
THEOREM SymbolsInOrder == Spec => []SymbolRowsFollowItems
<1> DEFINE MInv == SentinelFirst /\ SymbolRowsFollowItems
<1>1. Init => MInv
  BY DEF Init, SentinelFirst, SymbolRowsFollowItems, TableNames
<1>2. TypeOK /\ Cursor /\ MInv /\ [Next]_vars => MInv'
  <2> SUFFICES ASSUME TypeOK, Cursor, MInv, [Next]_vars
               PROVE  MInv'
    OBVIOUS
  <2> USE DEF TypeOK
  <2>0. /\ pdb \in Pdbs /\ read["Symbols"] \in Nat
        /\ Symbol \in Seq([symbol : Nat, tag : Tags \cup {"Unknown"}])
    BY DEF ControlOK, RowsOK, TableNames
  <2>1. CASE LoadFails \/ SourceIsNull
    BY <2>1 DEF LoadFails, SourceIsNull, SentinelFirst, SymbolRowsFollowItems,
                result, control
  <2>2. CASE LoadSucceeds \/ SessionIsNull
    <3>1. read["Symbols"] = 0
      BY <2>2 DEF LoadSucceeds, SessionIsNull, Cursor, ControlOK, TableNames
    <3>2. Symbol' = <<Sentinel>> /\ read' = read
      BY <2>2 DEF LoadSucceeds, SessionIsNull, control
    <3> QED
      BY <3>1, <3>2 DEF SentinelFirst, SymbolRowsFollowItems
  <2>3. CASE ReadSymbol
    <3>1. /\ Element("Symbols")
          /\ Symbol' = Append(Symbol, SymbolRow(nextSymbol))
          /\ pdb' = pdb
      BY <2>3 DEF ReadSymbol, ReadCompilandSymbol, ReadCompilandDetailsSymbol,
                  ReadUDTSymbol, ReadDedicatedSymbol, ReadIgnoredSymbol,
                  Symbolic, SymbolRow, Element
    <3>2. read'["Symbols"] = read["Symbols"] + 1
      BY <3>1, NextElement DEF ControlOK, TableNames
    <3>3. nextSymbol = pdb.symbols[read["Symbols"] + 1]
      BY DEF nextSymbol
    <3>4. Symbol # <<>>
      BY <3>1 DEF SentinelFirst, Element
    <3>5. /\ Len(Symbol') = read'["Symbols"] + 1
          /\ Symbol'[1] = Sentinel
          /\ \A i \in 1..read'["Symbols"] : Symbol'[i + 1] = SymbolRow(pdb'.symbols[i])
      BY <2>0, <3>1, <3>2, <3>3, <3>4 DEF SymbolRowsFollowItems
    <3>6. Symbol' # <<>>
      BY <2>0, <3>1
    <3>7. SentinelFirst'
      BY <3>6 DEF SentinelFirst
    <3>8. SymbolRowsFollowItems'
      BY <3>5, <3>6 DEF SymbolRowsFollowItems
    <3> QED
      BY <3>7, <3>8
  <2>4. CASE ReadLines \/ ReadSourceFile \/ ReadSourceFails \/ EmplaceItem
    <3>1. PICK n \in TableNames \ {"Symbols"} :
            Element(n) /\ Symbol' = Symbol /\ pdb' = pdb
      BY <2>4 DEF ReadLines, ReadSourceFile, ReadSourceFails, ReadSource,
                  EmplaceItem, TableNames, EmplaceTables, Element
    <3>2. read'["Symbols"] = read["Symbols"] /\ phase = "rows"
      BY <3>1, NextElement DEF ControlOK, TableNames, Element
    <3> QED
      BY <3>1, <3>2 DEF SentinelFirst, SymbolRowsFollowItems
  <2>5. CASE ReadSectionHeader \/ EndStreams \/ StreamsFail
    BY <2>5 DEF ReadSectionHeader, EndStreams, StreamsFail, control, result,
                SentinelFirst, SymbolRowsFollowItems
  <2>6. CASE OpenTable \/ SkipTable \/ EndTables \/ EnumTablesFails \/ TableFails
    BY <2>6 DEF OpenTable, SkipTable, EndTables, EnumTablesFails, TableFails,
                control, result, SentinelFirst, SymbolRowsFollowItems
  <2>7. CASE FetchBatch \/ FetchNothing \/ FetchFails
    BY <2>7 DEF FetchBatch, FetchNothing, FetchFails, control, result,
                SentinelFirst, SymbolRowsFollowItems
  <2>8. CASE UNCHANGED vars
    BY <2>8 DEF vars, control, result, SentinelFirst, SymbolRowsFollowItems
  <2> QED
    BY <2>1, <2>2, <2>3, <2>4, <2>5, <2>6, <2>7, <2>8 DEF Next, Progress, Fault
<1> QED
  BY <1>1, <1>2, Typed, PTL DEF Spec

\* The primary key of the master table has no duplicates: DIA's ids are
\* distinct and positive, and 0 is the sentinel's alone.
THEOREM SymbolKeyIsUnique == Spec => []SymbolKeyUnique
<1>1. TypeOK /\ SymbolRowsFollowItems => SymbolKeyUnique
  <2> SUFFICES ASSUME TypeOK, SymbolRowsFollowItems,
                      NEW i \in DOMAIN Symbol, NEW j \in DOMAIN Symbol,
                      Symbol[i].symbol = Symbol[j].symbol
               PROVE  i = j
    BY DEF SymbolKeyUnique
  <2>1. /\ pdb \in Pdbs /\ read["Symbols"] \in Nat
        /\ read["Symbols"] <= Len(pdb.symbols)
        /\ Len(Symbol) \in Nat /\ DOMAIN Symbol = 1..Len(Symbol)
    <3>1. pdb \in Pdbs /\ read["Symbols"] \in Nat
      BY DEF TypeOK, ControlOK, TableNames
    <3>2. read["Symbols"] <= Len(pdb.symbols)
      BY <3>1, ItemsOfParts DEF TypeOK, ControlOK, TableNames
    <3>3. Symbol \in Seq([symbol : Nat, tag : Tags \cup {"Unknown"}])
      BY DEF TypeOK, RowsOK
    <3> QED
      BY <3>1, <3>2, <3>3
  <2>2. /\ Len(Symbol) = read["Symbols"] + 1
        /\ Symbol[1].symbol = 0
        /\ \A k \in 1..read["Symbols"] : Symbol[k + 1].symbol = pdb.symbols[k].id
    <3>1. Symbol # <<>>
      BY <2>1
    <3>2. /\ Len(Symbol) = read["Symbols"] + 1
          /\ Symbol[1] = Sentinel
          /\ \A k \in 1..read["Symbols"] : Symbol[k + 1] = SymbolRow(pdb.symbols[k])
      BY <3>1 DEF SymbolRowsFollowItems
    <3>3. Sentinel.symbol = 0 /\ \A x : SymbolRow(x).symbol = x.id
      BY DEF Sentinel, SymbolRow
    <3> QED
      BY <3>2, <3>3
  <2>3. \A k \in 1..read["Symbols"] :
          k \in 1..Len(pdb.symbols) /\ pdb.symbols[k].id \in Nat \ {0}
    <3>1. pdb.symbols \in Seq(SymbolItem)
      BY <2>1, PdbParts
    <3>2. \A k \in 1..read["Symbols"] :
            k \in 1..Len(pdb.symbols) /\ pdb.symbols[k] \in SymbolItem
      BY <2>1, <3>1
    <3>3. \A x \in SymbolItem : x.id \in Nat \ {0}
      BY DEF SymbolItem
    <3> QED
      BY <3>2, <3>3
  <2>4. DistinctIds(pdb)
    BY <2>1, PdbParts
  <2>5. \A k \in 2..Len(Symbol) :
          /\ k - 1 \in 1..read["Symbols"]
          /\ Symbol[k].symbol = pdb.symbols[k - 1].id
    <3> SUFFICES ASSUME NEW k \in 2..Len(Symbol)
                 PROVE  /\ k - 1 \in 1..read["Symbols"]
                        /\ Symbol[k].symbol = pdb.symbols[k - 1].id
      OBVIOUS
    <3>1. k - 1 \in 1..read["Symbols"] /\ (k - 1) + 1 = k
      BY <2>1, <2>2
    <3> QED
      BY <2>2, <3>1
  <2>6. CASE i = 1 \/ j = 1
    <3>1. \A k \in 2..Len(Symbol) : Symbol[k].symbol # 0
      BY <2>3, <2>5
    <3>2. i \in 1..Len(Symbol) /\ j \in 1..Len(Symbol)
      BY <2>1
    <3> QED
      BY <2>1, <2>2, <2>6, <3>1, <3>2
  <2>7. CASE i # 1 /\ j # 1
    <3>1. i \in 2..Len(Symbol) /\ j \in 2..Len(Symbol)
      BY <2>1, <2>2, <2>7
    <3>2. i - 1 = j - 1
      BY <2>3, <2>4, <2>5, <3>1 DEF DistinctIds
    <3> QED
      BY <2>1, <3>1, <3>2
  <2> QED
    BY <2>6, <2>7
<1> QED
  BY <1>1, TypeCorrect, SymbolsInOrder, PTL

=============================================================================
