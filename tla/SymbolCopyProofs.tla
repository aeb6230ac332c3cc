-------------------------- MODULE SymbolCopyProofs --------------------------
(***************************************************************************)
(* SymbolReader implements TableCopy: what the reader promises the rest of *)
(* the program, for every PDB, batch size and failure; and the same of     *)
(* included, which is filled file by file.                                 *)
(***************************************************************************)
EXTENDS SymbolReaderProofs, WellFoundedInduction

-----------------------------------------------------------------------------
(* The section headers a file has. *)

\* A set of numbers that is not empty has a least one.
LEMMA Least ==
  ASSUME NEW T, T \subseteq Nat, T # {}
  PROVE  \E k \in T : \A j \in T : k <= j
<1>1. PICK k \in T : \A j \in T : ~(<<j, k>> \in OpToRel(<, Nat))
  BY NatLessThanWellFounded, WFMin
<1>2. \A j \in T : ~(j < k)
  BY <1>1 DEF OpToRel
<1> QED
  BY <1>2

\* There is a number of headers before the first short one.
LEMMA FullHeadersFound ==
  ASSUME NEW p \in Pdbs
  PROVE  /\ FullHeaders(p) \in 0..Len(p.headers)
         /\ \A j \in 1..FullHeaders(p) : p.headers[j] = "full"
         /\ FullHeaders(p) < Len(p.headers) =>
              p.headers[FullHeaders(p) + 1] # "full"
<1>1. p.headers \in Seq({"full", "short"}) /\ Len(p.headers) \in Nat
  BY PdbParts
<1> DEFINE T == {k \in 0..Len(p.headers) :
                   k = Len(p.headers) \/ p.headers[k + 1] # "full"}
<1>2. PICK k \in T : \A j \in T : k <= j
  <2>1. Len(p.headers) \in T /\ T \subseteq Nat
    BY <1>1
  <2> HIDE DEF T
  <2> QED
    BY <2>1, Least
<1>3. \A j \in 1..k : p.headers[j] = "full"
  <2> SUFFICES ASSUME NEW j \in 1..k
               PROVE  p.headers[j] = "full"
    OBVIOUS
  <2>1. /\ j - 1 \in 0..Len(p.headers) /\ j - 1 < k /\ (j - 1) + 1 = j
        /\ j - 1 # Len(p.headers)
    BY <1>1
  <2>2. j - 1 \notin T
    <3>1. k \in Nat /\ j - 1 \in Nat
      BY <1>1
    <3>2. ASSUME j - 1 \in T
          PROVE  k <= j - 1
      <4> HIDE DEF T
      <4> QED
        BY <1>2, <3>2
    <3> QED
      BY <2>1, <3>1, <3>2
  <2> QED
    BY <2>1, <2>2
<1>4. \E n \in 0..Len(p.headers) :
        /\ \A j \in 1..n : p.headers[j] = "full"
        /\ n < Len(p.headers) => p.headers[n + 1] # "full"
  BY <1>1, <1>3
<1> QED
  BY <1>4 DEF FullHeaders

-----------------------------------------------------------------------------
(* What has been copied. *)

Ended == phase \in {"done", "crashed"}

\* The headers read so far are full ones; all of them, once the stream is left.
HeaderRows(p, rows) ==
  /\ Len(rows) <= Len(p.headers)
  /\ \A i \in 1..Len(rows) :
       p.headers[i] = "full" /\ rows[i] = [section_index |-> i]

HeadersCopied ==
  /\ HeaderRows(pdb, AddrSection)
  /\ phase \notin {"load", "streams"} /\ ~faulted => ~AtFullHeader

FilesCopied ==
  /\ Len(SourceFile) = read["SourceFiles"]
  /\ \A i \in 1..read["SourceFiles"] : SourceFile[i] = pdb.files[i].id

PlainCopied(n) ==
  /\ Len(Plain[n]) = read[n]
  /\ \A i \in 1..read[n] : Plain[n][i] = pdb.plain[n][i]

\* Where nothing failed, a table that was taken from the list is the one that
\* is being read, or was read to its end.
TablesFinished ==
  /\ phase = "crashed" => faulted
  /\ ~faulted =>
       /\ phase = "done" => tab = Len(pdb.order)
       /\ \A i \in 1..tab :
            pdb.order[i] \in TableNames =>
              \/ i = tab /\ phase \in {"batch", "rows"}
              \/ read[pdb.order[i]] = Len(ItemsOf(pdb, pdb.order[i]))

CopyInv ==
  /\ SentinelFirst
  /\ HeadersCopied
  /\ FilesCopied
  /\ \A n \in EmplaceTables : PlainCopied(n)
  /\ TablesFinished

\* Nothing has been copied at first.
LEMMA InitCopied ==
  ASSUME Init
  PROVE  CopyInv
<1>1. pdb \in Pdbs /\ Len(pdb.headers) \in Nat
  BY PdbParts DEF Init
<1>2. SentinelFirst /\ FilesCopied /\ TablesFinished
  BY DEF Init, SentinelFirst, FilesCopied, TablesFinished, TableNames
<1>3. HeadersCopied
  BY <1>1 DEF Init, HeadersCopied, HeaderRows
<1>4. \A n \in EmplaceTables : PlainCopied(n)
  BY DEF Init, PlainCopied, TableNames
<1> QED
  BY <1>2, <1>3, <1>4 DEF CopyInv

\* The sentinel stays.
LEMMA SentinelStep ==
  ASSUME TypeOK, Cursor, SentinelFirst, [Next]_vars
  PROVE  SentinelFirst'
<1> USE DEF SentinelFirst
<1>1. Symbol \in Seq([symbol : Nat, tag : Tags \cup {"Unknown"}])
  BY DEF TypeOK, RowsOK
<1>2. CASE /\ Symbol' = Symbol
           /\ \/ phase \in {"streams", "tables", "batch", "rows"}
              \/ phase' \in {"load", "done", "crashed"}
  BY <1>2
<1>3. CASE Symbol' = <<Sentinel>>
  BY <1>3
<1>4. CASE \E x : Symbol' = Append(Symbol, x)
  BY <1>1, <1>4
<1>5. CASE LoadFails \/ SourceIsNull \/ LoadSucceeds \/ SessionIsNull
  BY <1>5, <1>2, <1>3 DEF LoadFails, SourceIsNull, LoadSucceeds, SessionIsNull, result
<1>6. CASE ReadSectionHeader \/ EndStreams \/ StreamsFail
  BY <1>6, <1>2 DEF ReadSectionHeader, EndStreams, StreamsFail, result
<1>7. CASE OpenTable \/ SkipTable \/ EndTables \/ EnumTablesFails \/ TableFails
  BY <1>7, <1>2 DEF OpenTable, SkipTable, EndTables, EnumTablesFails, TableFails, result
<1>8. CASE FetchBatch \/ FetchNothing \/ FetchFails
  BY <1>8, <1>2 DEF FetchBatch, FetchNothing, FetchFails, result
<1>9. CASE ReadSymbol
  BY <1>9, <1>4 DEF ReadSymbol, ReadCompilandSymbol, ReadCompilandDetailsSymbol,
     ReadUDTSymbol, ReadDedicatedSymbol, ReadIgnoredSymbol, Symbolic
<1>10. CASE ReadLines \/ ReadSourceFile \/ ReadSourceFails \/ EmplaceItem
  BY <1>10, <1>2 DEF ReadLines, ReadSourceFile, ReadSourceFails, ReadSource,
     EmplaceItem, Element
<1>11. CASE UNCHANGED vars
  BY <1>11 DEF vars, result
<1> QED
  BY <1>5, <1>6, <1>7, <1>8, <1>9, <1>10, <1>11 DEF Next, Progress, Fault

\* The steps that read a section header or leave the stream, and the others.
LEMMA HeadersStep ==
  ASSUME TypeOK, HeadersCopied, [Next]_vars
  PROVE  HeadersCopied'
<1>1. /\ pdb \in Pdbs /\ Len(pdb.headers) \in Nat
      /\ AddrSection \in Seq([section_index : Nat])
      /\ Len(AddrSection) \in Nat /\ faulted \in BOOLEAN
  BY PdbParts DEF TypeOK, ControlOK, RowsOK
<1>2. CASE /\ AddrSection' = AddrSection /\ pdb' = pdb
           /\ faulted' \in {faulted, TRUE}
           /\ \/ phase \notin {"load", "streams"}
              \/ phase' \in {"load", "streams"} \/ faulted' = TRUE
  <2>1. AtFullHeader' = AtFullHeader
    BY <1>2 DEF AtFullHeader
  <2>2. HeaderRows(pdb', AddrSection')
    BY <1>2 DEF HeadersCopied
  <2>3. phase' \notin {"load", "streams"} /\ ~faulted' =>
          phase \notin {"load", "streams"} /\ ~faulted
    BY <1>1, <1>2
  <2> QED
    BY <2>1, <2>2, <2>3 DEF HeadersCopied
<1>3. CASE LoadFails \/ SourceIsNull \/ LoadSucceeds \/ SessionIsNull \/ StreamsFail
  BY <1>3, <1>2 DEF LoadFails, SourceIsNull, LoadSucceeds, SessionIsNull, StreamsFail,
     result, history
<1>4. CASE ReadSectionHeader
  <2>1. PICK k \in Nat : k = Len(AddrSection)
    BY <1>1
  <2>2. /\ k < Len(pdb.headers) /\ pdb.headers[k + 1] = "full"
        /\ AddrSection' = Append(AddrSection, [section_index |-> k + 1])
        /\ pdb' = pdb /\ phase' = "streams"
    BY <1>4, <2>1 DEF ReadSectionHeader, AtFullHeader
  <2>3. /\ Len(AddrSection') = k + 1
        /\ \A i \in 1..k : AddrSection'[i] = AddrSection[i]
        /\ AddrSection'[k + 1] = [section_index |-> k + 1]
    BY <1>1, <2>1, <2>2
  <2>4. \A i \in 1..(k + 1) :
          pdb.headers[i] = "full" /\ AddrSection'[i] = [section_index |-> i]
    <3>1. \A i \in 1..k : /\ pdb.headers[i] = "full"
                          /\ AddrSection[i] = [section_index |-> i]
      BY <2>1 DEF HeadersCopied, HeaderRows
    <3>2. \A i \in 1..(k + 1) : i \in 1..k \/ i = k + 1
      OBVIOUS
    <3> QED
      BY <2>2, <2>3, <3>1, <3>2
  <2>5. HeaderRows(pdb', AddrSection')
    BY <1>1, <2>2, <2>3, <2>4 DEF HeaderRows
  <2> QED
    BY <2>2, <2>5 DEF HeadersCopied
<1>5. CASE EndStreams
  BY <1>1, <1>5 DEF EndStreams, HeadersCopied, AtFullHeader, result, history
<1>6. CASE OpenTable \/ SkipTable \/ EndTables \/ EnumTablesFails \/ TableFails
  BY <1>6, <1>2 DEF OpenTable, SkipTable, EndTables, EnumTablesFails, TableFails,
     result, history
<1>7. CASE FetchBatch \/ FetchNothing \/ FetchFails
  BY <1>7, <1>2 DEF FetchBatch, FetchNothing, FetchFails, result, history
<1>8. CASE ReadSymbol
  BY <1>8, <1>2 DEF ReadSymbol, ReadCompilandSymbol, ReadCompilandDetailsSymbol,
     ReadUDTSymbol, ReadDedicatedSymbol, ReadIgnoredSymbol, Symbolic, Element, history
<1>9. CASE ReadLines \/ ReadSourceFile \/ ReadSourceFails \/ EmplaceItem
  BY <1>9, <1>2 DEF ReadLines, ReadSourceFile, ReadSourceFails, ReadSource,
     EmplaceItem, Element, history
<1>10. CASE UNCHANGED vars
  BY <1>10, <1>2 DEF vars, result, history
<1> QED
  BY <1>3, <1>4, <1>5, <1>6, <1>7, <1>8, <1>9, <1>10 DEF Next, Progress, Fault

\* A step that hands on no element changes neither the cursors of the tables
\* nor the rows of the source files and of the plain tables; one that does
\* belongs to one table.
LEMMA StepKinds ==
  ASSUME TypeOK, Cursor, [Next]_vars
  PROVE  \/ /\ pdb' = pdb /\ read' = read
            /\ UNCHANGED <<SourceFile, Plain>>
         \/ /\ ReadSymbol \/ ReadLines
            /\ \E n \in {"Symbols", "LineNumbers"} : Element(n)
            /\ UNCHANGED <<SourceFile, Plain>>
         \/ /\ ReadSourceFile \/ ReadSourceFails
            /\ Element("SourceFiles")
            /\ SourceFile' = Append(SourceFile, nextFile.id)
            /\ UNCHANGED Plain
         \/ /\ EmplaceItem
            /\ UNCHANGED SourceFile
<1>1. CASE LoadFails \/ SourceIsNull \/ LoadSucceeds \/ SessionIsNull \/ StreamsFail
  BY <1>1 DEF LoadFails, SourceIsNull, LoadSucceeds, SessionIsNull, StreamsFail,
     result, control
<1>2. CASE ReadSectionHeader \/ EndStreams
  BY <1>2 DEF ReadSectionHeader, EndStreams, result, control
<1>3. CASE OpenTable \/ SkipTable \/ EndTables \/ EnumTablesFails \/ TableFails
  BY <1>3 DEF OpenTable, SkipTable, EndTables, EnumTablesFails, TableFails,
     result, control
<1>4. CASE FetchBatch \/ FetchNothing \/ FetchFails
  BY <1>4 DEF FetchBatch, FetchNothing, FetchFails, result, control
<1>5. CASE ReadSymbol
  BY <1>5 DEF ReadSymbol, ReadCompilandSymbol, ReadCompilandDetailsSymbol,
     ReadUDTSymbol, ReadDedicatedSymbol, ReadIgnoredSymbol, Symbolic
<1>6. CASE ReadLines
  BY <1>6 DEF ReadLines
<1>7. CASE ReadSourceFile \/ ReadSourceFails
  BY <1>7 DEF ReadSourceFile, ReadSourceFails, ReadSource
<1>8. CASE EmplaceItem
  BY <1>8 DEF EmplaceItem
<1>9. CASE UNCHANGED vars
  BY <1>9 DEF vars, result, control
<1> QED
  BY <1>1, <1>2, <1>3, <1>4, <1>5, <1>6, <1>7, <1>8, <1>9 DEF Next, Progress, Fault

\* A handler leaves the cursors of the other tables alone.
LEMMA OtherCursors ==
  ASSUME TypeOK, Cursor, NEW n \in TableNames, Element(n),
         NEW m \in TableNames, m # n
  PROVE  read'[m] = read[m]
  BY NextElement DEF TypeOK, ControlOK

\* ReadSource appends the file it was given.
LEMMA FilesStep ==
  ASSUME TypeOK, Cursor, FilesCopied, [Next]_vars
  PROVE  FilesCopied'
<1>0. /\ SourceFile \in Seq(Nat) /\ "SourceFiles" \in TableNames /\ ControlOK
      /\ {"Symbols", "LineNumbers"} \subseteq TableNames
      /\ EmplaceTables \subseteq TableNames \ {"SourceFiles"}
  BY DEF TypeOK, RowsOK, TableNames, EmplaceTables
<1>1. CASE /\ read'["SourceFiles"] = read["SourceFiles"]
           /\ UNCHANGED <<pdb, SourceFile>>
  BY <1>1 DEF FilesCopied
<1>2. CASE /\ Element("SourceFiles")
           /\ SourceFile' = Append(SourceFile, nextFile.id)
  <2>1. PICK k \in Nat : k = read["SourceFiles"]
    BY <1>0, <1>2, NextElement
  <2>2. /\ read'["SourceFiles"] = k + 1 /\ pdb' = pdb
    BY <1>0, <1>2, <2>1, NextElement DEF ControlOK
  <2>3. /\ Len(SourceFile) = k
        /\ SourceFile' = Append(SourceFile, pdb.files[k + 1].id)
    BY <1>2, <2>1 DEF FilesCopied, nextFile
  <2>4. /\ Len(SourceFile') = k + 1
        /\ \A i \in 1..k : SourceFile'[i] = SourceFile[i]
        /\ SourceFile'[k + 1] = pdb.files[k + 1].id
    BY <1>0, <2>3
  <2>5. \A i \in 1..(k + 1) : SourceFile'[i] = pdb.files[i].id
    BY <2>1, <2>4 DEF FilesCopied
  <2> QED
    BY <2>2, <2>4, <2>5 DEF FilesCopied
<1>3. CASE \E n \in {"Symbols", "LineNumbers"} \cup EmplaceTables :
             Element(n) /\ SourceFile' = SourceFile
  BY <1>0, <1>1, <1>3, OtherCursors DEF Element
<1>4. CASE EmplaceItem /\ SourceFile' = SourceFile
  BY <1>3, <1>4 DEF EmplaceItem
<1> QED
  BY <1>1, <1>2, <1>3, <1>4, StepKinds

\* EmplaceItem appends the element it was given to its own table.
LEMMA PlainStep ==
  ASSUME TypeOK, Cursor, \A n \in EmplaceTables : PlainCopied(n), [Next]_vars
  PROVE  (\A n \in EmplaceTables : PlainCopied(n))'
<1>0. /\ Plain \in [EmplaceTables -> Seq(Nat)] /\ ControlOK
      /\ {"Symbols", "LineNumbers", "SourceFiles"} \subseteq TableNames \ EmplaceTables
      /\ EmplaceTables \subseteq TableNames
  BY DEF TypeOK, RowsOK, TableNames, EmplaceTables
<1>1. SUFFICES ASSUME NEW m \in EmplaceTables
               PROVE  PlainCopied(m)'
  OBVIOUS
<1>2. CASE read'[m] = read[m] /\ pdb' = pdb /\ Plain'[m] = Plain[m]
  BY <1>2 DEF PlainCopied
<1>3. CASE \E n \in {"Symbols", "LineNumbers", "SourceFiles"} :
             Element(n) /\ Plain' = Plain
  BY <1>0, <1>2, <1>3, OtherCursors DEF Element
<1>4. CASE EmplaceItem
  <2>1. PICK n \in EmplaceTables :
          /\ Element(n)
          /\ Plain' = [Plain EXCEPT ![n] = Append(@, pdb.plain[n][read[n] + 1])]
    BY <1>4 DEF EmplaceItem
  <2>2. CASE n # m
    BY <1>0, <1>2, <2>1, <2>2, OtherCursors DEF Element
  <2>3. CASE n = m
    <3>1. PICK k \in Nat : k = read[m]
      BY <1>0, <2>1, <2>3, NextElement
    <3>2. read'[m] = k + 1 /\ pdb' = pdb
      BY <1>0, <2>1, <2>3, <3>1, NextElement DEF ControlOK
    <3>3. /\ Plain[m] \in Seq(Nat) /\ Len(Plain[m]) = k
          /\ \A i \in 1..k : Plain[m][i] = pdb.plain[m][i]
      BY <1>0, <3>1 DEF PlainCopied
    <3>4. PICK x : x = pdb.plain[m][k + 1]
      OBVIOUS
    <3>5. Plain'[m] = Append(Plain[m], x)
      BY <1>0, <2>1, <2>3, <3>1, <3>4
    <3>6. /\ Len(Append(Plain[m], x)) = k + 1
          /\ \A i \in 1..k : Append(Plain[m], x)[i] = Plain[m][i]
          /\ Append(Plain[m], x)[k + 1] = x
      BY <3>3
    <3>7. \A i \in 1..(k + 1) : Append(Plain[m], x)[i] = pdb.plain[m][i]
      BY <3>3, <3>4, <3>6
    <3> QED
      BY <3>2, <3>5, <3>6, <3>7 DEF PlainCopied
  <2> QED
    BY <2>2, <2>3
<1> QED
  BY <1>2, <1>3, <1>4, StepKinds

\* A table that is opened is finished, or failed, when the next is looked for.
LEMMA FinishedStep ==
  ASSUME TypeOK, Cursor, TablesFinished, [Next]_vars
  PROVE  TablesFinished'
<1>0. /\ pdb \in Pdbs /\ Len(pdb.order) \in Nat /\ tab \in 0..Len(pdb.order)
      /\ faulted \in BOOLEAN /\ ControlOK
  BY PdbParts DEF TypeOK, ControlOK
<1>1. CASE faulted' = TRUE
  BY <1>1 DEF TablesFinished
<1>2. CASE LoadFails \/ SourceIsNull \/ SessionIsNull \/ StreamsFail \/ EnumTablesFails
           \/ TableFails \/ FetchFails \/ ReadSourceFails
  BY <1>1, <1>2 DEF LoadFails, SourceIsNull, SessionIsNull, StreamsFail,
     EnumTablesFails, TableFails, FetchFails, ReadSourceFails
<1>3. CASE LoadSucceeds \/ ReadSectionHeader \/ EndStreams
  <2>1. /\ tab = 0 /\ tab' = 0 /\ phase' \in {"streams", "tables"}
    BY <1>3 DEF LoadSucceeds, ReadSectionHeader, EndStreams, Cursor, control
  <2> QED
    BY <2>1 DEF TablesFinished
<1>4. CASE OpenTable
  BY <1>0, <1>4 DEF OpenTable, TablesFinished, history
<1>5. CASE SkipTable
  BY <1>0, <1>5 DEF SkipTable, TablesFinished, history
<1>6. CASE EndTables
  BY <1>0, <1>6 DEF EndTables, TablesFinished, history, control
<1>7. CASE FetchBatch
  BY <1>0, <1>7 DEF FetchBatch, TablesFinished, history
<1>8. CASE FetchNothing
  <2>1. /\ read[current] = Len(ItemsOf(pdb, current))
        /\ current = pdb.order[tab]
    BY <1>8 DEF FetchNothing, Cursor, items, current
  <2> QED
    BY <1>0, <1>8, <2>1 DEF FetchNothing, TablesFinished, history, control
<1>9. ASSUME NEW n \in TableNames, Element(n), faulted' = faulted
      PROVE  TablesFinished'
  <2>1. /\ pdb' = pdb /\ tab' = tab /\ phase' \in {"batch", "rows"}
        /\ phase = "rows" /\ pdb.order[tab] = n /\ tab > 0
    BY <1>0, <1>9 DEF Element, current, ControlOK
  <2>2. DistinctTables(pdb)
    BY <1>0, PdbParts
  <2>3. ASSUME NEW i \in 1..tab, pdb.order[i] \in TableNames, i # tab
        PROVE  read'[pdb.order[i]] = read[pdb.order[i]]
    <3>1. i \in 1..Len(pdb.order) /\ tab \in 1..Len(pdb.order)
      BY <1>0, <2>1
    <3>2. pdb.order[i] # n
      BY <2>1, <2>2, <2>3, <3>1 DEF DistinctTables
    <3> QED
      BY <1>9, <2>3, <3>2, OtherCursors
  <2> QED
    BY <1>9, <2>1, <2>3 DEF TablesFinished
<1>10. CASE ReadSymbol
  BY <1>9, <1>10 DEF ReadSymbol, ReadCompilandSymbol, ReadCompilandDetailsSymbol,
     ReadUDTSymbol, ReadDedicatedSymbol, ReadIgnoredSymbol, Symbolic, history,
     TableNames
<1>11. CASE ReadLines \/ ReadSourceFile \/ EmplaceItem
  BY <1>9, <1>11 DEF ReadLines, ReadSourceFile, ReadSource, EmplaceItem, history,
     TableNames
<1>12. CASE UNCHANGED vars
  BY <1>12 DEF vars, control, history, TablesFinished
<1> QED
  BY <1>2, <1>3, <1>4, <1>5, <1>6, <1>7, <1>8, <1>10, <1>11, <1>12
     DEF Next, Progress, Fault

\* What every proof of a copy starts from.
LEMMA Copied == Spec => [](TypeOK /\ Cursor /\ CopyInv /\ SymbolRowsFollowItems)
<1>1. Init => CopyInv
  BY InitCopied
<1>2. TypeOK /\ Cursor /\ CopyInv /\ [Next]_vars => CopyInv'
  BY SentinelStep, HeadersStep, FilesStep, PlainStep, FinishedStep DEF CopyInv
<1> QED
  BY <1>1, <1>2, Typed, SymbolsInOrder, PTL DEF Spec

\* A reader that is done, with no DIA call having failed, has read every table
\* DIA lists to its end.
THEOREM TablesReadToEnd == Spec => []ReadToEnd
<1>1. CopyInv => ReadToEnd
  BY DEF CopyInv, TablesFinished, ReadToEnd
<1> QED
  BY <1>1, Copied, PTL

-----------------------------------------------------------------------------
(* The rows of included. *)

\* ReadSourceFile is given a source file of the PDB.
LEMMA NextFile ==
  ASSUME TypeOK, Cursor, Element("SourceFiles")
  PROVE  /\ read["SourceFiles"] \in Nat
         /\ read'["SourceFiles"] = read["SourceFiles"] + 1
         /\ pdb' = pdb
         /\ nextFile = pdb.files[read["SourceFiles"] + 1]
         /\ nextFile \in FileItem
         /\ Len(nextFile.compilands) \in Nat
<1>1. ControlOK /\ pdb \in Pdbs /\ "SourceFiles" \in TableNames
  BY DEF TypeOK, ControlOK, TableNames
<1>2. read["SourceFiles"] + 1 \in 1..Len(pdb.files)
  BY <1>1, NextElement, ItemsOfParts
<1>3. nextFile \in FileItem
  BY <1>1, <1>2, PdbParts DEF nextFile
<1> QED
  BY <1>1, <1>3, NextElement DEF nextFile, FileItem, ControlOK

\* A step appends the rows of the next source file, or none; that a call failed
\* is not forgotten.
LEMMA IncludedSteps ==
  ASSUME TypeOK, Cursor, [Next]_vars
  PROVE  /\ faulted => faulted'
         /\ \/ /\ Element("SourceFiles")
               /\ SourceFile' = Append(SourceFile, nextFile.id)
               /\ \E n \in 0..Len(nextFile.compilands) :
                    /\ Included' = Included \o IncludedRows(nextFile, n)
                    /\ ~faulted' => n = Kept(Len(nextFile.compilands))
            \/ /\ read'["SourceFiles"] = read["SourceFiles"]
               /\ UNCHANGED <<pdb, SourceFile, Included>>
<1>1. /\ "SourceFiles" \in TableNames /\ {"Symbols", "LineNumbers"} \subseteq TableNames
      /\ EmplaceTables \subseteq TableNames \ {"SourceFiles"}
  BY DEF TableNames, EmplaceTables
<1>2. CASE LoadFails \/ SourceIsNull \/ LoadSucceeds \/ SessionIsNull \/ StreamsFail
  BY <1>2 DEF LoadFails, SourceIsNull, LoadSucceeds, SessionIsNull, StreamsFail,
     result, control, history
<1>3. CASE ReadSectionHeader \/ EndStreams
  BY <1>3 DEF ReadSectionHeader, EndStreams, result, control, history
<1>4. CASE OpenTable \/ SkipTable \/ EndTables \/ EnumTablesFails \/ TableFails
  BY <1>4 DEF OpenTable, SkipTable, EndTables, EnumTablesFails, TableFails,
     result, control, history
<1>5. CASE FetchBatch \/ FetchNothing \/ FetchFails
  BY <1>5 DEF FetchBatch, FetchNothing, FetchFails, result, control, history
<1>6. CASE ReadSymbol
  <2>1. Element("Symbols") /\ UNCHANGED <<SourceFile, Included, faulted>>
    BY <1>6 DEF ReadSymbol, ReadCompilandSymbol, ReadCompilandDetailsSymbol,
       ReadUDTSymbol, ReadDedicatedSymbol, ReadIgnoredSymbol, Symbolic, history
  <2> QED
    BY <1>1, <2>1, OtherCursors DEF Element
<1>7. CASE ReadLines
  <2>1. Element("LineNumbers") /\ UNCHANGED <<SourceFile, Included, faulted>>
    BY <1>7 DEF ReadLines, history
  <2> QED
    BY <1>1, <2>1, OtherCursors DEF Element
<1>8. CASE EmplaceItem
  <2>1. PICK t \in EmplaceTables :
          Element(t) /\ UNCHANGED <<SourceFile, Included, faulted>>
    BY <1>8 DEF EmplaceItem, history
  <2> QED
    BY <1>1, <2>1, OtherCursors DEF Element
<1>9. CASE ReadSourceFile \/ ReadSourceFails
  <2>1. Element("SourceFiles") /\ SourceFile' = Append(SourceFile, nextFile.id)
    BY <1>9 DEF ReadSourceFile, ReadSourceFails, ReadSource
  <2>2. PICK l \in Nat : l = Len(nextFile.compilands)
    BY <2>1, NextFile
  <2>3. CASE ReadSourceFile
    BY <2>1, <2>2, <2>3, Batches DEF ReadSourceFile, ReadSource
  <2>4. CASE ReadSourceFails
    BY <2>1, <2>2, <2>4, Batches DEF ReadSourceFails, ReadSource
  <2> QED
    BY <1>9, <2>3, <2>4
<1>10. CASE UNCHANGED vars
  BY <1>10 DEF vars, result, control, history
<1> QED
  BY <1>2, <1>3, <1>4, <1>5, <1>6, <1>7, <1>8, <1>9, <1>10 DEF Next, Progress, Fault

\* A sequence with another one behind it.
LEMMA Concatenated ==
  ASSUME NEW R, NEW old \in Seq(R), NEW new \in Seq(R)
  PROVE  /\ Len(old \o new) = Len(old) + Len(new)
         /\ \A i \in 1..Len(old) : (old \o new)[i] = old[i]
         /\ \A i \in 1..Len(new) : (old \o new)[Len(old) + i] = new[i]
  OBVIOUS

\* The rows of the files read before stay where they are.
LEMMA CutKept ==
  ASSUME NEW from \in Nat, NEW to \in Nat, NEW k, RowsOfFile(k, from, to),
         to <= Len(Included), Len(Included) \in Nat, faulted => faulted', pdb' = pdb,
         \A i \in 1..Len(Included) : Included'[i] = Included[i]
  PROVE  RowsOfFile(k, from, to)'
<1>1. ASSUME NEW i \in 1..(to - from) PROVE Included'[from + i] = Included[from + i]
  BY <1>1
<1> QED
  BY <1>1 DEF RowsOfFile, IncludedRows, Kept

\* A cut for each file read.
Cut(m, ends) ==
  /\ ends[0] = 0
  /\ ends[m] = Len(Included)
  /\ \A k \in 1..m : RowsOfFile(k, ends[k - 1], ends[k])

\* One file more, one cut more.
LEMMA IncludedStep ==
  ASSUME TypeOK, Cursor, IncludedFollowsFiles, [Next]_vars
  PROVE  IncludedFollowsFiles'
<1> DEFINE R == [compiland_symbol : Nat, source_id : Nat]
<1>1. /\ Included \in Seq(R) /\ SourceFile \in Seq(Nat)
      /\ faulted => faulted'
  BY IncludedSteps DEF TypeOK, RowsOK
<1>2. PICK m \in Nat : m = read["SourceFiles"]
  BY DEF TypeOK, ControlOK, TableNames
<1>3. PICK ends \in [0..m -> 0..Len(Included)] : Cut(m, ends)
  BY <1>2 DEF IncludedFollowsFiles, Cut
<1>4. PICK l \in Nat : l = Len(Included)
  BY <1>1
<1>5. PICK f \in Nat : f = Len(SourceFile)
  BY <1>1
<1>6. \A r \in 1..l : \E i \in 1..f : Included[r].source_id = SourceFile[i]
  <2>1. \A r \in DOMAIN Included : \E i \in DOMAIN SourceFile :
          Included[r].source_id = SourceFile[i]
    BY Zenon DEF IncludedFollowsFiles
  <2>2. DOMAIN Included = 1..l /\ DOMAIN SourceFile = 1..f
    BY <1>1, <1>4, <1>5
  <2> QED
    BY <2>1, <2>2, Zenon
<1>7. CASE /\ read'["SourceFiles"] = read["SourceFiles"]
           /\ UNCHANGED <<pdb, SourceFile, Included>>
  <2>1. ASSUME NEW k \in 1..m PROVE RowsOfFile(k, ends[k - 1], ends[k])'
    <3>1. /\ ends[k - 1] \in 0..l /\ ends[k] \in 0..l
          /\ RowsOfFile(k, ends[k - 1], ends[k])
      BY <1>3, <1>4 DEF Cut
    <3> QED
      <4>1. /\ ends[k - 1] \in Nat /\ ends[k] \in Nat /\ Len(Included) \in Nat
            /\ ends[k] <= Len(Included)
        BY <1>4, <3>1
      <4> QED
        BY <1>1, <1>7, <3>1, <4>1, CutKept
  <2>2. Cut(m, ends)'
    BY <1>3, <1>7, <2>1 DEF Cut
  <2> QED
    BY <1>1, <1>2, <1>3, <1>4, <1>5, <1>6, <1>7, <2>2 DEF IncludedFollowsFiles, Cut
<1>8. CASE /\ Element("SourceFiles")
           /\ SourceFile' = Append(SourceFile, nextFile.id)
           /\ \E n \in 0..Len(nextFile.compilands) :
                /\ Included' = Included \o IncludedRows(nextFile, n)
                /\ ~faulted' => n = Kept(Len(nextFile.compilands))
  <2>1. PICK n \in 0..Len(nextFile.compilands) :
          /\ Included' = Included \o IncludedRows(nextFile, n)
          /\ ~faulted' => n = Kept(Len(nextFile.compilands))
    BY <1>8
  <2>2. /\ read'["SourceFiles"] = m + 1 /\ pdb' = pdb
        /\ nextFile = pdb.files[m + 1] /\ nextFile \in FileItem
        /\ Len(nextFile.compilands) \in Nat /\ n \in Nat
    BY <1>2, <1>8, NextFile
  <2>0. IncludedRows(nextFile, n) \in Seq(R)
    BY <2>2, IncludedRowsType
  <2>3. /\ Len(Included') = l + n
        /\ \A i \in 1..l : Included'[i] = Included[i]
        /\ \A i \in 1..n : Included'[l + i] = IncludedRows(nextFile, n)[i]
        /\ \A i \in 1..n : Included'[l + i].source_id = nextFile.id
    <3>1. /\ Len(IncludedRows(nextFile, n)) = n
          /\ \A i \in 1..n : IncludedRows(nextFile, n)[i].source_id = nextFile.id
      BY <2>2 DEF IncludedRows
    <3> HIDE DEF R
    <3>2. PICK old \in Seq(R) : old = Included
      BY <1>1
    <3>3. PICK new \in Seq(R) : new = IncludedRows(nextFile, n)
      BY <2>0
    <3>4. Included' = old \o new
      BY <2>1, <3>2, <3>3
    <3>5. Len(old) = l /\ Len(new) = n
      BY <1>4, <3>1, <3>2, <3>3
    <3>6. /\ Len(old \o new) = l + n
          /\ \A i \in 1..l : (old \o new)[i] = old[i]
          /\ \A i \in 1..n : (old \o new)[l + i] = new[i]
      <4>1. /\ Len(old \o new) = Len(old) + Len(new)
            /\ \A i \in 1..Len(old) : (old \o new)[i] = old[i]
            /\ \A i \in 1..Len(new) : (old \o new)[Len(old) + i] = new[i]
        BY Concatenated
      <4> QED
        BY <3>5, <4>1
    <3> QED
      BY <3>1, <3>2, <3>3, <3>4, <3>6
  <2> DEFINE more == [j \in 0..(m + 1) |-> IF j = m + 1 THEN l + n ELSE ends[j]]
  <2>4. /\ more \in [0..(m + 1) -> 0..(l + n)]
        /\ more[0] = 0 /\ more[m] = l /\ more[m + 1] = l + n
        /\ \A k \in 1..m : more[k - 1] = ends[k - 1] /\ more[k] = ends[k]
    BY <1>3, <1>4, <2>2 DEF Cut
  <2> HIDE DEF more
  <2>5. ASSUME NEW k \in 1..m PROVE RowsOfFile(k, more[k - 1], more[k])'
    <3>1. /\ ends[k - 1] \in 0..l /\ ends[k] \in 0..l
          /\ RowsOfFile(k, ends[k - 1], ends[k])
      BY <1>3, <1>4 DEF Cut
    <3>2. RowsOfFile(k, ends[k - 1], ends[k])'
      <4>1. /\ ends[k - 1] \in Nat /\ ends[k] \in Nat /\ Len(Included) \in Nat
            /\ ends[k] <= Len(Included) /\ RowsOfFile(k, ends[k - 1], ends[k])
        BY <1>4, <3>1
      <4>2. /\ faulted => faulted'
            /\ pdb' = pdb
            /\ \A i \in 1..Len(Included) : Included'[i] = Included[i]
        BY <1>1, <1>4, <2>2, <2>3
      <4> QED
        BY <4>1, <4>2, CutKept
    <3>3. more' = more
      BY DEF more
    <3> QED
      BY <2>4, <3>2
  <2>6. RowsOfFile(m + 1, more[m], more[m + 1])'
    <3>1. (l + n) - l = n /\ pdb.files[m + 1] = nextFile
      BY <2>2
    <3>2. \A i \in 1..n : Included'[l + i] = IncludedRows(nextFile, n)[i]
      BY <2>3
    <3>3. ~faulted' => n = Kept(Len(pdb.files[m + 1].compilands))'
      BY <2>1, <2>2 DEF Kept
    <3> QED
      BY <2>2, <2>4, <3>1, <3>2, <3>3 DEF RowsOfFile
  <2>7. ASSUME NEW k \in 1..(m + 1) PROVE RowsOfFile(k, more[k - 1], more[k])'
    <3>1. CASE k \in 1..m
      BY <2>5, <3>1
    <3>2. CASE k = m + 1
      <4>1. k - 1 = m
        BY <3>2
      <4> QED
        BY <2>6, <3>2, <4>1 DEF RowsOfFile
    <3> QED
      BY <3>1, <3>2
  <2>8. /\ Len(SourceFile') = f + 1 /\ SourceFile' \in Seq(Nat)
        /\ \A i \in 1..f : SourceFile'[i] = SourceFile[i]
        /\ SourceFile'[f + 1] = nextFile.id
    BY <1>1, <1>5, <1>8, <2>2 DEF FileItem
  <2>9. ASSUME NEW r \in 1..(l + n)
        PROVE  \E i \in 1..(f + 1) : Included'[r].source_id = SourceFile'[i]
    <3>1. CASE r \in 1..l
      <4>1. PICK i \in 1..f : Included[r].source_id = SourceFile[i]
        BY <1>6, <3>1
      <4> QED
        BY <2>3, <2>8, <3>1, <4>1
    <3>2. CASE r \in (l + 1)..(l + n)
      <4>1. PICK i \in 1..n : l + i = r
        <5> r - l \in 1..n /\ l + (r - l) = r
          BY <3>2, <2>2
        <5> QED
          OBVIOUS
      <4>2. Included'[r].source_id = nextFile.id
        BY <2>3, <4>1
      <4> QED
        BY <2>8, <4>2
    <3> QED
      BY <2>2, <3>1, <3>2
  <2>10. DOMAIN Included' = 1..(l + n) /\ DOMAIN SourceFile' = 1..(f + 1)
    <3>1. Included' \in Seq(R)
      BY <1>1, <2>1, <2>2, IncludedRowsType
    <3> QED
      BY <2>3, <2>8, <3>1
  <2> QED
    BY <2>2, <2>3, <2>4, <2>7, <2>9, <2>10 DEF IncludedFollowsFiles
<1> QED
  BY <1>7, <1>8, IncludedSteps

\* The rows of included are those of one source file after the other, whatever
\* fails, and with S_OK for the last batch all of them where nothing does.
THEOREM IncludedInOrder == Spec => []IncludedFollowsFiles
<1>1. Init => IncludedFollowsFiles
  <2> SUFFICES ASSUME Init PROVE IncludedFollowsFiles
    OBVIOUS
  <2>1. read["SourceFiles"] = 0 /\ Included = <<>> /\ SourceFile = <<>>
    BY DEF Init, TableNames
  <2>2. [i \in 0..0 |-> 0] \in [0..0 -> 0..0] /\ [i \in 0..0 |-> 0][0] = 0
    OBVIOUS
  <2>3. Len(Included) = 0 /\ DOMAIN Included = {} /\ 1..0 = {}
    BY <2>1
  <2> QED
    BY <2>1, <2>2, <2>3 DEF IncludedFollowsFiles
<1>2. TypeOK /\ Cursor /\ IncludedFollowsFiles /\ [Next]_vars => IncludedFollowsFiles'
  BY IncludedStep
<1> QED
  BY <1>1, <1>2, Typed, PTL DEF Spec

-----------------------------------------------------------------------------
(* The refinement. *)

\* The four kinds of tables differ by name.
LEMMA CopiedNames ==
  /\ {"Headers", "Symbols", "SourceFiles"} \cap EmplaceTables = {}
  /\ EmplaceTables \subseteq CopiedTables
  /\ {"Headers", "Symbols", "SourceFiles"} \subseteq CopiedTables
  /\ CopiedTables \ {"Headers"} \subseteq TableNames
  BY DEF CopiedTables, EmplaceTables, TableNames

\* The rows of a file, table by table.
LEMMA FileRowsParts ==
  ASSUME NEW p \in Pdbs
  PROVE  /\ FileRows(p)["Headers"] =
              [i \in 1..FullHeaders(p) |-> [section_index |-> i]]
         /\ Listed(p, "Symbols") => FileRows(p)["Symbols"] =
              [i \in 1..Len(p.symbols) |-> SymbolRow(p.symbols[i])]
         /\ Listed(p, "SourceFiles") => FileRows(p)["SourceFiles"] =
              [i \in 1..Len(p.files) |-> p.files[i].id]
         /\ \A n \in EmplaceTables : Listed(p, n) => FileRows(p)[n] = p.plain[n]
         /\ \A n \in CopiedTables \ {"Headers"} :
              ~Listed(p, n) => FileRows(p)[n] = <<>>
<1>1. \A n \in CopiedTables : FileRows(p)[n] =
         IF n = "Headers" \/ Listed(p, n) THEN RowsOf(p, n) ELSE <<>>
  BY DEF FileRows
<1>2. /\ RowsOf(p, "Headers") = [i \in 1..FullHeaders(p) |-> [section_index |-> i]]
      /\ RowsOf(p, "Symbols") = [i \in 1..Len(p.symbols) |-> SymbolRow(p.symbols[i])]
      /\ RowsOf(p, "SourceFiles") = [i \in 1..Len(p.files) |-> p.files[i].id]
      /\ \A n \in EmplaceTables : RowsOf(p, n) = p.plain[n]
  BY CopiedNames DEF RowsOf
<1>3. /\ "Headers" \in CopiedTables /\ "Symbols" \in CopiedTables
      /\ "SourceFiles" \in CopiedTables /\ EmplaceTables \subseteq CopiedTables
      /\ "Headers" \notin EmplaceTables
  BY CopiedNames
<1> HIDE DEF RowsOf, Listed, FullHeaders
<1>4. FileRows(p)["Headers"] = RowsOf(p, "Headers")
  BY <1>1, <1>3
<1>5. \A n \in CopiedTables \ {"Headers"} :
        /\ Listed(p, n) => FileRows(p)[n] = RowsOf(p, n)
        /\ ~Listed(p, n) => FileRows(p)[n] = <<>>
  BY <1>1
<1> QED
  BY <1>2, <1>3, <1>4, <1>5

\* The rows of the result, table by table.
LEMMA ResultRowsParts ==
  /\ ResultRows["Headers"] = AddrSection
  /\ ResultRows["Symbols"] = IF Symbol = <<>> THEN <<>> ELSE Tail(Symbol)
  /\ ResultRows["SourceFiles"] = SourceFile
  /\ \A n \in EmplaceTables : ResultRows[n] = Plain[n]
<1>1. "Headers" \in CopiedTables /\ "Symbols" \in CopiedTables
      /\ "SourceFiles" \in CopiedTables
  BY CopiedNames
<1>2. ASSUME NEW n \in EmplaceTables
      PROVE  n \in CopiedTables /\ n \notin {"Headers", "Symbols", "SourceFiles"}
  BY CopiedNames
<1> QED
  BY <1>1, <1>2 DEF ResultRows, ResultOf

\* The steps of the copier, as the reader takes them.
LEMMA Stutters ==
  ASSUME ResultRows' = ResultRows, pdb' = pdb, faulted' = faulted,
         Ended' <=> Ended
  PROVE  UNCHANGED Copier!vars
  BY DEF Copier!vars, Ended

\* A failure that copies nothing.
LEMMA Fails ==
  ASSUME ResultRows' = ResultRows, pdb' = pdb, faulted' = TRUE, ~Ended
  PROVE  Copier!Fail
  BY DEF Copier!Fail, Ended

\* The next row of table n.
LEMMA Copies ==
  ASSUME NEW n \in CopiedTables,
         ~Ended, ~Ended', pdb' = pdb, faulted' \in {faulted, TRUE},
         Len(ResultRows[n]) < Len(FileRows(pdb)[n]),
         ResultRows' = [ResultRows EXCEPT
           ![n] = Append(@, FileRows(pdb)[n][Len(@) + 1])]
  PROVE  Copier!Copy(n)
<1>1. FileRows(pdb)' = FileRows(pdb)
  BY DEF FileRows, RowsOf, Listed, FullHeaders
<1>2. (phase \in {"done", "crashed"})' = (phase \in {"done", "crashed"})
  BY DEF Ended
<1> HIDE DEF FileRows, ResultRows
<1> QED
  BY <1>1, <1>2 DEF Copier!Copy, Ended

\* The end, with everything copied or something failed.
LEMMA Ends ==
  ASSUME ResultRows' = ResultRows, pdb' = pdb, faulted' = faulted,
         ~Ended, Ended', faulted \/ ResultRows = FileRows(pdb)
  PROVE  Copier!End
<1>1. FileRows(pdb)' = FileRows(pdb)
  BY DEF FileRows, RowsOf, Listed, FullHeaders
<1>2. (phase \in {"done", "crashed"})' = TRUE
  BY DEF Ended
<1> HIDE DEF FileRows, ResultRows
<1> QED
  BY <1>1, <1>2 DEF Copier!End, Ended

\* The same, table by table, in the step from one state to the next.
LEMMA CopiesRow ==
  ASSUME NEW n \in CopiedTables, NEW k \in Nat,
         ~Ended, ~Ended', pdb' = pdb, faulted' \in {faulted, TRUE},
         k = Len(ResultRows[n]), k < Len(FileRows(pdb)[n]),
         ResultRows'[n] = Append(ResultRows[n], FileRows(pdb)[n][k + 1]),
         \A m \in CopiedTables \ {n} : ResultRows'[m] = ResultRows[m]
  PROVE  Copier!Copy(n)
<1>1. /\ ResultRows = [m \in CopiedTables |-> ResultRows[m]]
      /\ ResultRows' = [m \in CopiedTables |-> ResultRows'[m]]
  <2>3. ResultRows = [m \in CopiedTables |-> ResultOf(m)]
    BY DEF ResultRows
  <2>4. ResultRows' = [m \in CopiedTables |-> ResultOf(m)']
    BY DEF ResultRows
  <2>1. ResultRows = [m \in CopiedTables |-> ResultRows[m]]
    BY <2>3
  <2>2. ResultRows' = [m \in CopiedTables |-> ResultRows'[m]]
    BY <2>4
  <2> QED
    BY <2>1, <2>2
<1>2. ResultRows' = [ResultRows EXCEPT
         ![n] = Append(@, FileRows(pdb)[n][Len(@) + 1])]
  <2> HIDE DEF ResultRows, FileRows
  <2> QED
    BY <1>1
<1> QED
  BY <1>2, Copies

\* What the tables of the result are after a step.
LEMMA ResultRowsNext ==
  /\ ResultRows'["Headers"] = AddrSection'
  /\ ResultRows'["Symbols"] = IF Symbol' = <<>> THEN <<>> ELSE Tail(Symbol')
  /\ ResultRows'["SourceFiles"] = SourceFile'
  /\ \A n \in EmplaceTables : ResultRows'[n] = Plain'[n]
<1>1. "Headers" \in CopiedTables /\ "Symbols" \in CopiedTables
      /\ "SourceFiles" \in CopiedTables
  BY CopiedNames
<1>2. ASSUME NEW n \in EmplaceTables
      PROVE  n \in CopiedTables /\ n \notin {"Headers", "Symbols", "SourceFiles"}
  BY CopiedNames
<1> QED
  BY <1>1, <1>2 DEF ResultRows, ResultOf

\* A step that leaves every vector of CopiedTables alone.
LEMMA SameRows ==
  ASSUME UNCHANGED <<AddrSection, Symbol, SourceFile, Plain>>
  PROVE  ResultRows' = ResultRows
  BY DEF ResultRows, ResultOf

\* A row appended behind the sentinel is appended to what follows it.
LEMMA TailRows ==
  ASSUME NEW S, NEW s \in Seq(S), s # <<>>, NEW e \in S
  PROVE  /\ Append(s, e) # <<>>
         /\ Tail(Append(s, e)) = Append(Tail(s), e)
         /\ Len(Tail(s)) \in Nat
         /\ Len(Tail(s)) + 1 = Len(s)
  OBVIOUS

\* The tables of the result, as the type invariant has them.
LEMMA RowsTyped ==
  ASSUME TypeOK
  PROVE  /\ pdb \in Pdbs /\ AddrSection \in Seq([section_index : Nat])
         /\ Symbol \in Seq([symbol : Nat, tag : Tags \cup {"Unknown"}])
         /\ SourceFile \in Seq(Nat) /\ Plain \in [EmplaceTables -> Seq(Nat)]
         /\ faulted \in BOOLEAN /\ ControlOK
  BY DEF TypeOK, ControlOK, RowsOK

\* ReadSectionHeader copies the next header.
LEMMA HeaderCopied ==
  ASSUME TypeOK, HeadersCopied, ReadSectionHeader
  PROVE  Copier!Copy("Headers")
<1>0. /\ pdb \in Pdbs /\ AddrSection \in Seq([section_index : Nat])
      /\ Len(pdb.headers) \in Nat
  BY RowsTyped, PdbParts
<1>1. PICK k \in Nat : k = Len(AddrSection)
  BY <1>0
<1>2. /\ k < Len(pdb.headers)
      /\ \A j \in 1..(k + 1) : pdb.headers[j] = "full"
      /\ AddrSection' = Append(AddrSection, [section_index |-> k + 1])
      /\ phase = "streams" /\ phase' = phase /\ pdb' = pdb /\ faulted' = faulted
      /\ UNCHANGED <<Symbol, SourceFile, Plain>>
  <2>1. k < Len(pdb.headers) /\ pdb.headers[k + 1] = "full"
    BY <1>1 DEF ReadSectionHeader, AtFullHeader
  <2>2. \A j \in 1..(k + 1) : pdb.headers[j] = "full"
    <3>1. \A j \in 1..k : pdb.headers[j] = "full"
      BY <1>1 DEF HeadersCopied, HeaderRows
    <3>2. \A j \in 1..(k + 1) : j \in 1..k \/ j = k + 1
      OBVIOUS
    <3> QED
      BY <2>1, <3>1, <3>2
  <2> QED
    BY <1>1, <2>1, <2>2 DEF ReadSectionHeader, history
<1>3. PICK f \in 0..Len(pdb.headers) : f = FullHeaders(pdb)
  BY <1>0, FullHeadersFound
<1>4. k < f
  <2>1. f < Len(pdb.headers) => pdb.headers[f + 1] # "full"
    BY <1>0, <1>3, FullHeadersFound
  <2>2. f <= k => f + 1 \in 1..(k + 1)
    BY <1>0, <1>3
  <2> QED
    BY <1>0, <1>2, <1>3, <2>1, <2>2
<1>5. FileRows(pdb)["Headers"] = [i \in 1..f |-> [section_index |-> i]]
  BY <1>0, <1>3, FileRowsParts
<1>6. /\ Len(FileRows(pdb)["Headers"]) = f
      /\ FileRows(pdb)["Headers"][k + 1] = [section_index |-> k + 1]
  BY <1>0, <1>3, <1>4, <1>5
<1>7. \A m \in CopiedTables \ {"Headers"} : ResultRows'[m] = ResultRows[m]
  BY <1>2, ResultRowsParts, ResultRowsNext DEF CopiedTables
<1>8. ~Ended /\ ~Ended'
  BY <1>2 DEF Ended
<1>9. /\ k = Len(ResultRows["Headers"])
      /\ ResultRows'["Headers"] =
           Append(ResultRows["Headers"], [section_index |-> k + 1])
  BY <1>1, <1>2, ResultRowsParts, ResultRowsNext
<1> QED
  BY <1>2, <1>4, <1>6, <1>7, <1>8, <1>9, CopiesRow, CopiedNames

\* A table that is being read is one that DIA lists.
LEMMA ReadIsListed ==
  ASSUME TypeOK, NEW n \in TableNames, Element(n)
  PROVE  Listed(pdb, n) /\ ~Ended /\ ~Ended'
<1>1. /\ pdb.order[tab] = n /\ tab \in 1..Len(pdb.order)
  BY PdbParts DEF TypeOK, ControlOK, Element, current
<1> QED
  BY <1>1 DEF Listed, Element, Ended

\* ReadSymbol copies the next symbol.
LEMMA SymbolCopied ==
  ASSUME TypeOK, Cursor, SentinelFirst, SymbolRowsFollowItems, ReadSymbol
  PROVE  Copier!Copy("Symbols")
<1>0. /\ pdb \in Pdbs /\ "Symbols" \in TableNames /\ ControlOK
      /\ pdb.symbols \in Seq(SymbolItem)
      /\ Symbol \in Seq([symbol : Nat, tag : Tags \cup {"Unknown"}])
  BY RowsTyped, PdbParts DEF TableNames
<1>1. /\ Element("Symbols")
      /\ Symbol' = Append(Symbol, SymbolRow(nextSymbol))
      /\ faulted' = faulted
      /\ UNCHANGED <<AddrSection, SourceFile, Plain>>
  BY DEF ReadSymbol, ReadCompilandSymbol, ReadCompilandDetailsSymbol,
     ReadUDTSymbol, ReadDedicatedSymbol, ReadIgnoredSymbol, Symbolic, SymbolRow, history
<1>2. PICK k \in Nat : k = read["Symbols"]
  BY <1>0, <1>1, NextElement
<1>3. /\ k + 1 \in 1..Len(pdb.symbols) /\ pdb' = pdb
      /\ nextSymbol = pdb.symbols[k + 1] /\ nextSymbol \in SymbolItem
  BY <1>0, <1>1, <1>2, NextSymbol, NextElement DEF nextSymbol
<1>4. SymbolRow(nextSymbol) \in [symbol : Nat, tag : Tags \cup {"Unknown"}]
  BY <1>3 DEF SymbolRow, SymbolItem
<1>5. Symbol # <<>> /\ Len(Symbol) = k + 1
  BY <1>1, <1>2 DEF SentinelFirst, SymbolRowsFollowItems, Element
<1>6. /\ ResultRows["Symbols"] = Tail(Symbol)
      /\ ResultRows'["Symbols"] = Append(Tail(Symbol), SymbolRow(nextSymbol))
      /\ Len(Tail(Symbol)) = k
  <2>1. /\ Symbol' # <<>> /\ Tail(Symbol') = Append(Tail(Symbol), SymbolRow(nextSymbol))
        /\ Len(Tail(Symbol)) \in Nat /\ Len(Tail(Symbol)) + 1 = Len(Symbol)
    BY <1>0, <1>1, <1>4, <1>5, TailRows
  <2> QED
    BY <1>5, <2>1, ResultRowsParts, ResultRowsNext
<1>7. Listed(pdb, "Symbols") /\ ~Ended /\ ~Ended'
  BY <1>0, <1>1, ReadIsListed
<1>8. FileRows(pdb)["Symbols"] =
         [i \in 1..Len(pdb.symbols) |-> SymbolRow(pdb.symbols[i])]
  BY <1>0, <1>7, FileRowsParts
<1>9. /\ k < Len(FileRows(pdb)["Symbols"])
      /\ FileRows(pdb)["Symbols"][k + 1] = SymbolRow(nextSymbol)
  <2> HIDE DEF SymbolRow
  <2>1. Len(pdb.symbols) \in Nat
    BY <1>0
  <2> QED
    BY <1>3, <1>8, <2>1
<1>10. \A m \in CopiedTables \ {"Symbols"} : ResultRows'[m] = ResultRows[m]
  BY <1>1, ResultRowsParts, ResultRowsNext DEF CopiedTables
<1>11. k = Len(ResultRows["Symbols"])
  BY <1>6
<1>12. ResultRows'["Symbols"] =
          Append(ResultRows["Symbols"], FileRows(pdb)["Symbols"][k + 1])
  BY <1>6, <1>9
<1> QED
  BY <1>1, <1>3, <1>7, <1>9, <1>10, <1>11, <1>12, CopiesRow, CopiedNames

\* ReadSource copies the next source file, whatever becomes of its compilands.
LEMMA FileCopied ==
  ASSUME TypeOK, Cursor, FilesCopied, ReadSourceFile \/ ReadSourceFails
  PROVE  Copier!Copy("SourceFiles")
<1>0. /\ pdb \in Pdbs /\ "SourceFiles" \in TableNames /\ ControlOK
      /\ pdb.files \in Seq(FileItem) /\ ItemsOf(pdb, "SourceFiles") = pdb.files
  BY RowsTyped, PdbParts, ItemsOfParts DEF TableNames
<1>1. /\ Element("SourceFiles")
      /\ SourceFile' = Append(SourceFile, nextFile.id)
      /\ faulted' \in {faulted, TRUE}
      /\ UNCHANGED <<AddrSection, Symbol, Plain>>
  BY DEF ReadSourceFile, ReadSourceFails, ReadSource
<1>2. PICK k \in Nat : k = read["SourceFiles"]
  BY <1>0, <1>1, NextElement
<1>3. /\ k + 1 \in 1..Len(pdb.files) /\ pdb' = pdb
      /\ nextFile = pdb.files[k + 1] /\ Len(SourceFile) = k
  BY <1>0, <1>1, <1>2, NextElement DEF nextFile, FilesCopied
<1>4. Listed(pdb, "SourceFiles") /\ ~Ended /\ ~Ended'
  BY <1>0, <1>1, ReadIsListed
<1>5. FileRows(pdb)["SourceFiles"] = [i \in 1..Len(pdb.files) |-> pdb.files[i].id]
  BY <1>0, <1>4, FileRowsParts
<1>6. /\ k < Len(FileRows(pdb)["SourceFiles"])
      /\ FileRows(pdb)["SourceFiles"][k + 1] = nextFile.id
  <2>1. Len(pdb.files) \in Nat
    BY <1>0
  <2> QED
    BY <1>3, <1>5, <2>1
<1>7. \A m \in CopiedTables \ {"SourceFiles"} : ResultRows'[m] = ResultRows[m]
  BY <1>1, ResultRowsParts, ResultRowsNext DEF CopiedTables
<1>8. /\ k = Len(ResultRows["SourceFiles"])
      /\ ResultRows'["SourceFiles"] =
           Append(ResultRows["SourceFiles"], FileRows(pdb)["SourceFiles"][k + 1])
  BY <1>1, <1>3, <1>6, ResultRowsParts, ResultRowsNext
<1> QED
  BY <1>1, <1>3, <1>4, <1>6, <1>7, <1>8, CopiesRow, CopiedNames

\* EmplaceItem copies the next element of its table.
LEMMA ItemCopied ==
  ASSUME TypeOK, Cursor, \A n \in EmplaceTables : PlainCopied(n), EmplaceItem
  PROVE  \E n \in CopiedTables : Copier!Copy(n)
<1>1. PICK n \in EmplaceTables :
        /\ Element(n)
        /\ Plain' = [Plain EXCEPT ![n] = Append(@, pdb.plain[n][read[n] + 1])]
        /\ UNCHANGED <<history, byTag, Symbol, SrcRange, SourceFile, Included,
                       AddrSection>>
  BY DEF EmplaceItem
<1>0. /\ pdb \in Pdbs /\ n \in TableNames /\ n \in CopiedTables /\ ControlOK
      /\ ItemsOf(pdb, n) = pdb.plain[n] /\ Plain \in [EmplaceTables -> Seq(Nat)]
      /\ pdb.plain[n] \in Seq(Nat)
  BY RowsTyped, PdbParts, ItemsOfParts, CopiedNames DEF TableNames
<1>2. PICK k \in Nat : k = read[n]
  BY <1>0, <1>1, NextElement
<1>3. k + 1 \in 1..Len(pdb.plain[n]) /\ pdb' = pdb /\ Len(Plain[n]) = k
  BY <1>0, <1>1, <1>2, NextElement DEF PlainCopied
<1>4. Listed(pdb, n) /\ ~Ended /\ ~Ended'
  BY <1>0, <1>1, ReadIsListed
<1>5. /\ FileRows(pdb)[n] = pdb.plain[n]
      /\ k < Len(FileRows(pdb)[n])
  <2>1. FileRows(pdb)[n] = pdb.plain[n]
    BY <1>0, <1>4, FileRowsParts
  <2>2. Len(pdb.plain[n]) \in Nat
    BY <1>0
  <2> QED
    BY <1>3, <2>1, <2>2
<1>6. /\ Plain'[n] = Append(Plain[n], pdb.plain[n][k + 1])
      /\ \A m \in EmplaceTables \ {n} : Plain'[m] = Plain[m]
  BY <1>0, <1>1, <1>2
<1>7. /\ UNCHANGED <<Symbol, SourceFile, AddrSection>> /\ faulted' = faulted
  BY <1>1 DEF history
<1>8. \A m \in CopiedTables \ {n} : ResultRows'[m] = ResultRows[m]
  BY <1>6, <1>7, ResultRowsParts, ResultRowsNext DEF CopiedTables
<1>9. /\ k = Len(ResultRows[n])
      /\ ResultRows'[n] = Append(ResultRows[n], FileRows(pdb)[n][k + 1])
  BY <1>3, <1>5, <1>6, ResultRowsParts, ResultRowsNext
<1> QED
  BY <1>0, <1>3, <1>4, <1>5, <1>7, <1>8, <1>9, CopiesRow

\* What follows the first row of a table.
LEMMA TailFunction ==
  ASSUME NEW S, NEW s \in Seq(S), NEW k \in Nat, Len(s) = k + 1
  PROVE  Tail(s) = [i \in 1..k |-> s[i + 1]]
<1>1. s # <<>>
  OBVIOUS
<1>2. /\ Tail(s) \in Seq(S) /\ Len(Tail(s)) = k
      /\ \A i \in 1..k : Tail(s)[i] = s[i + 1]
  BY <1>1
<1>3. ASSUME NEW t \in Seq(S), Len(t) = k
      PROVE  t = [i \in 1..k |-> t[i]]
  BY <1>3
<1>4. Tail(s) = [i \in 1..k |-> Tail(s)[i]]
  BY <1>2, <1>3
<1> QED
  BY <1>2, <1>4

\* A result that has the file's rows for every table has the file's rows.
LEMMA SameTables ==
  ASSUME NEW p, \A n \in CopiedTables : ResultRows[n] = FileRows(p)[n]
  PROVE  ResultRows = FileRows(p)
<1>1. ResultRows = [n \in CopiedTables |-> ResultOf(n)]
  BY DEF ResultRows
<1>2. FileRows(p) = [n \in CopiedTables |->
         IF n = "Headers" \/ Listed(p, n) THEN RowsOf(p, n) ELSE <<>>]
  BY DEF FileRows
<1> HIDE DEF Listed, RowsOf
<1>3. /\ ResultRows = [n \in CopiedTables |-> ResultRows[n]]
      /\ FileRows(p) = [n \in CopiedTables |-> FileRows(p)[n]]
  BY <1>1, <1>2
<1> QED
  BY <1>3

\* At the end of the table list, with no failure, everything has been copied.
LEMMA AllCopied ==
  ASSUME TypeOK, Cursor, CopyInv, SymbolRowsFollowItems,
         phase = "tables", tab = Len(pdb.order), ~faulted
  PROVE  ResultRows = FileRows(pdb)
<1>0. /\ pdb \in Pdbs /\ AddrSection \in Seq([section_index : Nat])
      /\ Symbol \in Seq([symbol : Nat, tag : Tags \cup {"Unknown"}])
      /\ SourceFile \in Seq(Nat) /\ Plain \in [EmplaceTables -> Seq(Nat)]
      /\ {"Symbols", "SourceFiles"} \subseteq TableNames
      /\ EmplaceTables \subseteq TableNames
  BY RowsTyped DEF TableNames
<1>1. ASSUME NEW n \in TableNames
      PROVE  /\ Listed(pdb, n) => read[n] = Len(ItemsOf(pdb, n))
             /\ ~Listed(pdb, n) => read[n] = 0
  BY DEF Listed, CopyInv, TablesFinished, Cursor
<1>2. AddrSection = FileRows(pdb)["Headers"]
  <2>0. Len(AddrSection) \in Nat /\ Len(pdb.headers) \in Nat
    BY <1>0, PdbParts
  <2>1. PICK k \in Nat : k = Len(AddrSection)
    BY <2>0
  <2>2. /\ k <= Len(pdb.headers)
        /\ \A i \in 1..k : /\ pdb.headers[i] = "full"
                           /\ AddrSection[i] = [section_index |-> i]
        /\ k < Len(pdb.headers) => pdb.headers[k + 1] # "full"
    BY <2>1 DEF CopyInv, HeadersCopied, HeaderRows, AtFullHeader
  <2>3. PICK f \in 0..Len(pdb.headers) : f = FullHeaders(pdb)
    BY <1>0, FullHeadersFound
  <2>4. /\ \A j \in 1..f : pdb.headers[j] = "full"
        /\ f < Len(pdb.headers) => pdb.headers[f + 1] # "full"
    BY <1>0, <2>3, FullHeadersFound
  <2>5. f = k
    <3>1. ~(k < f)
      <4>1. k < f => k + 1 \in 1..f /\ k < Len(pdb.headers)
        BY <2>0, <2>3
      <4> QED
        BY <2>2, <2>4, <4>1
    <3>2. ~(f < k)
      <4>1. f < k => f + 1 \in 1..k /\ f < Len(pdb.headers)
        BY <2>0, <2>2, <2>3
      <4> QED
        BY <2>2, <2>4, <4>1
    <3> QED
      BY <2>3, <3>1, <3>2
  <2>6. FileRows(pdb)["Headers"] = [i \in 1..k |-> [section_index |-> i]]
    BY <1>0, <2>3, <2>5, FileRowsParts
  <2>7. AddrSection = [i \in 1..k |-> AddrSection[i]]
    BY <1>0, <2>1
  <2> QED
    BY <2>2, <2>6, <2>7
<1>3. (IF Symbol = <<>> THEN <<>> ELSE Tail(Symbol)) = FileRows(pdb)["Symbols"]
  <2>1. PICK k \in Nat : k = read["Symbols"]
    BY <1>0 DEF TypeOK, ControlOK
  <2>2. /\ Symbol # <<>> /\ Len(Symbol) = k + 1
        /\ \A i \in 1..k : Symbol[i + 1] = SymbolRow(pdb.symbols[i])
    BY <2>1 DEF CopyInv, SentinelFirst, SymbolRowsFollowItems
  <2>3. Tail(Symbol) = [i \in 1..k |-> SymbolRow(pdb.symbols[i])]
    <3>1. Tail(Symbol) = [i \in 1..k |-> Symbol[i + 1]]
      BY <1>0, <2>2, TailFunction
    <3> QED
      BY <2>2, <3>1
  <2>4. CASE Listed(pdb, "Symbols")
    <3>1. k = Len(pdb.symbols)
      BY <1>0, <1>1, <2>1, <2>4, ItemsOfParts
    <3>2. FileRows(pdb)["Symbols"] =
            [i \in 1..Len(pdb.symbols) |-> SymbolRow(pdb.symbols[i])]
      BY <1>0, <2>4, FileRowsParts
    <3> HIDE DEF SymbolRow
    <3> QED
      BY <2>2, <2>3, <3>1, <3>2
  <2>5. CASE ~Listed(pdb, "Symbols")
    <3>1. FileRows(pdb)["Symbols"] = <<>> /\ k = 0
      BY <1>0, <1>1, <2>1, <2>5, FileRowsParts DEF CopiedTables
    <3>2. Tail(Symbol) = <<>>
      BY <2>3, <3>1
    <3> QED
      BY <2>2, <3>1, <3>2
  <2> QED
    BY <2>4, <2>5
<1>4. SourceFile = FileRows(pdb)["SourceFiles"]
  <2>1. PICK k \in Nat : k = read["SourceFiles"]
    BY <1>0 DEF TypeOK, ControlOK
  <2>2. SourceFile = [i \in 1..k |-> pdb.files[i].id]
    <3>1. SourceFile = [i \in 1..k |-> SourceFile[i]]
      BY <1>0, <2>1 DEF CopyInv, FilesCopied
    <3> QED
      BY <2>1, <3>1 DEF CopyInv, FilesCopied
  <2>3. CASE Listed(pdb, "SourceFiles")
    <3>1. k = Len(pdb.files)
      BY <1>0, <1>1, <2>1, <2>3, ItemsOfParts
    <3>2. FileRows(pdb)["SourceFiles"] = [i \in 1..Len(pdb.files) |-> pdb.files[i].id]
      BY <1>0, <2>3, FileRowsParts
    <3> QED
      BY <2>2, <3>1, <3>2
  <2>4. CASE ~Listed(pdb, "SourceFiles")
    <3>1. FileRows(pdb)["SourceFiles"] = <<>> /\ k = 0
      BY <1>0, <1>1, <2>1, <2>4, FileRowsParts DEF CopiedTables
    <3> QED
      BY <1>0, <2>1, <3>1 DEF CopyInv, FilesCopied
  <2> QED
    BY <2>3, <2>4
<1>5. ASSUME NEW n \in EmplaceTables
      PROVE  Plain[n] = FileRows(pdb)[n]
  <2>1. PICK k \in Nat : k = read[n]
    BY <1>0 DEF TypeOK, ControlOK
  <2>2. /\ Plain[n] \in Seq(Nat) /\ Len(Plain[n]) = k
        /\ \A i \in 1..k : Plain[n][i] = pdb.plain[n][i]
    BY <1>0, <2>1 DEF CopyInv, PlainCopied
  <2>3. CASE Listed(pdb, n)
    <3>1. /\ FileRows(pdb)[n] = pdb.plain[n] /\ k = Len(pdb.plain[n])
          /\ pdb.plain[n] \in Seq(Nat)
      BY <1>0, <1>1, <2>1, <2>3, FileRowsParts, ItemsOfParts, PdbParts
    <3>2. /\ Plain[n] = [i \in 1..k |-> Plain[n][i]]
          /\ pdb.plain[n] = [i \in 1..k |-> pdb.plain[n][i]]
      BY <2>2, <3>1
    <3> QED
      BY <2>2, <3>1, <3>2
  <2>4. CASE ~Listed(pdb, n)
    <3>1. FileRows(pdb)[n] = <<>> /\ k = 0
      BY <1>0, <1>1, <2>1, <2>4, FileRowsParts, CopiedNames
    <3> QED
      BY <2>2, <3>1
  <2> QED
    BY <2>3, <2>4
<1>6. \A n \in CopiedTables : ResultRows[n] = FileRows(pdb)[n]
  BY <1>2, <1>3, <1>4, <1>5, ResultRowsParts DEF CopiedTables
<1> QED
  BY <1>6, SameTables

\* Loading the file copies nothing: the row of symbol 0 is not one of its rows.
LEMMA LoadCopiesNothing ==
  ASSUME TypeOK, Cursor, SymbolRowsFollowItems, phase = "load",
         Symbol' = <<Sentinel>>, UNCHANGED <<AddrSection, SourceFile, Plain>>
  PROVE  ResultRows' = ResultRows
<1>1. read["Symbols"] = 0
  BY DEF Cursor, TypeOK, ControlOK, TableNames
<1>2. Symbol # <<>> => Tail(Symbol) = <<>>
  <2>1. SUFFICES ASSUME Symbol # <<>> PROVE Tail(Symbol) = <<>>
    OBVIOUS
  <2>2. /\ Len(Symbol) = 0 + 1
        /\ Symbol \in Seq([symbol : Nat, tag : Tags \cup {"Unknown"}])
    BY <1>1, <2>1, RowsTyped DEF SymbolRowsFollowItems
  <2>3. Tail(Symbol) = [i \in 1..0 |-> Symbol[i + 1]]
    BY <2>2, TailFunction
  <2> QED
    BY <2>3
<1>3. Symbol' # <<>> /\ Tail(Symbol') = <<>>
  OBVIOUS
<1>4. \A n \in CopiedTables : ResultRows'[n] = ResultRows[n]
  BY <1>2, <1>3, ResultRowsParts, ResultRowsNext DEF CopiedTables
<1>5. ResultRows = [m \in CopiedTables |-> ResultOf(m)]
  BY DEF ResultRows
<1>6. ResultRows' = [m \in CopiedTables |-> ResultOf(m)']
  BY DEF ResultRows
<1>7. /\ ResultRows = [m \in CopiedTables |-> ResultRows[m]]
      /\ ResultRows' = [m \in CopiedTables |-> ResultRows'[m]]
  BY <1>5, <1>6
<1> QED
  BY <1>4, <1>7

\* Every step of the reader is one of the copier's, or none.
LEMMA StepCopies ==
  ASSUME TypeOK, Cursor, CopyInv, SymbolRowsFollowItems, [Next]_vars
  PROVE  [Copier!Next]_(Copier!vars)
<1>1. CASE /\ ResultRows' = ResultRows /\ pdb' = pdb
           /\ faulted' = faulted /\ (Ended' <=> Ended)
  BY <1>1, Stutters
<1>2. CASE ResultRows' = ResultRows /\ pdb' = pdb /\ faulted' = TRUE /\ ~Ended
  BY <1>2, Fails DEF Copier!Next
<1>3. CASE \E n \in CopiedTables : Copier!Copy(n)
  BY <1>3 DEF Copier!Next
<1>4. CASE LoadSucceeds
  <2>1. /\ pdb' = pdb /\ faulted' = faulted /\ ~Ended /\ ~Ended'
        /\ phase = "load" /\ Symbol' = <<Sentinel>>
        /\ UNCHANGED <<AddrSection, SourceFile, Plain>>
    BY <1>4 DEF LoadSucceeds, Ended, history
  <2> QED
    BY <1>1, <2>1, LoadCopiesNothing
<1>5. CASE SessionIsNull
  <2>1. /\ pdb' = pdb /\ faulted' = TRUE /\ ~Ended
        /\ phase = "load" /\ Symbol' = <<Sentinel>>
        /\ UNCHANGED <<AddrSection, SourceFile, Plain>>
    BY <1>5 DEF SessionIsNull, Ended
  <2> QED
    BY <1>2, <2>1, LoadCopiesNothing
<1>6. CASE LoadFails \/ SourceIsNull \/ StreamsFail \/ EnumTablesFails \/ TableFails
           \/ FetchFails
  <2>1. /\ pdb' = pdb /\ faulted' = TRUE /\ ~Ended
        /\ UNCHANGED <<AddrSection, Symbol, SourceFile, Plain>>
    BY <1>6 DEF LoadFails, SourceIsNull, StreamsFail, EnumTablesFails, TableFails,
       FetchFails, Ended, result
  <2> QED
    BY <1>2, <2>1, SameRows
<1>7. CASE EndStreams \/ OpenTable \/ SkipTable \/ FetchBatch \/ FetchNothing
  <2>1. /\ pdb' = pdb /\ faulted' = faulted /\ ~Ended /\ ~Ended'
        /\ UNCHANGED <<AddrSection, Symbol, SourceFile, Plain>>
    BY <1>7 DEF EndStreams, OpenTable, SkipTable, FetchBatch, FetchNothing, Ended,
       result, history
  <2> QED
    BY <1>1, <2>1, SameRows
<1>8. CASE ReadLines
  <2>1. /\ pdb' = pdb /\ faulted' = faulted /\ ~Ended /\ ~Ended'
        /\ UNCHANGED <<AddrSection, Symbol, SourceFile, Plain>>
    BY <1>8 DEF ReadLines, Element, Ended, history
  <2> QED
    BY <1>1, <2>1, SameRows
<1>9. CASE ReadSectionHeader
  BY <1>3, <1>9, HeaderCopied, CopiedNames DEF CopyInv
<1>10. CASE ReadSymbol
  BY <1>3, <1>10, SymbolCopied, CopiedNames DEF CopyInv
<1>11. CASE ReadSourceFile \/ ReadSourceFails
  BY <1>3, <1>11, FileCopied, CopiedNames DEF CopyInv
<1>12. CASE EmplaceItem
  BY <1>3, <1>12, ItemCopied DEF CopyInv
<1>13. CASE EndTables
  <2>1. /\ pdb' = pdb /\ faulted' = faulted /\ ~Ended /\ Ended'
        /\ phase = "tables" /\ tab = Len(pdb.order)
        /\ UNCHANGED <<AddrSection, Symbol, SourceFile, Plain>>
    BY <1>13 DEF EndTables, Ended, result, history
  <2>2. ResultRows' = ResultRows
    BY <2>1, SameRows
  <2>3. faulted \/ ResultRows = FileRows(pdb)
    BY <2>1, AllCopied
  <2>4. Copier!End
    BY <2>1, <2>2, <2>3, Ends
  <2> QED
    BY <2>4 DEF Copier!Next
<1>14. CASE UNCHANGED vars
  <2>1. /\ pdb' = pdb /\ faulted' = faulted /\ Ended' = Ended
        /\ UNCHANGED <<AddrSection, Symbol, SourceFile, Plain>>
    BY <1>14 DEF vars, result, history, Ended
  <2> QED
    BY <1>1, <2>1, SameRows
<1> QED
  BY <1>4, <1>5, <1>6, <1>7, <1>8, <1>9, <1>10, <1>11, <1>12, <1>13, <1>14
     DEF Next, Progress, Fault

\* A reader that starts has copied nothing.
LEMMA StartsEmpty ==
  ASSUME Init
  PROVE  Copier!Init
<1>1. \A n \in CopiedTables : ResultRows[n] = <<>>
  BY ResultRowsParts DEF Init, CopiedTables
<1>2. ResultRows = [m \in CopiedTables |-> ResultOf(m)]
  BY DEF ResultRows
<1>3. ResultRows = [n \in CopiedTables |-> <<>>]
  BY <1>1, <1>2
<1> QED
  BY <1>3 DEF Copier!Init, Init

\* The reader implements the copier, for every PDB, every size of the batches
\* and every set of failures.
THEOREM ReaderCopies == Spec => ImplementsTableCopy
<1>1. Init => Copier!Init
  BY StartsEmpty
<1>2. TypeOK /\ Cursor /\ CopyInv /\ SymbolRowsFollowItems /\ [Next]_vars
        => [Copier!Next]_(Copier!vars)
  BY StepCopies
<1> QED
  BY <1>1, <1>2, Copied, PTL DEF Spec, ImplementsTableCopy, Copier!Spec
=============================================================================
