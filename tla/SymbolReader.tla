---------------------------- MODULE SymbolReader ----------------------------
(***************************************************************************)
(* The input engine: how drpdb walks a PDB through the DIA interfaces and  *)
(* fills the vectors of SymbolData (DIA2Input.cpp, DIACommon.h,            *)
(* DIA2Common.cpp).                                                        *)
(*                                                                         *)
(* DIA hands out tables one at a time, in an order of its own; each table  *)
(* is an enumerator that is drained in batches.  Every element of a batch  *)
(* goes to one handler.  The handlers share SymbolData: two of them append *)
(* to SrcRange, and CompilandDetails symbols patch rows that an earlier    *)
(* Compiland symbol created, found through SymCompilandMap.  Any DIA call  *)
(* that opens, lists or fetches may fail, and no failure is reported to    *)
(* the rest of the program.  The calls that name an element (symIndexId,   *)
(* symTag, lexicalParentId, uniqueId) are taken to answer; those that      *)
(* describe it are the subject of RecordBuild.                             *)
(***************************************************************************)
EXTENDS Integers, Sequences, FiniteSets

CONSTANTS
  Pdbs,          \* the PDBs the program may be given (see PdbType)
  Lines,         \* the source lines DIA may report
  NoLine,        \* getSrcLineOnTypeDefn found none
  NoDetails,     \* a compiland row that no details were appended to
  BatchSize,     \* elements asked of an enumerator at once (65536)
  IncludeBatch   \* compilands asked of a source file at once (64)

S_OK    == "S_OK"
S_FALSE == "S_FALSE"

\* The tables whose elements are appended as they come (emplace_helper).
EmplaceTables == {"Sections", "InjectedSource", "SegmentMap",
                  "InputAssemblyFiles", "FrameData"}
TableNames == {"Symbols", "LineNumbers", "SourceFiles"} \cup EmplaceTables

\* The tags of ReadSymbol's switch that have a vector of their own and append
\* one row to it, and the tags it names only to ignore.
DedicatedTags == {"Exe", "CompilandEnv", "Function", "Block", "Data", "Label",
  "PublicSymbol", "Enum", "FunctionType", "PointerType", "ArrayType",
  "BaseType", "Typedef", "BaseClass", "Friend", "FunctionArgType", "VTable",
  "Thunk", "CallSite", "InlineSite", "Export", "HeapAllocationSite"}
IgnoredTags == {"Annotation", "FuncDebugStart", "FuncDebugEnd",
  "UsingNamespace", "VTableShape", "Custom", "CustomType", "ManagedType",
  "Dimension", "BaseInterface", "VectorType", "MatrixType", "HLSLType",
  "Caller", "Callee", "CoffGroup"}
Tags == DedicatedTags \cup IgnoredTags
          \cup {"Compiland", "CompilandDetails", "UDT"}

\* What DIA reports of a symbol, of a source file and of a whole PDB; partial
\* is what its Next returns with a last, shorter batch.
SymbolItem == [id : Nat \ {0}, tag : Tags, parent : Nat,
               line : Lines \cup {NoLine}]
FileItem   == [id : Nat, compilands : Seq(Nat)]
PdbType    == [headers : Seq({"full", "short"}),
               order   : Seq(TableNames \cup {"other"}),
               symbols : Seq(SymbolItem),
               lines   : Seq(Lines),
               files   : Seq(FileItem),
               plain   : [EmplaceTables -> Seq(Nat)],
               partial : {S_OK, S_FALSE}]

\* A symIndexId names one symbol, a uniqueId one file; a table is enumerated at
\* most once.
DistinctIds(p) ==
  /\ \A i, j \in 1..Len(p.symbols) :
       p.symbols[i].id = p.symbols[j].id => i = j
  /\ \A i, j \in 1..Len(p.files) : p.files[i].id = p.files[j].id => i = j
DistinctTables(p) ==
  \A i, j \in 1..Len(p.order) :
    p.order[i] = p.order[j] /\ p.order[i] \in TableNames => i = j

ASSUME PdbsAssumption ==
  \A p \in Pdbs : p \in PdbType /\ DistinctIds(p) /\ DistinctTables(p)
ASSUME BatchAssumption ==
  BatchSize \in Nat \ {0} /\ IncludeBatch \in Nat \ {0}
ASSUME NoneAssumption == NoLine \notin Lines /\ NoDetails \notin SymbolItem

VARIABLES
  pdb,             \* the file being read
  phase,           \* where ReadSymbols is
  tab,             \* tables taken from the table enumerator so far
  got,             \* elements fetched from the current table's enumerator
  read,            \* elements of each table handed to its handler
  faulted,         \* history: some DIA call failed
  outOfBounds,     \* history: Result.Compiland[0] was used while empty
  Symbol, Compiland, UserType, SrcRange, SourceFile, Included, AddrSection,
  Dedicated,       \* the rows of all vectors of DedicatedTags, as appended
  Plain,           \* the rows of the EmplaceTables
  SymCompilandMap  \* symIndexId of a compiland |-> index into Compiland

control == <<tab, got, read>>
history == <<faulted, outOfBounds>>
byTag   == <<Compiland, UserType, Dedicated, SymCompilandMap>>
result  == <<byTag, Symbol, SrcRange, SourceFile, Included, AddrSection, Plain>>
vars    == <<pdb, phase, control, history, result>>

Phases == {"load", "streams", "tables", "batch", "rows", "done", "crashed"}

Sentinel == [symbol |-> 0, tag |-> "Unknown"]

Init ==
  /\ pdb \in Pdbs
  /\ phase = "load"
  /\ tab = 0
  /\ got = 0
  /\ read = [n \in TableNames |-> 0]
  /\ faulted = FALSE
  /\ outOfBounds = FALSE
  /\ Symbol = <<>>
  /\ Compiland = <<>>
  /\ UserType = <<>>
  /\ SrcRange = <<>>
  /\ SourceFile = <<>>
  /\ Included = <<>>
  /\ AddrSection = <<>>
  /\ Dedicated = <<>>
  /\ Plain = [n \in EmplaceTables |-> <<>>]
  /\ SymCompilandMap = <<>>

-----------------------------------------------------------------------------
(* Opening the file. *)

\* Neither loadDataFromPdb nor loadDataForExe accepts the file: load returns
\* false and ReadSymbols returns with every vector empty.
LoadFails ==
  /\ phase = "load"
  /\ phase' = "done"
  /\ faulted' = TRUE
  /\ UNCHANGED <<pdb, control, outOfBounds, result>>

\* The constructor ignores a failure to create the DIA object; load then
\* dereferences the null source.
SourceIsNull ==
  /\ phase = "load"
  /\ phase' = "crashed"
  /\ faulted' = TRUE
  /\ UNCHANGED <<pdb, control, outOfBounds, result>>

\* load returns true; ReadSymbols begins with the row of symbol 0.
LoadSucceeds ==
  /\ phase = "load"
  /\ phase' = "streams"
  /\ Symbol' = <<Sentinel>>
  /\ UNCHANGED <<pdb, control, history, byTag, SrcRange, SourceFile, Included,
                 AddrSection, Plain>>

\* load does not look at openSession's result; ReadStreams then uses a null
\* session.
SessionIsNull ==
  /\ phase = "load"
  /\ phase' = "crashed"
  /\ faulted' = TRUE
  /\ Symbol' = <<Sentinel>>
  /\ UNCHANGED <<pdb, control, outOfBounds, byTag, SrcRange, SourceFile,
                 Included, AddrSection, Plain>>

-----------------------------------------------------------------------------
(* ReadStreams: the SECTIONHEADERS stream, header by header. *)

AtFullHeader ==
  /\ Len(AddrSection) < Len(pdb.headers)
  /\ pdb.headers[Len(AddrSection) + 1] = "full"

ReadSectionHeader ==
  /\ phase = "streams"
  /\ AtFullHeader
  /\ AddrSection' = Append(AddrSection, [section_index |-> Len(AddrSection) + 1])
  /\ UNCHANGED <<pdb, phase, control, history, byTag, Symbol, SrcRange,
                 SourceFile, Included, Plain>>

EndStreams ==
  /\ phase = "streams"
  /\ ~AtFullHeader
  /\ phase' = "tables"
  /\ UNCHANGED <<pdb, control, history, result>>

\* The stream enumerator, or the header enumerator, fails: the loops end early.
StreamsFail ==
  /\ phase = "streams"
  /\ AtFullHeader
  /\ phase' = "tables"
  /\ faulted' = TRUE
  /\ UNCHANGED <<pdb, control, outOfBounds, result>>

-----------------------------------------------------------------------------
(* ReadTables and ReadTable: the tables, in DIA's order, batch by batch. *)

ItemsOf(p, n) == CASE n = "Symbols"       -> p.symbols
                   [] n = "LineNumbers"   -> p.lines
                   [] n = "SourceFiles"   -> p.files
                   [] n \in EmplaceTables -> p.plain[n]

current == pdb.order[tab]
items   == ItemsOf(pdb, current)

OpenTable ==
  /\ phase = "tables"
  /\ tab < Len(pdb.order)
  /\ pdb.order[tab + 1] \in TableNames
  /\ phase' = "batch"
  /\ tab' = tab + 1
  /\ got' = 0
  /\ UNCHANGED <<pdb, read, history, result>>

\* A table of another name is passed over.
SkipTable ==
  /\ phase = "tables"
  /\ tab < Len(pdb.order)
  /\ pdb.order[tab + 1] \notin TableNames
  /\ tab' = tab + 1
  /\ UNCHANGED <<pdb, phase, got, read, history, result>>

\* The table's QueryInterface fails: it is passed over as well.
TableFails ==
  /\ phase = "tables"
  /\ tab < Len(pdb.order)
  /\ pdb.order[tab + 1] \in TableNames
  /\ tab' = tab + 1
  /\ faulted' = TRUE
  /\ UNCHANGED <<pdb, phase, got, read, outOfBounds, result>>

EndTables ==
  /\ phase = "tables"
  /\ tab = Len(pdb.order)
  /\ phase' = "done"
  /\ UNCHANGED <<pdb, control, history, result>>

\* getEnumTables or the table enumerator fails: the tables left are not read.
EnumTablesFails ==
  /\ phase = "tables"
  /\ tab < Len(pdb.order)
  /\ phase' = "done"
  /\ faulted' = TRUE
  /\ UNCHANGED <<pdb, control, outOfBounds, result>>

AtMost(m, n) == IF m <= n THEN m ELSE n

\* Mutated FetchBatch: the loop runs to the size of the array, not numFetched.
FetchWholeArray ==
  /\ phase = "batch"
  /\ got < Len(items)
  /\ got' = got + BatchSize
  /\ phase' = "rows"
  /\ UNCHANGED <<pdb, tab, read, history, result>>

\* Next delivered numFetched > 0 elements; their result code is not looked at
\* beyond FAILED.
FetchBatch ==
  /\ phase = "batch"
  /\ got < Len(items)
  /\ got' = got + AtMost(BatchSize, Len(items) - got)
  /\ phase' = "rows"
  /\ UNCHANGED <<pdb, tab, read, history, result>>

\* Mutated FetchNothing: a short batch is taken for the end (HR != S_OK).
StopAtShortBatch ==
  /\ phase = "batch"
  /\ Len(items) - got < BatchSize
  /\ phase' = "tables"
  /\ UNCHANGED <<pdb, control, history, result>>

\* Mutated FetchNothing: only a failure ends the loop.
NeverStop ==
  /\ phase = "batch"
  /\ got = Len(items)
  /\ UNCHANGED vars

FetchNothing ==
  /\ phase = "batch"
  /\ got = Len(items)
  /\ phase' = "tables"
  /\ UNCHANGED <<pdb, control, history, result>>

\* FAILED(HR) leaves the loop as the end of the table does.
FetchFails ==
  /\ phase = "batch"
  /\ phase' = "tables"
  /\ faulted' = TRUE
  /\ UNCHANGED <<pdb, control, outOfBounds, result>>

\* One turn of the for loop over a fetched batch: the next element goes to
\* the handler of table n.
Element(n) ==
  /\ phase = "rows"
  /\ current = n
  /\ read' = [read EXCEPT ![n] = @ + 1]
  /\ phase' = IF read[n] + 1 = got THEN "batch" ELSE "rows"
  /\ UNCHANGED <<pdb, tab, got>>

-----------------------------------------------------------------------------
(* The handlers. *)

\* Mutated nextSymbol: every batch hands out the elements of the first.
firstBatchSymbol == pdb.symbols[(read["Symbols"] % BatchSize) + 1]

nextSymbol == pdb.symbols[read["Symbols"] + 1]

\* ReadSymbol appends to the master table before it looks at the tag.
Symbolic(tags) ==
  /\ Element("Symbols")
  /\ nextSymbol.tag \in tags
  /\ Symbol' = Append(Symbol, [symbol |-> nextSymbol.id, tag |-> nextSymbol.tag])
  /\ UNCHANGED <<SourceFile, Included, AddrSection, Plain>>

\* Mutated ReadCompilandSymbol: an entry that is there is kept (map::emplace).
KeepEntry ==
  /\ Symbolic({"Compiland"})
  /\ SymCompilandMap' =
       [c \in DOMAIN SymCompilandMap \cup {nextSymbol.id} |->
          IF c \in DOMAIN SymCompilandMap THEN SymCompilandMap[c] ELSE Len(Compiland)]
  /\ Compiland' = Append(Compiland,
                         [symbol |-> nextSymbol.id, details |-> NoDetails])
  /\ UNCHANGED <<history, UserType, Dedicated, SrcRange>>

ReadCompilandSymbol ==
  /\ Symbolic({"Compiland"})
  /\ SymCompilandMap' =
       [c \in DOMAIN SymCompilandMap \cup {nextSymbol.id} |->
          IF c = nextSymbol.id THEN Len(Compiland) ELSE SymCompilandMap[c]]
  /\ Compiland' = Append(Compiland,
                         [symbol |-> nextSymbol.id, details |-> NoDetails])
  /\ UNCHANGED <<history, UserType, Dedicated, SrcRange>>

\* operator[] of the map inserts 0 for a compiland it has not seen, so the
\* details of one that comes later land on row 0.  With no row at all the
\* write goes to reserved storage that the first Compiland's memset clears.
ReadCompilandDetailsSymbol ==
  LET c   == nextSymbol.parent
      idx == IF c \in DOMAIN SymCompilandMap THEN SymCompilandMap[c] ELSE 0
  IN /\ Symbolic({"CompilandDetails"})
     /\ SymCompilandMap' = [x \in DOMAIN SymCompilandMap \cup {c} |->
                              IF x = c THEN idx ELSE SymCompilandMap[x]]
     /\ IF idx < Len(Compiland)
          THEN /\ Compiland' = [Compiland EXCEPT ![idx + 1].details = nextSymbol]
               /\ UNCHANGED outOfBounds
          ELSE /\ outOfBounds' = TRUE
               /\ UNCHANGED Compiland
     /\ UNCHANGED <<faulted, UserType, Dedicated, SrcRange>>

\* Mutated ReadUDTSymbol: src_line is set after the range was appended.
SrcLineAfterEmplace ==
  LET id == Len(SrcRange)
  IN /\ Symbolic({"UDT"})
     /\ nextSymbol.line # NoLine
     /\ UserType' = Append(UserType, [symbol |-> nextSymbol.id, src_line |-> id + 1])
     /\ SrcRange' = Append(SrcRange, [id |-> id, line |-> nextSymbol.line])
     /\ UNCHANGED <<history, Compiland, Dedicated, SymCompilandMap>>

\* Mutated ReadUDTSymbol: the range is referred to and not appended.
UDTWithoutRange ==
  /\ Symbolic({"UDT"})
  /\ UserType' =
       Append(UserType, [symbol |-> nextSymbol.id, src_line |-> Len(SrcRange)])
  /\ UNCHANGED <<history, Compiland, Dedicated, SymCompilandMap, SrcRange>>

\* Mutated ReadUDTSymbol: the case of the switch lacks its break.
UDTFallsThrough ==
  /\ Symbolic({"UDT"})
  /\ UserType' = Append(UserType, [symbol |-> nextSymbol.id, src_line |-> 0])
  /\ Dedicated' = Append(Dedicated, [tag |-> "Enum", symbol |-> nextSymbol.id])
  /\ UNCHANGED <<history, Compiland, SymCompilandMap, SrcRange>>

ReadUDTSymbol ==
  LET id == Len(SrcRange)
  IN /\ Symbolic({"UDT"})
     /\ \/ /\ nextSymbol.line # NoLine
           /\ UserType' = Append(UserType, [symbol |-> nextSymbol.id, src_line |-> id])
           /\ SrcRange' = Append(SrcRange, [id |-> id, line |-> nextSymbol.line])
        \/ /\ nextSymbol.line = NoLine
           /\ UserType' = Append(UserType, [symbol |-> nextSymbol.id, src_line |-> 0])
           /\ UNCHANGED SrcRange
     /\ UNCHANGED <<history, Compiland, Dedicated, SymCompilandMap>>

\* symbol is the symbol that the row was made of: the row's key, but for Exe,
\* CompilandEnv and BaseClass, whose rows have none (there it is history).
ReadDedicatedSymbol ==
  /\ Symbolic(DedicatedTags)
  /\ Dedicated' = Append(Dedicated, [tag |-> nextSymbol.tag, symbol |-> nextSymbol.id])
  /\ UNCHANGED <<history, Compiland, UserType, SymCompilandMap, SrcRange>>

ReadIgnoredSymbol ==
  /\ Symbolic(IgnoredTags)
  /\ UNCHANGED <<history, byTag, SrcRange>>

\* Mutated ReadLines: the rows are numbered by the lines alone.
ReadLinesOwnCount ==
  /\ Element("LineNumbers")
  /\ SrcRange' = Append(SrcRange, [id   |-> read["LineNumbers"],
                                   line |-> pdb.lines[read["LineNumbers"] + 1]])
  /\ UNCHANGED <<history, byTag, Symbol, SourceFile, Included, AddrSection, Plain>>

ReadLines ==
  /\ Element("LineNumbers")
  /\ SrcRange' = Append(SrcRange, [id   |-> Len(SrcRange),
                                   line |-> pdb.lines[read["LineNumbers"] + 1]])
  /\ UNCHANGED <<history, byTag, Symbol, SourceFile, Included, AddrSection, Plain>>

nextFile == pdb.files[read["SourceFiles"] + 1]

FullBatches(n) == (n \div IncludeBatch) * IncludeBatch

\* The loop of ReadSource keeps a batch only when Next returns S_OK.
Kept(n) == IF pdb.partial = S_OK THEN n ELSE FullBatches(n)

IncludedRows(file, n) ==
  [i \in 1..n |-> [compiland_symbol |-> file.compilands[i],
                   source_id        |-> file.id]]

\* ReadSource, keeping the first n compilands of the file.
ReadSource(n) ==
  /\ Element("SourceFiles")
  /\ SourceFile' = Append(SourceFile, nextFile.id)
  /\ Included' = Included \o IncludedRows(nextFile, n)
  /\ UNCHANGED <<outOfBounds, byTag, Symbol, SrcRange, AddrSection, Plain>>

\* Mutated ReadSourceFile: a batch of fewer than IncludeBatch ends the loop.
ReadFullBatches ==
  /\ ReadSource(FullBatches(Len(nextFile.compilands)))
  /\ UNCHANGED faulted

ReadSourceFile ==
  /\ ReadSource(Kept(Len(nextFile.compilands)))
  /\ UNCHANGED faulted

\* get_compilands, or one of the Next calls, fails: the loop ends early.
ReadSourceFails ==
  /\ phase = "rows" /\ current = "SourceFiles"
  /\ \E k \in 0..(Len(nextFile.compilands) \div IncludeBatch) :
       ReadSource(k * IncludeBatch)
  /\ faulted' = TRUE

\* Mutated EmplaceItem: element(Fetched[0]) at every turn of the loop.
EmplaceFirstOfBatch ==
  \E n \in EmplaceTables :
    /\ Element(n)
    /\ Plain' = [Plain EXCEPT ![n] =
                   Append(@, pdb.plain[n][(read[n] \div BatchSize) * BatchSize + 1])]
    /\ UNCHANGED <<history, byTag, Symbol, SrcRange, SourceFile, Included,
                   AddrSection>>

EmplaceItem ==
  \E n \in EmplaceTables :
    /\ Element(n)
    /\ Plain' = [Plain EXCEPT ![n] = Append(@, pdb.plain[n][read[n] + 1])]
    /\ UNCHANGED <<history, byTag, Symbol, SrcRange, SourceFile, Included,
                   AddrSection>>

-----------------------------------------------------------------------------
ReadSymbol ==
  \/ ReadCompilandSymbol
  \/ ReadCompilandDetailsSymbol
  \/ ReadUDTSymbol
  \/ ReadDedicatedSymbol
  \/ ReadIgnoredSymbol

\* What the program does when the DIA calls succeed ...
Progress ==
  \/ LoadSucceeds
  \/ ReadSectionHeader \/ EndStreams
  \/ OpenTable \/ SkipTable \/ EndTables
  \/ FetchBatch \/ FetchNothing
  \/ ReadSymbol \/ ReadLines \/ ReadSourceFile \/ EmplaceItem

\* ... and when one does not.
Fault ==
  \/ LoadFails \/ SourceIsNull \/ SessionIsNull
  \/ StreamsFail
  \/ EnumTablesFails \/ TableFails \/ FetchFails
  \/ ReadSourceFails

Next == Progress \/ Fault

\* One thread runs the reader to its end, and DIA calls return; nothing makes
\* one of them fail.
Spec == Init /\ [][Next]_vars /\ WF_vars(Progress)

-----------------------------------------------------------------------------
(* Properties. *)

SymbolRow(s)    == [symbol |-> s.id, tag |-> s.tag]
CompilandRow    == [symbol : Nat, details : SymbolItem \cup {NoDetails}]
SrcRangeRow     == [id : Nat, line : Lines]
UserTypeRow     == [symbol : Nat, src_line : Nat]

ControlOK ==
  /\ pdb \in Pdbs
  /\ phase \in Phases
  /\ tab \in 0..Len(pdb.order)
  /\ got \in Nat
  /\ read \in [TableNames -> Nat]
  /\ faulted \in BOOLEAN
  /\ outOfBounds \in BOOLEAN
  /\ \A n \in TableNames : read[n] <= Len(ItemsOf(pdb, n))
  /\ phase \in {"batch", "rows"} =>
       /\ tab > 0
       /\ current \in TableNames
       /\ read[current] <= got
       /\ got <= Len(items)

RowsOK ==
  /\ Symbol \in Seq([symbol : Nat, tag : Tags \cup {"Unknown"}])
  /\ Compiland \in Seq(CompilandRow)
  /\ UserType \in Seq(UserTypeRow)
  /\ SrcRange \in Seq(SrcRangeRow)
  /\ SourceFile \in Seq(Nat)
  /\ Included \in Seq([compiland_symbol : Nat, source_id : Nat])
  /\ AddrSection \in Seq([section_index : Nat])
  /\ Dedicated \in Seq([tag : DedicatedTags, symbol : Nat])
  /\ Plain \in [EmplaceTables -> Seq(Nat)]
  /\ SymCompilandMap \in [DOMAIN SymCompilandMap -> Nat]
  /\ DOMAIN SymCompilandMap \subseteq Nat

\* Type correctness of the reader's state and of the vectors of SymbolData.  A
\* batch never reaches beyond its table: no handler is given a null element.
TypeOK == ControlOK /\ RowsOK

\* The master table is the sentinel row and then one row for each symbol that
\* was handed to ReadSymbol, in DIA's order: batching neither drops, repeats
\* nor reorders an element, and symbol 0 stays the row that a parent or type
\* of 0 refers to.
SymbolRowsFollowItems ==
  /\ Symbol = <<>> => read["Symbols"] = 0
  /\ Symbol # <<>> =>
       /\ Len(Symbol) = read["Symbols"] + 1
       /\ Symbol[1] = Sentinel
       /\ \A i \in 1..read["Symbols"] : Symbol[i + 1] = SymbolRow(pdb.symbols[i])

\* The column symbols.symbol, a PRIMARY KEY, has no duplicates.
SymbolKeyUnique ==
  \A i, j \in DOMAIN Symbol : Symbol[i].symbol = Symbol[j].symbol => i = j

\* src_lines.id, a PRIMARY KEY that both ReadLines and ReadUDTSymbol hand out,
\* is the row's position, whichever of the two tables DIA lists first.
SrcIdsDense == \A i \in DOMAIN SrcRange : SrcRange[i].id = i - 1

\* A user type with a source line refers to a row that holds that line, and
\* still does after any number of rows the other handlers append.
SrcLineIsOwn ==
  \A u \in DOMAIN UserType, k \in 1..read["Symbols"] :
    /\ pdb.symbols[k].id = UserType[u].symbol
    /\ pdb.symbols[k].line # NoLine
    => \E r \in DOMAIN SrcRange : /\ SrcRange[r].id = UserType[u].src_line
                                  /\ SrcRange[r].line = pdb.symbols[k].line

\* The details among the first n symbols of p that come before their compiland.
Strays(p, n) ==
  {k \in 1..n :
     /\ p.symbols[k].tag = "CompilandDetails"
     /\ \A j \in 1..(k - 1) : ~(/\ p.symbols[j].tag = "Compiland"
                               /\ p.symbols[j].id = p.symbols[k].parent)}

\* Details that come after their compiland reach its row, whatever strays DIA
\* lists before, between and behind them.  All that a stray can harm is the first
\* row, or the place of it while there is none.
DetailsReachOwnCompiland ==
  LET strays == Strays(pdb, read["Symbols"])
  IN /\ outOfBounds => strays # {}
     /\ \A r \in DOMAIN Compiland :
          Compiland[r].details # NoDetails =>
            \/ Compiland[r].details.parent = Compiland[r].symbol
            \/ r = 1 /\ strays # {}
     /\ \A k \in (1..read["Symbols"]) \ strays :
          pdb.symbols[k].tag = "CompilandDetails" =>
            \E r \in DOMAIN Compiland :
              /\ Compiland[r].symbol = pdb.symbols[k].parent
              /\ Compiland[r].details # NoDetails

SymbolsRead(tags) ==
  {k \in 1..read["Symbols"] : pdb.symbols[k].tag \in tags}

\* Every symbol read has one row in the table of its tag and none elsewhere,
\* and the rows of those tables have their entry in the master table.
OneRowPerSymbol ==
  LET Typed(tags, table) ==
        /\ \A k \in SymbolsRead(tags) :
             \E r \in DOMAIN table : table[r].symbol = pdb.symbols[k].id
        /\ \A r \in DOMAIN table :
             \E k \in SymbolsRead(tags) : table[r].symbol = pdb.symbols[k].id
        /\ \A q, r \in DOMAIN table : table[q].symbol = table[r].symbol => q = r
  IN /\ Typed({"Compiland"}, Compiland)
     /\ Typed({"UDT"}, UserType)
     /\ Typed(DedicatedTags, Dedicated)
     /\ \A r \in DOMAIN Dedicated : \E i \in DOMAIN Symbol :
          Symbol[i] = [symbol |-> Dedicated[r].symbol, tag |-> Dedicated[r].tag]

\* src_lines has a row for each line number read and one more for each user
\* type with a line: the double counting the comment in ReadUDTSymbol speaks
\* of, and nothing beyond it.
LinesCountedTwice ==
  \A l \in Lines :
    Cardinality({r \in DOMAIN SrcRange : SrcRange[r].line = l}) =
      Cardinality({k \in 1..read["LineNumbers"] : pdb.lines[k] = l})
      + Cardinality({k \in SymbolsRead({"UDT"}) : pdb.symbols[k].line = l})

\* The rows of included after the first from, and up to the to-th, are those of
\* the k-th source file: a prefix of the compilands that DIA lists for it, and
\* where nothing failed all of them, if a short batch comes with S_OK.
RowsOfFile(k, from, to) ==
  LET file == pdb.files[k]
      n    == to - from
  IN /\ n \in 0..Len(file.compilands)
     /\ ~faulted => n = Kept(Len(file.compilands))
     /\ \A i \in 1..n : Included[from + i] = IncludedRows(file, n)[i]

\* included can be cut into the rows of one source file after the other, with
\* nothing left over.  No row refers to a file that src_files lacks.
IncludedFollowsFiles ==
  /\ \E ends \in [0..read["SourceFiles"] -> 0..Len(Included)] :
       /\ ends[0] = 0
       /\ ends[read["SourceFiles"]] = Len(Included)
       /\ \A k \in 1..read["SourceFiles"] : RowsOfFile(k, ends[k - 1], ends[k])
  /\ \A r \in DOMAIN Included : \E i \in DOMAIN SourceFile :
       Included[r].source_id = SourceFile[i]

\* Nothing is lost quietly by the reader itself: when it is done and no DIA
\* call failed, every table DIA listed was read to its end.
ReadToEnd ==
  phase = "done" /\ ~faulted =>
    /\ tab = Len(pdb.order)
    /\ \A i \in 1..tab : pdb.order[i] \in TableNames =>
         read[pdb.order[i]] = Len(ItemsOf(pdb, pdb.order[i]))

\* The reader always comes to its end, whichever DIA calls fail.
Terminates == <>(phase \in {"done", "crashed"})

-----------------------------------------------------------------------------
(* The reader as a copier of tables. *)

Listed(p, n) == \E i \in 1..Len(p.order) : p.order[i] = n

\* The headers before the first that is short.
FullHeaders(p) ==
  CHOOSE k \in 0..Len(p.headers) :
    /\ \A j \in 1..k : p.headers[j] = "full"
    /\ k < Len(p.headers) => p.headers[k + 1] # "full"

CopiedTables == {"Headers", "Symbols", "SourceFiles"} \cup EmplaceTables

\* The rows that a file has for a table.
RowsOf(p, n) ==
  CASE n = "Headers"     -> [i \in 1..FullHeaders(p) |-> [section_index |-> i]]
    [] n = "Symbols"     -> [i \in 1..Len(p.symbols) |-> SymbolRow(p.symbols[i])]
    [] n = "SourceFiles" -> [i \in 1..Len(p.files) |-> p.files[i].id]
    [] n \in EmplaceTables -> p.plain[n]

\* Those that can be read: the rows of the tables that DIA lists.
FileRows(p) ==
  [n \in CopiedTables |->
     IF n = "Headers" \/ Listed(p, n) THEN RowsOf(p, n) ELSE <<>>]

\* The rows that SymbolData has for a table, without the row of symbol 0.
ResultOf(n) ==
  CASE n = "Headers"     -> AddrSection
    [] n = "Symbols"     -> IF Symbol = <<>> THEN <<>> ELSE Tail(Symbol)
    [] n = "SourceFiles" -> SourceFile
    [] n \in EmplaceTables -> Plain[n]

ResultRows == [n \in CopiedTables |-> ResultOf(n)]

Copier == INSTANCE TableCopy
  WITH Names  <- CopiedTables,
       source <- FileRows(pdb),
       table  <- ResultRows,
       ended  <- phase \in {"done", "crashed"},
       failed <- faulted

\* Seen from the output engine, ReadSymbols is a copier of tables: through all
\* its batches and switches each of these vectors stays a prefix of DIA's rows,
\* and it is the whole of them when the reader returned and no call failed.
ImplementsTableCopy == Copier!Spec
=============================================================================
