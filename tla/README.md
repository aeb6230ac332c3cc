# A verification development of drpdb

drpdb converts a Microsoft PDB file into tables: it walks the file through the
DIA interfaces, collects rows in memory (`SymbolData`), and hands them to one of
three output engines, MySQL, CSV or ODBC. This directory holds TLA+ modules that
model the program in `src/drpdb/src`, TLC configurations that check them on
small instances, and theorems about them whose proofs TLAPS checks.

All paths below are relative to `src/drpdb/src` unless they start with `src/`.

## The system

| Component | Code | State | Operations |
|---|---|---|---|
| Command line and `main` | `drpdb.cpp` | `gArgv`, `gErr`, the current directory, the two engine tables | `SetDirectoryToFile`, `getOption`, `getFlag`, `get_input_engine`, `get_output_engine`, the four modes, the exit status |
| Input engine | `DIA2Input.cpp`, `DIACommon.h`, `DIA2Common.cpp`, `SymbolData` in `drpdb.h` | the vectors of `SymbolData`, `SymCompilandMap`, the enumerators of DIA | `Provider::load`, `ReadStreams`, `ReadTables`, `ReadTable`, one handler per table, `ReadSymbol` with one handler per tag |
| Record constructors | `DIA2Input.cpp:11-1219` | a scratch variable per width, the row | one constructor per row type: getters, resets, assignments |
| MySQL engine | `MySQLOutput.cpp` | `UploadCommands`, the temporary files, the connection, the database | `init` (`GenerateProcedures`, `BuildTable`), `output` (`execute` until an error) |
| CSV engine | `CSVOutput.cpp`, `CSVWriter.h` | one file per table | header, rows, `bad()` |
| ODBC engine | `ODBCOutput.cpp` | handles, the command list, the database | constructor, `BuildTable`, `Send` |
| Schema writer | `SQL.cpp`, `SQLSchemaWriter.h` | none | `CreateTable`, column types |
| Reflection table | `PDBReflection.inl` | none (included data) | the fields of every row type, with their options |
| String helpers | `stringutils.h`, `wstrcvt` in `drpdb.h` | none | `replace`, `escape`, narrowing |
| `-doc` | `DIA2Doc.cpp` | the list of files, what was measured, `out.txt` | `Document`, `APITest`, `element` |
| `-wikidoc` | `WikiDoc.cpp` | none | prints the reflection table |
| Stored procedures | `src/config/mysql/*.sql` | in the server | executed by the user |
| MySQL connector | `src/mysql-connector-c-6.1.6-winx64` | vendored | external |

### How the parts interact

`main` chooses the engines, calls the input engine if `-in` is given, then calls
the output engine with `SymbolData`, and turns `gErr` (set by `set_error`) or an
exception message into the exit status. The program is sequential and has one
thread. What makes it hard lies at its edges:

* DIA decides the order of the tables, the order of the symbols, the size of the
  batches and which call fails; the code looks at failures only to end a loop.
* Two handlers append to `SrcRange`, and one handler patches a row that an
  earlier call of another handler created, found through `SymCompilandMap`.
* The record constructors share one scratch variable among dozens of getters and
  do not look at what a getter returned.
* The database and the temporary files outlive a run. A run that stops leaves
  them between two states; the next run, or a run at the same time, starts
  from there.
* An option's name is compared by a prefix of it, so the order of the arguments
  has a meaning.
* Three things are found by relative paths, from two different heights, and the
  current directory that they start from depends on what lies behind the end of a
  buffer.
* The texts of commands are cut and quoted by hand: offsets into a text that is
  changed in place, and characters that mean something else to the server.

### What makes each part correct

* **Input engine**: every table's rows are a copy of what was read; keys are
  unique; a reference to a row (`src_line`, `SymCompilandMap`) still denotes the
  same thing after whatever is appended later; the reader ends, and when no call
  failed it has read everything.
* **MySQL engine**: status 0 means that the tables hold what this run wrote; a run
  that stops damages at most the table in transit; what an earlier run left,
  a crashed one included, does not matter to a later one; nothing is dropped before
  every value is written.
* **`main`**: an option is what the user wrote; a refusal touches nothing; status
  0 means that what was read of the input is stored.
* **`-doc`**: what is measured does not depend on the order of files and symbols nor on the
  calls that are left out; a run that breaks off while it measures leaves the last report alone, and what is
  written later is true as far as it goes.
* **ODBC engine**: a statement that fails costs its own table.
* **Texts of commands**: what the server is sent is what the file, the description or the
  option says.
* **Record constructors**: a field of a row is the value its own getter
  delivered, or a defined default.
* **Schema writer and value writers**: the columns of `CREATE`, of `LOAD` and
  of the values agree, in number and in order, for every row type.

## The modules

| Module | Models | Extended by |
|---|---|---|
| `SymbolReader` | the input engine without the constructors' bodies | `MCSymbolReader`, `SymbolReaderProofs` |
| `TableCopy` | the promise of an input engine: a copier of tables | instantiated by `SymbolReader` |
| `SymbolReaderProofs` | the theorems about its control, keys and master table | `SymbolLinksProofs`, `SymbolCopyProofs` |
| `SymbolLinksProofs` | the theorems about the links between its tables, and what they hold of the symbols and lines read | |
| `SymbolCopyProofs` | `SymbolReader` implements `TableCopy` | |
| `MySQLOutput` | the MySQL engine, the files, the server, concurrent and successive runs | `MCMySQLOutput`, `MySQLOutputProofs` |
| `OutputEngine` | the promise of an output engine to `main` | instantiated by `MySQLOutput` and `Drpdb` |
| `MySQLOutputProofs` | its types, that files come before drops, what an undisturbed run leaves in its database, and that each run implements `OutputEngine` | |
| `SqlText` | `ParseProcedure`, `replace` and the quoted texts of the commands | `MCSqlText`, `SqlTextProofs` |
| `SqlTextProofs` | the theorems about it | |
| `Drpdb` | the command line and `main`, composed with the modes it calls | `MCDrpdb`, `DrpdbProofs` |
| `DrpdbProofs` | the theorems about it | |
| `ApiTest` | `-doc` | instantiated by `Drpdb` |
| `ODBCOutput` | `-out=odbc` | instantiated by `Drpdb` |
| `RecordBuild` | the constructors of the rows, getter by getter | `MCRecordBuild`, `RecordBuildProofs` |
| `RecordBuildProofs` | the theorems about it | |
| `TableWriter` | one table on its way out: the clauses of CREATE and LOAD, the values, and LOAD itself | `MCTableWriter`, `TableWriterProofs` |
| `TableWriterProofs` | the theorems about it | |

They meet where the code calls. `Drpdb` is the composition: the steps of `ApiTest` and
`ODBCOutput` are steps of `main` in the mode that calls them, and `mysql` and `csv` are
`OutputEngine`, which the run `mysql` shows to be what `MySQLOutput` promises, run by run; that csv
keeps it is assumed.
On the other side of `SymbolData` stands `TableCopy`, which `SymbolReader` implements: each
table is a prefix of the file's and the whole of it if nothing failed, which is what `data`
in `Drpdb` tells apart. The rows that `SymbolReader` appends are built by
`RecordBuild`; a table that `MySQLOutput` denotes by its run is written and read
back by `TableWriter`; the files and texts that its commands consist of are `SqlText`.
Keys are taken to be distinct in `TableWriter`, which `SymbolReader` shows of `symbols`
and `src_lines`.

### SymbolReader

A PDB is a record of what DIA would report: section headers, an order of
tables, symbols, line numbers, source files and the tables that are merely
copied. `Pdbs` is any set of such records; an assumption says what DIA
guarantees (a `symIndexId` names one symbol, a table is enumerated once).

State and code:

* `Symbol`, `Compiland`, `UserType`, `SrcRange`, `SourceFile`, `Included`,
  `AddrSection` are the vectors of the same name in `SymbolData`, reduced to the
  key and the references. `Dedicated` is all vectors to which `ReadSymbol`
  appends a row and nothing else, in the order of appending; `Plain` is the
  vectors of the tables that `emplace_helper` fills.
* `SymCompilandMap` is the `unordered_map` of the provider. Its `operator[]`
  inserts 0 for a key it has not seen, which `ReadCompilandDetailsSymbol`
  models, together with the use of row 0 of a vector that may be empty
  (`outOfBounds`).
* `phase`, `tab`, `got` and `read` stand for the position in the nested loops of
  `ReadSymbols`, `ReadStreams`, `ReadTables` and `ReadTable`.

One action is one turn of a loop: `OpenTable`, `FetchBatch`, and one action per
handler, each with the append to the master table `Symbol` that `ReadSymbol`
performs before its switch. `Fault` is the disjunction of the actions in which a
DIA call fails; each does what the code's early exit does, and `faulted` remembers
it. Two of them end in `crashed`: the code goes on with a null interface.

What is reported for the last, shorter batch is a field of the PDB, `partial`. `ReadTable`
keeps it in either case; the loop of `ReadSource` keeps a batch only on `S_OK`.

### MySQLOutput

`Runs` are invocations with settings of their own; any number of them is active at the
same time. The rows that run `r` writes are denoted by `r` itself, so "the table
holds the rows of run r" is `db[..][t] = r`. `Older` is what was there before,
`Torn` is anything partly written or mixed.

`init` is `Start`, then one `ReadProcedure` per file of `src/config/mysql`, then one
`WriteTable` (or `WriteTableFails`) per table, which appends DROP, CREATE and LOAD to
`UploadCommands` and writes the file of values, in one step: another run sees it before or after,
or torn where the writing fails or the run ends in the middle. `InitThrows` is every message that
`init` throws, that the current directory is too long to hold `temp` among them. `output` is `Connect` and one
`Execute`, `ExecuteRejected` or `ExecuteFails` per command. `Crash` ends a run at any
point. A command under way when the client ends was carried out, was
not, or, if it is a LOAD, was in part: the tables are MyISAM. It does so at the moment of
the crash; a command that the server completes after the next run has started is
not modelled.

`outPath` and `loadPath` are the two ways in which the code puts the name
of a temporary file together.

Seen by `main`, a run is `Engine(r)`, an instance of `OutputEngine`: `StoredBy(r)` reads the
database against what the run found and what it wrote, and `Excused(r)` is what a run may
blame: a fault, a directory without a separator at its end, another run.

### TableCopy and OutputEngine

The two abstract specifications are what `main` needs to know of its engines. `TableCopy`
copies rows, table by table in any order, may fail at any time, and ends when
everything is copied or something failed. `OutputEngine` refuses its options before it
touches the output, or works and returns; unless something failed it complains only when it
refuses, and returns without complaint only when all is written. Neither states
fairness: that the engines end is `Terminates` and `RunEnds`.

`SymbolReader` maps to the former by `ResultRows` (its vectors without the row of symbol 0)
and `FileRows` (what DIA would report of the tables it lists). The tables that two
handlers fill (`SrcRange`, `Included`) and the typed ones have properties of their own.

### SqlText

A text is a sequence of characters; `#then_execute` is two of them, the first of which
occurs in it once only, as in the original. `find` and `substr` are those of `std::string`, with
offsets from 0. `NextPiece` hands `substr` the offset `next` as a count, as the code does, and
`LastPieceThrows` is `std::out_of_range`. `ReplaceOne` is one turn of the loop of `replace`.
`Reading` is what MySQL makes of a quoted literal from each of its offsets on, up to the quote that
ends it, and `Meaning` what it makes of all of it. `Characters` is any set that holds those the code
and the server treat apart.

### Drpdb

A command line is a sequence of keys with values or without. A key is a sequence of
pieces, cut where another name ends, so that being a prefix can be said without
characters. `getOption` is the code's prefix comparison with the first match.

`SetDirectory` either changes to the directory of the program or fails to; the code looks
for the last backslash from the end of a buffer of which only the beginning was written
(`drpdb.cpp:130`). A place is where the program lies and where it was started from, and `Existing` are
the directories of an installation; the two decide whether `ApiTest` finds its files.

The input engine is reduced to what became of `SymbolData`. `OtherRun` is another process
that works on the same output. `EngineRefuses` is every message that mysql's `init` throws; of the
current directory being too long only that it may be, where no `-tempdir` is given, is modelled.

### ApiTest

A symbol is its tag and the getters that answer for it. `Measure` is `element` as a whole:
`default_measure` asks, in the order of the MEASURE lines, each getter that is not known for
the tag yet. `get_symTag` leaves 0 where it fails, so that what is measured goes to tag 0. A file
that does not load ends the process: the session is null (`LoadFails`). `OpenOut` empties `out.txt`
when all files are measured, and `WriteLine` adds one line for each tag. The list may be there and not
open, and so may the output (`ReadListFails`, `OpenOutFails`); a line that fails (`WriteLineFails`) leaves
any part of itself, and nothing comes after it, although the code goes on: the stream has failed. What tables and
symbols an enumerator hands out is `SymbolReader`'s subject; here their enumeration is
complete or ends early. `NewFor` is the loop of the MEASURE lines as a function of how many of them
were asked, and `Sorted` is `std::sort`: the arrangement of the names in their order.

### ODBCOutput

`BuildTable` writes any subset of the files, and lists DROP and CREATE. The commands alternate,
so the position `pc` says which one is next. Any of them may fail; the code
goes on.

### RecordBuild

A constructor asks DIA for one property after the other. Each answer passes
through a local variable, `DWORD D` or `BOOL B`, that many getters share, and the result
code is mostly not looked at. The module has one definition per constructor: the sequence of
its steps, such as `Take("D", <<"type_symbol">>)` for `get_typeId(&D); type_symbol = D;`,
`Fresh` for the same with `D = 0` before it, and `IfOk` where the result code is
looked at. One action per kind of step carries them out. `Ready` is what
the variable holds when the getter is called, and what it keeps if there is no answer.

A value is where it came from: the name of the field whose getter delivered it,
`Zero`, `Given` (a parameter of the constructor) or `Junk` (never initialised). A
field that holds another field's name holds an answer to another question.
What a getter without an answer does to its argument is not DIA's to promise: it keeps it or
clears it, and `clears` is chosen at the beginning for the whole element.

The columns come from `PDBReflection.inl`, so the model also says which of them no
statement assigns. `GetCase` is an answer that is stored in some cases only: the value of
`Data` by the type of the variant, the kind of a `UserType` by a `switch` without a
default. Compiland's constructor fills the whole struct with zeros, and `AppendDetails` starts from such a row. With `-noaddress` the getter of an address is not
called, which counts as having no answer.

### TableWriter

`schema_writer` and `CSV::writer` walk the members of a row type, each on its own.
`NumberColumn` to `BoolColumn` are the `operator<<` of the first, by the kind of
member; `WriteField` those of the second. `Result`, `Keys`, `LoadClause` and
`SetClause` are the strings of the same name as sequences of what they list; `out` is the
file. Characters that the formats treat apart are told apart, and everything written without
quotes is one character.

`ReadChar`, `Read`, `Converted` and `Loaded` are what the server, or another reader of the quoted
format with its backslash escapes, does with the file and the clauses; a reader that
knows none, as a spreadsheet is, keeps the backslashes, and no property is about it.
They are external, modelled after the options that `LoadTable` spells out
(line 121). A line whose key is already there would be dropped, and a text longer than
its `VARCHAR` is cut: `LoadsBack` is about distinct keys and up to the cut.

## The runs

| Run | Configuration | What it shows |
|---|---|---|
| `reader` | `SymbolReader.cfg` | keys, references and copies, for 1226 PDBs with any call failing; where a last, shorter batch comes with `S_FALSE`, exactly that batch of a source file's compilands is lost; the reader ends; it implements `TableCopy` |
| `mysql` | `MySQLOutput.cfg` | two runs, two tables, in any order or overlap, with every failure; each run implements `OutputEngine` |
| `mysql_procedures` | `MySQLProcedures.cfg` | the procedures are defined; every run ends |
| `mysql_stale_file` | `MySQLStaleFile.cfg` | violated: finding 1 |
| `mysql_temp_dir` | `MySQLTempDir.cfg` | violated: finding 2 |
| `text` | `SqlText.cfg` | procedure files and quoted texts reach the server as they are, or exactly when they do not; each turn of a loop comes nearer to its end |
| `main` | `Drpdb.cfg` | option lookup, the meaning of the exit status, `-doc` and `odbc`, in one composition |
| `main_doc` | `DrpdbDoc.cfg` | violated: finding 3 |
| `records` | `RecordBuild.cfg` | all 33 constructors, any two getters without an answer |
| `records_gaps` | `RecordsGaps.cfg` | violated: finding 4 |
| `records_sense` | `RecordsSense.cfg` | violated: finding 5 |
| `table` | `TableWriter.cfg` | the clauses agree, and what LOAD makes of the file is what was written |

Every run sets `CHECK_DEADLOCK FALSE`, because the program ends.

### Properties

`SymbolReader`: `SymbolRowsFollowItems` (the master table is the sentinel and the
symbols in order), `SrcIdsDense` and `SrcLineIsOwn` (ids that two
handlers hand out, and a reference to one of them), `DetailsReachOwnCompiland`
(details that follow their compiland reach its row, wherever others stray: `Strays` are those that come
before theirs, and all they can harm is the first row, or the place of it), `OneRowPerSymbol`,
`LinesCountedTwice`, `IncludedFollowsFiles`, `ReadToEnd`, `Terminates`,
`ImplementsTableCopy`. That the keys of the master table are distinct
(`SymbolKeyUnique`) is proved from the first.

`MySQLOutput`: `ExitZeroMeansLoaded`, `OneTableInTransit`, `NoFaultNoError`,
`FilesBeforeDrops`, `ImplementsOutputEngine`, `ProceduresDefined`, `RunEnds`. The first three speak of a run
that had its directory and its database for itself while it was active and whose
temporary files were written; what came before it is arbitrary.

`SqlText`: `ProceduresSent`, which is `OneSeparatorIsExact` (a procedure file is cut as it
should be exactly when it has at most one separator), `CommandsBeginRight` (with more of
them, only the ends of commands are wrong) and `ThrowsOnlyAtTheEnd`; `CommentReadsBack`, `PathReadsBack` (exactly the
directories without a quote survive); `LoopsAdvance`: a turn of a loop leaves less of the text
to look at, although `replace` makes it longer.

`Drpdb`: `OptionsResolved`, `OutdirNeverDefaults` (the argument that selects `csv` is a prefix
match for `-outdir` as well), `RefusalTouchesNothing`, `StoresWhatWasRead`
(status 0 means that `SymbolData` was written, and never tells whether it is the whole input), `Ends`, and the
properties of the modes in the composition: `SurveyIsWhole` (`MeasuredIsUnion`: a getter is
listed for a tag, once, exactly when it answered for some symbol with the tag, and `OutIsWhole`: the
earlier report is there until all files are measured; what is written then is true line by line, but for
the last line where the writing failed, and complete if nothing failed) and `OdbcGoesOn`.

`RecordBuild`: `AnswersReachTheirField` (a getter that fails damages its own field
only), `ValuesOfKnownOrigin`, which is `FreshRows` (17 constructors in which no value can
stray), `NoJunk` (6 more that at least initialise) and `OwnOrZero` (all of them, if DIA
clears), and `NoOtherGaps` (the columns never assigned are the known ones, `KnownGaps`).

`TableWriter`: `ColumnsAligned` (the same member at the same position in CREATE, LOAD
and SET), `LoadsBack` (LOAD gives the rows that were written), `CsvReadsBack` (the names of the members and the
text of every field).

### Findings

1. **A file of values that was not written is loaded** (`MySQLOutput.cpp:167`,
   `mysql_stale_file`). A stream that does not open is not noticed: the rows that the run before
   it left in the file enter the new table, and the status is 0.
2. **`-tempdir` without a final separator** (`MySQLOutput.cpp:110`, `mysql_temp_dir`).
   The values are written to one path and loaded from another, after the DROP.
3. **`-doc` and the installation** (`DIA2Doc.cpp:352`, `main_doc`). From the directory that the
   project builds to, `..\config\doc` is not where `config\mysql` is; the list of files is
   taken for empty and the results are written nowhere.
4. **Columns that are never assigned** (`DIA2Input.cpp:503`, `records_gaps`): both type
   references of an enumeration, `functions.exceptions`, `vtable_pointers.offset`, and
   `user_types.kind` for a kind that the `switch` of `DIA2Input.cpp:828` does not name.
5. **Columns with another sense than described** (`DIA2Input.cpp:114` and `:447`,
   `records_sense`): the length of a section contribution is 0 or 1, and
   `stack_ordering` is inverted.

Observed while modelling, without a sentence in the repository that says otherwise:

* A file that does not load replaces every table by an empty one, with status 0, and one
  whose reading fails on the way replaces them by parts (`drpdb.cpp:168`); `StoresWhatWasRead`
  says what the output is in either case.
* 0 stands for "no line" in `src_line` and is the id of the first row (`DIA2Input.cpp:824`).
* `-out=csv` answers for `-outdir` (`drpdb.cpp:17`). Without an `-outdir` before it, and as no
  separator is put between directory and name (`CSVOutput.cpp:52`), the files are
  `csv<table>.csv` in the current directory.
* A procedure file with a second `#then_execute` would be sent wrongly; none of the files in
  `config/mysql` has one (`MySQLOutput.cpp:201`).
* `CompilandDetails` that come before their `Compiland` patch the first row, or one behind the
  end of an empty vector (`DIA2Input.cpp:1400`).
* Two runs with the default temporary directory may load each other's rows
  (`MySQLOutput.cpp:107`).
* Where DIA leaves its argument alone, a function's `static_size` may be its
  `pgo_entry_count` (`DIA2Input.cpp:347-363`).
* The separator needs no escape between quotes, and is escaped (`stringutils.h:18`).

### Bounds, and why they are enough

* `BatchSize = 2` with up to three symbols, three lines or four copied elements
  reaches a full batch followed by a short one, by a full one and by an empty
  fetch; the real 65536 only changes where the batch ends. `IncludeBatch = 2` with up to four compilands does the same for `ReadSource`.
  The theorems hold for every batch size.
* Three symbols hold a compiland, its details and one symbol in between, before or
  after; `ScatteredPdbs` are four, with details before, between and behind the compilands they belong to
and those of others. "Function" stands for the tags that `ReadSymbol` treats alike, and
  "Annotation" for the ignored ones. The tables come in both orders.
* Two runs of the engine suffice for a predecessor that crashed and a successor, and
  for two at the same time; two tables suffice for one before and one after
  the table in transit at either end of the list. The second run's settings are the
  same, another directory, another database, or unsound.
* Command lines of two arguments are every pair out of sixteen; those of three are made of
  the names that share a beginning, so that an option, a prefix of it and one in between occur in
  every order; the complete lines of `mysql` have one argument more, at any place, `-pass` among them. `-doc` ignores
the other arguments, so its lines have one other at most.
* Two files and the program itself hold symbols of the same tag within a file and across
  files, with getters in common; three getters are listed in another order than their names.
  Two tables suffice for one whose statement fails and one whose statements do not.
* Procedure files have up to seven parts (separator, newline, another character): three separators with
  something between them, next to each other, and at both ends. Literals of up to six
  characters out of quote, backslash and one other hold every run of quotes and backslashes that
  the two rewriting steps can meet. Their sizes count characters, as the offsets of the code
  do.
* A stale value passes on over one getter without an answer, and over two; with
  `MaxFailures = 2` both occur in every constructor. A third changes nothing that the
  second did not: what a variable holds depends on the last answer only.
* What a text does to its neighbours depends on two adjacent characters, so all texts of up to
  two characters out of quote, backslash, both separators, newline and a letter that a
  backslash would change are enough; `Width = 1` cuts some of them. Two rows make a first and
  a last one. `ColumnsAligned` is proved for every row type.

### Fairness

`SymbolReader` has weak fairness on `Progress`: one thread runs the loops, and calls
into DIA return. Nothing forces a failure. `MySQLOutput` has weak fairness on
`Progress(r)` of each run: a process that was started is scheduled and its calls
return; nobody has to start a run and nothing has to fail. `Drpdb` has weak fairness
on `Step`, the one thread of `main`, and on `EngineReturns`, which rests on the two others:
an engine that works comes to its end (`Terminates`, `RunEnds`). Other runs (`OtherRun`) have
none. `SqlText` states none: `LoopsAdvance` and the bound that `TypeOK` puts on `pos` say that its loops end.

## The proofs

`SymbolReaderProofs` proves, for every set of PDBs that satisfies the assumptions,
every batch size and whatever a short batch is answered with:

* `TypeCorrect`: `Spec => []TypeOK`. `TypeOK` alone is not inductive: from the middle
  of a batch nothing says that the element after the last one read is within the
  table. The invariant is `TypeOK /\ Cursor`, where `Cursor` says how `read` of
  the current table stands to `got` in each phase, and that a table not yet opened has
  been read up to 0. The control part and the rows are proved apart: `ControlStep` and
  `NextElement` give the position and the element of the next handler, `RowsStep`
  the rows, with `ReplaceRow` and `DetailedRow` for the patched row of
  `Compiland`.
* `SrcIdsAreDense`: `Spec => []SrcIdsDense`, from `TypeCorrect`; the two handlers that
  append use the length, the others leave `SrcRange` alone.
* `SymbolsInOrder`: `Spec => []SymbolRowsFollowItems`, strengthened by `SentinelFirst`
  (after `load` the vector is not empty).
* `SymbolKeyIsUnique`: `Spec => []SymbolKeyUnique`, from the former and the assumption
  that DIA's identifiers are distinct and not 0.

`SymbolLinksProofs` proves, on the same invariant:

* `SrcLinesAreOwn`: `Spec => []SrcLineIsOwn`. The property speaks of every symbol with the
  id of the row, the invariant `UserTypesBacked` of one: each row of `UserType` was made of some
  symbol that was read, and refers to a row of `SrcRange` with this symbol's line, if it has
  one. `StaysBacked` says that appending to `SrcRange` and reading on keep this; that ids
  are distinct is needed only at the end.
* `DetailsReachTheirRow`: `Spec => []DetailsReachOwnCompiland`. `CompilandsInv` adds that every
  compiland read has an entry in `SymCompilandMap` which is the index of its own row (`Mapped`), and that
  any other entry, which `operator[]` inserted for a stray, is the first one (`OthersAreFirst`).
  `OneMoreSymbol` says what a symbol more changes for both; `OwnDetails` and `DetailsReached` are the two
  halves of the property.

* `EachHasItsRow`: `Spec => []OneRowPerSymbol`. `TypedRowsInv` says for each of the three
  groups of tables that its keys are those of the symbols read with its tags, once each
  (`OneRow`), and that a row of `Dedicated` has its symbol's tag (`OwnTag`). `RowAdded` and
  `RowsKept` are the two things a handler does to a group; `PatchKeepsKeys` is for the
  details, which change a row in place.
* `LinesAreCounted`: `Spec => []LinesCountedTwice`. `CountInv` is the property with
  names for the three sets it counts, which are finite (`Countable`); `RowCounted`, `LineCounted` and
  `UserTypeCounted` say by how much an append, a line number and a user type move each of
  the three counts.

`SymbolCopyProofs` proves what the reader promises its caller:

* `TablesReadToEnd`: `Spec => []ReadToEnd`.
* `ReaderCopies`: `Spec => ImplementsTableCopy`, the refinement. `CopyInv` says what each
  vector holds in terms of the cursors: the master table begins with its sentinel
  (`SentinelFirst`), the headers read are full ones and, once the stream is left, all
  of them (`HeadersCopied`), `SourceFile` and each of `Plain` are the elements up to `read`
  (`FilesCopied`, `PlainCopied`), and where nothing failed a table already left was read to
  its end (`TablesFinished`). Without the last, the reader could stop at the end of its list with
  less than `TableCopy` allows it to. `ResultRowsNext` reduces a step to one row more in one table,
  with one lemma per kind of handler (`HeaderCopied`, `SymbolCopied`, `FileCopied`,
  `ItemCopied`). How many headers there are before the first short one is found with the least
  element of a set of numbers (`FullHeadersFound`).
* `IncludedInOrder`: `Spec => []IncludedFollowsFiles`, inductive on `TypeCorrect`. The property names
  the places where the rows of one source file end and those of the next begin; a file more is a
  cut more (`IncludedStep`), and what lies before it keeps its place (`CutKept`).

`TableWriterProofs` proves, for every set of row types:

* `TypeCorrect`: `Spec => []TypeOK`, from `WalkOK`, which adds to it that csv alone has a
  header, and `WrittenOK`, which adds that a row that was begun has room.
* `ColumnsAreAligned`: `Spec => []ColumnsAligned`. The invariant adds that SET
  assigns only columns that are declared; without it a new column could be assigned
  already. `ColumnStep` reduces the five kinds of member to three ways of adding a
  column, and `NamesApart` (the names of columns tell members apart) rests on the
  assumption that the names of members do.
* `CsvIsReadBack`: `Spec => []CsvReadsBack`, for texts of any length over any characters, and every
  separator that is no letter, digit or quote: the names if they were asked for, and the text of each field. `FileInv` says what a reader has made of the
  file at every point of the writing: the lines that are whole, the fields of the line at hand,
  and that it stands in a field, where the next one may be written. `FieldRead` takes one value
  through the reader (a text one character at a time in `EscapedRead`), `FileStep` one action.
  The property alone speaks of the finished file only.
* `LoadReadsBack`: `Spec => []LoadsBack`, from `FileInv` and `Aligned`. `ColumnsFit` adds that a column's
  type and the way in which SET converts it are those of its member (`ColumnLoaded`), and `OwnTarget` that
  a column gets one value, from its own target, whether LOAD assigns it or SET does.

`MySQLOutputProofs` proves, for any runs, settings, tables and
procedures that satisfy the assumptions of `MySQLOutput`, and for every overlap,
failure and crash that it allows:

* `TypeCorrect`: `Spec => []TypeOK`. The invariant `TInv` adds that a LOAD is only ever
  listed for a table (else its file would be none of `Path`), and that a run which
  may send commands has built every table.
* `FilesComeFirst`: `Spec => FilesBeforeDrops`, from the latter.
* `ZeroIsLoaded`, `OneTableAtMost`, `CommandsAreAccepted`, `ProceduresAreDefined`:
  `ExitZeroMeansLoaded`, `OneTableInTransit`, `NoFaultNoError` and `ProceduresDefined` are
  always true. All four follow from `UploadInv`, which has three parts:
  * `RunInv` is about a list of commands by itself (`ListInv`): each command but a DROP
    follows the one it relies on, nothing comes back to an object that was loaded
    or defined, the procedures come first, and every table before the one
    at hand has its LOAD. `TableListed` and `ProcedureListed` show that the two ways in which the
    list grows keep this.
  * `SharingInv` says that `disturbed` records every overlap: of two active runs
    that share something both are disturbed, and so is the last run on a database on
    which an earlier one is still active. By `OtherRun` the steps of other runs therefore pass an
    undisturbed run by.
  * `DatabaseInv` says of an undisturbed run that its files hold its values, that what it
    loaded or defined is as it made it, that objects it has not come to are as it found
    them, and that the last command's object is as this command leaves it. The last part
    is what makes the server accept the next command (`Ready`). `Position` finds the one table
    that may be in transit, `UnderWay` says that a stop at any point spares all the others.

  The properties alone are not inductive: without the order of the list an executed command
  could undo a table already loaded, and without `SharingInv` another run could.
* `EveryRunPromises`: `Spec => ImplementsOutputEngine`, for each run of any number of runs.
  `Seen` reads the abstract state off the run's phase and the database; `Unexcused` says that a run
  with no excuse is undisturbed and had its files written, so that `UploadInv` speaks of it, and
  `ExcusesStay` that an excuse is never taken back. The steps of the run itself are the lemmas `Works`,
  `Refuses`, `StopsEarly` and `Returns`; a step of another run either leaves what this one
  sees as it is or counts as its excuse (`OthersMeddle`). `ValidInv` (a run that works has valid
  options) adds that such a run has started in the sense of `StoredBy` and `Excused`.

`DrpdbProofs` proves, for any command lines, places, and outcomes of the engines and of other
processes:

* `OptionsAreResolved`: `Spec => []OptionsResolved`. `DescribedKeys` settles which name begins which
  other, and with it which arguments answer for a name.
* `OutdirIsGiven`: `Spec => []OutdirNeverDefaults`, for command lines without an empty value (`-outdir=` before
  `-out=csv` does reach the default), since whatever answers for `-out` answers for
  `-outdir` (`OutAnswersForOutdir`) and the first match wins (`FirstIsOne`).
* `RefusalsAreHarmless` and `ZeroIsStored`: `Spec => []RefusalTouchesNothing` and
  `Spec => []StoresWhatWasRead`, from `MainInv`. `OutputInv` says what has become of the output
  by where the call of the engine is, `InputInv` what is in `SymbolData` by where `main` is,
  `ExitInv` what the status stands for. The two properties speak of the exit only; what they
  rest on is decided several calls before it.
* `OdbcCarriesOn`: `Spec => []OdbcGoesOn`. `OdbcInv` says for every number of commands sent what has
  become of each table; `Paired` finds the table of the next command in the list of pairs.
* `SurveyIsComplete`: `Spec => []SurveyIsWhole`. `MeasuredInv` says for each tag that what was measured is, once
  each, what the symbols handed over so far answer, though a getter known for a tag is not asked
  again (`NewAre`, `Added`). The report needs `SeenInv` as well: as long as nothing failed, the symbols handed
  over and those still to come, of this file and of the files left, are all there are. `LinesInv` says of `out.txt`
  what is true of its lines while they are written, `OutInv` when it is still the earlier one.
  `SortedAre` says that what is written has the same names in order.
* `TypeCorrect`: `Spec => []TypeOK`, which puts the parts together: `MainTypes` of `main`,
  `SurveyTypes` and `OdbcInv`.

`SqlTextProofs` proves, for texts of any length over any characters:

* `TypeCorrect`: `Spec => []TypeOK`; `replace` looks from an offset of the text, and `ParseProcedure` passes the
  end by one at most.
* `LoopsComeNearer`: `Spec => LoopsAdvance`. `ReplaceTurn` says what one replacement does to the text and
  to `pos`, `TurnAdvances` compares the two.
* `ProceduresAreSent`: `Spec => []ProceduresSent`. `ParseInv` says that a command was sent for
  each separator before `pos`, as long as the code makes it (`Sent`: with the offset of the next
  separator for a count), and that `pos` is behind the last of them (`PiecesSent`). `Ranked` finds the
  separator of a given number, `Gap` keeps two of them apart, `PieceSent` sends one piece more. `SentExactly`
  and `SentTooLong` compare what was sent with the pieces of the file: one separator is harmless, a second
  makes the command between them run on.
* `CommentsReadBack` and `PathsReadBack`: `Spec => []CommentReadsBack` and `Spec => []PathReadsBack`.
  `LiteralInv` says where each character of the text given stands in the text as it is now: those
  before `pos` have moved on by the characters doubled so far (`Offset`), those behind it are as they
  were. `Reads` unfolds the server's reading of a text at any offset, `CommentRead` and `PathRead`
  follow it along those places.

`RecordBuildProofs` proves, for every number of getters without an answer:

* `TypeCorrect`: `Spec => []TypeOK`. `StepEffect` reduces every step to three things: what becomes of
  the row, of the local variables, and where the constructor goes on (`Effect`). The others build on it.
* `AnswersReach`: `Spec => []AnswersReachTheirField`. The property says of each field whose getter
  answered that it holds this answer, which no step alone decides: `Assigned` says which fields have been given a value at
  this step, `OwnInv` that such a field's value is its own answer or its default, and `LookInv` that the variable
  still holds a thunk's target when the symbol there is looked up, unless the target failed.
* `OriginsKnown`: `Spec => []ValuesOfKnownOrigin`, with one invariant for each of its three parts:
  `ClearedInv` (a cleared variable is zero until a getter is given it) for `FreshRows`,
  `ResetInv` (a variable that was reset once never holds junk again) for `NoJunk`, and `LookInv` for
  `OwnOrZero`, where the lookup alone stores what another step's getter answered.
* `OnlyUnsureColumnsAreLost`: a finished row lacks (`NotAssigned`) only columns that no step of its
  constructor assigns on every path, from `SureInv`: the columns of the steps passed that surely assign one
  have done so. Which columns these are in the 33 constructors is `NoOtherGaps`, which TLC checks.

The order of the steps in the 33 constructors is data, not control, and the proofs take what they need of
it from `ConstructorsAssumption`: every constructor is `Disciplined`, a list of conditions on its sequence
of steps alone (a default comes before its field's getter, a lookup right behind the getter whose answer it
looks up, a cascade tests for one field). It mentions no
state and no parameter but `Makes`, so that there is nothing to assume: TLC evaluates it for all 33 sequences in the run
`records`. It speaks of the text of the constructors, the theorems of every run of them, with any number of
getters unanswered.

What a recursive function computes is proved without the induction rules of the library, which
take an operator: `UpTo` is induction over a set of numbers (a set with 0, and with k + 1 for each k in it, holds
all up to n), from the well-foundedness of the natural numbers; `Recursion`
obtains from it that a function defined by steps exists and obeys them. `SqlTextProofs` takes the least counterexample
instead.

The assumptions of each module are named where its constants are declared (`PdbsAssumption`,
`BatchAssumption`, `NoneAssumption`; `SettingsAssumption`, `NamesAssumption`,
`ValuesAssumption`; `ValueAssumption`, `PlacesAssumption`, `ArgsAssumption`,
`SurveyAssumption`, `OdbcAssumption`; `StructsAssumption`, `TextsAssumption`, `SeparatorsAssumption`,
`BoundsAssumption`, and another `TextsAssumption` in `SqlText`; `FailuresAssumption`, `MakesAssumption`,
`ConstructorsAssumption`), and TLC evaluates them in every run of the module.

Proving changed the model in one place: `Ready` of `RecordBuild` was a CASE whose guards overlapped,
whose value TLA+ leaves open and TLC takes from the first; it is a nested condition now. Four definitions
were rewritten to be reasoned about, with the same meaning: `NewFor` and `Sorted` of `ApiTest`,
`Read` of `TableWriter`, and `Reading` of `SqlText`.

Only model-checked:

* liveness (`Terminates`, `RunEnds`, `Ends`), which is out of the prover's reach;
* `NoOtherGaps`, which is a table of the columns that 33 sequences of steps leave out: the theorem
  `OnlyUnsureColumnsAreLost` is its part that does not consist in looking them up;
* the properties of the five runs that end in a violation.

Every other property of the passing runs is a theorem.

## Not modelled

* `-wikidoc` (`WikiDoc.cpp`): prints the reflection table, one pass over static text. That
  `main` does so and stops is in `Drpdb`.
* The wording of commands, comments and messages. `tolower` is never called. `wstrcvt` keeps the low
  byte of each character of a name, an expression on one character at a time whose effect no
  other state shows.
* The inside of DIA and of the database server: what they may answer is the input of
  `SymbolReader`, `RecordBuild`, `ApiTest`, `MySQLOutput` and `ODBCOutput`.
* The SQL of `src/config/mysql`, which the server executes when a user calls it.
* The vendored connector. Its headers are 18.8 of the repository's 23.5 thousand lines of C
  and C++, and declare a library that is not in the repository; so the modules stand for more than
  three fifths of `drpdb/src` and yet for little more than a tenth of all lines. The rest of
  `drpdb/src` is what this list names, includes, type declarations and blank lines.

## What is left

Every component of the program that keeps state is modelled, the two abstractions are stated and
proved to be implemented, and `Drpdb` composes `main` with its modes and with the promises of
its engines. What could still be added:

1. The contract `OutputEngine` for csv: `main` relies on it, and only mysql is shown to keep it. A file
   of csv that fails is reported, and the tables after it are still written.
2. The wide characters of names, where `wstrcvt` may make two names one.
3. A theorem that composes the text of a command with its effect: `SqlText` shows what the server reads,
   `MySQLOutput` takes it that a command does what its name says.
