----------------------------- MODULE MySQLOutput -----------------------------
(***************************************************************************)
(* The mysql output engine (MySQLOutput.cpp) and what outlives a run of    *)
(* it: the temporary files and the database.                               *)
(*                                                                         *)
(* A run first builds the whole list of commands, writing one file of      *)
(* values per table on the way; only then does it connect, and it sends    *)
(* the commands until one fails.  Nothing is transactional: a run that     *)
(* stops leaves the tables it did not reach as they were and one table in  *)
(* transit.  Runs may follow each other, after a crash as well, or         *)
(* overlap, in the same directory or the same database.                    *)
(*                                                                         *)
(* The rows a run r writes for a table are denoted by r itself.            *)
(***************************************************************************)
EXTENDS Integers, Sequences, FiniteSets

CONSTANTS
  Runs,         \* invocations of drpdb -out=mysql
  Settings,     \* what their options may be: functions of the runs
  Dirs, Dbs,    \* temporary directories, databases
  Procedures,   \* the .sql files of config/mysql, in directory order
  Tables,       \* the tables of PDBReflection.inl, in order
  Absent,       \* an object the database lacks, a file that does not exist
  Empty,        \* a table that was created and not loaded
  Older,        \* what was there before the first run
  Torn,         \* truncated, partly loaded or mixed rows
  Body          \* a procedure, as created

Elements(s) == {s[i] : i \in 1..Len(s)}
TableSet    == Elements(Tables)
Objects     == Elements(Procedures) \cup TableSet

\* valid: -host, -user, -db and -port are there and sound, and the directory is
\* not too long where it is the current one's.
\* sep: -tempdir is absent or its value ends with a separator.
Setting == [dir : Dirs, sep : BOOLEAN, db : Dbs, valid : BOOLEAN]

Distinct(s) == \A i, j \in 1..Len(s) : s[i] = s[j] => i = j

ASSUME SettingsAssumption == Settings \subseteq [Runs -> Setting]
ASSUME NamesAssumption ==
  /\ Tables \in Seq(TableSet) /\ Distinct(Tables)
  /\ Procedures \in Seq(Elements(Procedures)) /\ Distinct(Procedures)
  /\ Elements(Procedures) \cap TableSet = {}
ASSUME ValuesAssumption ==
  /\ Runs \cap {Absent, Empty, Older, Torn, Body} = {}
  /\ Absent # Empty /\ Absent # Older /\ Absent # Torn /\ Absent # Body
  /\ Empty # Older /\ Empty # Torn /\ Empty # Body
  /\ Older # Torn /\ Older # Body /\ Torn # Body

VARIABLES
  set,            \* the settings of the runs
  phase,          \* where each run is
  proc, built,    \* procedure files looked at, tables built
  UploadCommands,
  pc,             \* commands that were executed
  file,           \* the temporary files
  db,             \* the databases
  writeFault,     \* history: a temporary file was not written as it should
  fault,          \* history: anything else failed
  disturbed,      \* history: another run shared the directory or the database
  last,           \* history: the run that started last on a database
  before          \* history: the database when the run started

list    == <<proc, built, UploadCommands>>
history == <<writeFault, fault, disturbed, last, before>>
vars    == <<set, phase, list, pc, file, db, history>>

Rows      == Runs \cup {Absent, Older, Torn}
ObjectVal == Rows \cup {Empty, Body}

\* Where PopulateTable writes the values of t, and where LoadTable's command
\* reads them: only the latter puts a separator of its own before the name.
Path           == [dir : Dirs, sep : BOOLEAN, table : TableSet]
outPath(r, t)  == [dir |-> set[r].dir, sep |-> set[r].sep, table |-> t]
loadPath(r, t) == [dir |-> set[r].dir, sep |-> TRUE, table |-> t]

Active(r)    == phase[r] \in {"generate", "connect", "upload"}
Shares(q, r) == set[q].dir = set[r].dir \/ set[q].db = set[r].db

Init ==
  /\ set \in Settings
  /\ phase = [r \in Runs |-> "new"]
  /\ proc = [r \in Runs |-> 0]
  /\ built = [r \in Runs |-> 0]
  /\ UploadCommands = [r \in Runs |-> <<>>]
  /\ pc = [r \in Runs |-> 0]
  /\ \E v \in {Absent, Older} :
       /\ file = [p \in Path |-> v]
       /\ db = [d \in Dbs |-> [o \in Objects |-> v]]
  /\ writeFault = [r \in Runs |-> FALSE]
  /\ fault = [r \in Runs |-> FALSE]
  /\ disturbed = [r \in Runs |-> FALSE]
  /\ last = [d \in Dbs |-> Absent]
  /\ before = [r \in Runs |-> db[set[r].db]]

-----------------------------------------------------------------------------
(* init: the options, then the list of commands. *)

Start(r) ==
  /\ phase[r] = "new"
  /\ set[r].valid
  /\ phase' = [phase EXCEPT ![r] = "generate"]
  /\ disturbed' =
       [q \in Runs |->
          \/ disturbed[q]
          \/ q # r /\ Active(q) /\ Shares(q, r)
          \/ q = r /\ \E a \in Runs \ {r} : Active(a) /\ Shares(a, r)]
  /\ last' = [last EXCEPT ![set[r].db] = r]
  /\ before' = [before EXCEPT ![r] = db[set[r].db]]
  /\ UNCHANGED <<set, list, pc, file, db, writeFault, fault>>

\* A missing or unsound option, or too long a current directory, is thrown to
\* main before anything is touched.
InitThrows(r) ==
  /\ phase[r] = "new"
  /\ ~set[r].valid
  /\ phase' = [phase EXCEPT ![r] = "failed"]
  /\ UNCHANGED <<set, list, pc, file, db, history>>

Command(op, on) == [op |-> op, on |-> on]

push_back(r, commands) ==
  UploadCommands' = [UploadCommands EXCEPT ![r] = @ \o commands]

\* Mutated ReadProcedure: the halves of the file are listed in the wrong order.
ReadProcedureSwapped(r) ==
  LET p == Procedures[proc[r] + 1]
  IN /\ phase[r] = "generate"
     /\ proc[r] < Len(Procedures)
     /\ proc' = [proc EXCEPT ![r] = @ + 1]
     /\ push_back(r, <<Command("define", p), Command("drop", p)>>)
     /\ UNCHANGED <<set, phase, built, pc, file, db, history>>

\* The next file of config/mysql: its two halves, a DROP and a CREATE.  A file
\* that cannot be opened is left out.
ReadProcedure(r) ==
  LET p == Procedures[proc[r] + 1]
  IN /\ phase[r] = "generate"
     /\ proc[r] < Len(Procedures)
     /\ proc' = [proc EXCEPT ![r] = @ + 1]
     /\ \/ push_back(r, <<Command("drop", p), Command("define", p)>>)
        \/ UNCHANGED UploadCommands
     /\ UNCHANGED <<set, phase, built, pc, file, db, history>>

\* Mutated BuildTable: every DROP goes before all other commands.
BuildTableDropsFirst(r, t) ==
  /\ phase[r] = "generate"
  /\ proc[r] = Len(Procedures)
  /\ built[r] < Len(Tables)
  /\ t = Tables[built[r] + 1]
  /\ built' = [built EXCEPT ![r] = @ + 1]
  /\ UploadCommands' = [UploadCommands EXCEPT ![r] =
       <<Command("drop", t)>> \o @ \o <<Command("create", t), Command("load", t)>>]
  /\ UNCHANGED <<set, phase, proc, pc, db, fault, disturbed, last, before>>

\* Mutated BuildTable: the DROP is forgotten.
BuildTableWithoutDrop(r, t) ==
  /\ phase[r] = "generate"
  /\ proc[r] = Len(Procedures)
  /\ built[r] < Len(Tables)
  /\ t = Tables[built[r] + 1]
  /\ built' = [built EXCEPT ![r] = @ + 1]
  /\ push_back(r, <<Command("create", t), Command("load", t)>>)
  /\ UNCHANGED <<set, phase, proc, pc, db, fault, disturbed, last, before>>

\* BuildTable lists DROP, CREATE and LOAD and writes the file of values; the
\* two actions below say what the write made of the file.
BuildTable(r, t) ==
  /\ phase[r] = "generate"
  /\ proc[r] = Len(Procedures)
  /\ built[r] < Len(Tables)
  /\ t = Tables[built[r] + 1]
  /\ built' = [built EXCEPT ![r] = @ + 1]
  /\ push_back(r, <<Command("drop", t), Command("create", t), Command("load", t)>>)
  /\ UNCHANGED <<set, phase, proc, pc, db, fault, disturbed, last, before>>

\* Mutated WriteTable: the stream is opened and given nothing.
WriteNothing(r) ==
  \E t \in TableSet :
    /\ BuildTable(r, t)
    /\ file' = [file EXCEPT ![outPath(r, t)] = Empty]
    /\ UNCHANGED writeFault

WriteTable(r) ==
  \E t \in TableSet :
    /\ BuildTable(r, t)
    /\ file' = [file EXCEPT ![outPath(r, t)] = r]
    /\ UNCHANGED writeFault

\* The stream does not open and the file stays as it was, or a write or the
\* flush at its destruction fails.  Nothing looks at the stream's state.
WriteTableFails(r) ==
  \E t \in TableSet :
    /\ BuildTable(r, t)
    /\ \/ UNCHANGED file
       \/ file' = [file EXCEPT ![outPath(r, t)] = Torn]
    /\ writeFault' = [writeFault EXCEPT ![r] = TRUE]

\* Mutated EndGenerate: the upload begins with the first table.
EndGenerateEarly(r) ==
  /\ phase[r] = "generate"
  /\ proc[r] = Len(Procedures)
  /\ built[r] > 0
  /\ phase' = [phase EXCEPT ![r] = "connect"]
  /\ UNCHANGED <<set, list, pc, file, db, history>>

EndGenerate(r) ==
  /\ phase[r] = "generate"
  /\ proc[r] = Len(Procedures)
  /\ built[r] = Len(Tables)
  /\ phase' = [phase EXCEPT ![r] = "connect"]
  /\ UNCHANGED <<set, list, pc, file, db, history>>

-----------------------------------------------------------------------------
(* output: connect, then one command after the other until one fails. *)

Connect(r) ==
  /\ phase[r] = "connect"
  /\ phase' = [phase EXCEPT ![r] = "upload"]
  /\ UNCHANGED <<set, list, pc, file, db, history>>

\* mysql_init or mysql_real_connect fails: set_error, so the loop does nothing.
ConnectFails(r) ==
  /\ phase[r] = "connect"
  /\ phase' = [phase EXCEPT ![r] = "failed"]
  /\ fault' = [fault EXCEPT ![r] = TRUE]
  /\ UNCHANGED <<set, list, pc, file, db, writeFault, disturbed, last, before>>

next(r) == UploadCommands[r][pc[r] + 1]

\* What the server makes of a command: whether it accepts it ...
Accepted(r, c) ==
  LET old == db[set[r].db][c.on]
  IN CASE c.op = "drop"   -> TRUE
       [] c.op = "define" -> old = Absent
       [] c.op = "create" -> old = Absent
       [] c.op = "load"   -> old # Absent /\ file[loadPath(r, c.on)] # Absent

\* ... and what its object is afterwards; LOAD adds to the rows that are there.
Effect(r, c) ==
  CASE c.op = "drop"   -> Absent
    [] c.op = "define" -> Body
    [] c.op = "create" -> Empty
    [] c.op = "load"   -> IF db[set[r].db][c.on] = Empty
                          THEN file[loadPath(r, c.on)] ELSE Torn

Store(r, o, v) == db' = [db EXCEPT ![set[r].db][o] = v]

Executing(r) == phase[r] = "upload" /\ pc[r] < Len(UploadCommands[r])

\* Mutated Execute: the index is not advanced.
ExecuteAgain(r) ==
  /\ Executing(r)
  /\ Accepted(r, next(r))
  /\ Store(r, next(r).on, Effect(r, next(r)))
  /\ UNCHANGED <<set, phase, list, pc, file, history>>

\* mysql_real_query returns 0, with warnings or without.
Execute(r) ==
  /\ Executing(r)
  /\ Accepted(r, next(r))
  /\ Store(r, next(r).on, Effect(r, next(r)))
  /\ pc' = [pc EXCEPT ![r] = @ + 1]
  /\ UNCHANGED <<set, phase, list, file, history>>

\* The server refuses the command: set_error ends the loop.
ExecuteRejected(r) ==
  /\ Executing(r)
  /\ ~Accepted(r, next(r))
  /\ phase' = [phase EXCEPT ![r] = "failed"]
  /\ UNCHANGED <<set, list, pc, file, db, history>>

\* A command that is cut short was carried out, was not, or, when it loads,
\* was in part: the engine is MyISAM, which rolls nothing back.
CutShort(r) ==
  \/ UNCHANGED db
  \/ Accepted(r, next(r)) /\ Store(r, next(r).on, Effect(r, next(r)))
  \/ /\ next(r).op = "load"
     /\ Accepted(r, next(r))
     /\ Store(r, next(r).on, Torn)

\* Mutated ExecuteFails: the loop does not look at has_error().
ExecuteFailsIgnored(r) ==
  /\ Executing(r)
  /\ CutShort(r)
  /\ pc' = [pc EXCEPT ![r] = @ + 1]
  /\ fault' = [fault EXCEPT ![r] = TRUE]
  /\ UNCHANGED <<set, phase, list, file, writeFault, disturbed, last, before>>

\* The connection or the server fails under the command: set_error.
ExecuteFails(r) ==
  /\ Executing(r)
  /\ CutShort(r)
  /\ phase' = [phase EXCEPT ![r] = "failed"]
  /\ fault' = [fault EXCEPT ![r] = TRUE]
  /\ UNCHANGED <<set, list, pc, file, writeFault, disturbed, last, before>>

\* Every command was executed: main returns 0.
Finish(r) ==
  /\ phase[r] = "upload"
  /\ pc[r] = Len(UploadCommands[r])
  /\ phase' = [phase EXCEPT ![r] = "ok"]
  /\ UNCHANGED <<set, list, pc, file, db, history>>

-----------------------------------------------------------------------------
(* The process is killed, in the middle of a file or of a command as well. *)

Crash(r) ==
  /\ Active(r)
  /\ phase' = [phase EXCEPT ![r] = "crashed"]
  /\ fault' = [fault EXCEPT ![r] = TRUE]
  /\ \/ UNCHANGED file
     \/ /\ phase[r] = "generate"
        /\ built[r] < Len(Tables)
        /\ \E v \in {r, Torn} :
             file' = [file EXCEPT ![outPath(r, Tables[built[r] + 1])] = v]
  /\ \/ UNCHANGED db
     \/ Executing(r) /\ CutShort(r)
  /\ UNCHANGED <<set, list, pc, writeFault, disturbed, last, before>>

-----------------------------------------------------------------------------
Progress(r) ==
  \/ ReadProcedure(r) \/ WriteTable(r) \/ EndGenerate(r)
  \/ Connect(r)
  \/ Execute(r) \/ ExecuteRejected(r) \/ Finish(r)

Fault(r) ==
  \/ WriteTableFails(r) \/ ConnectFails(r) \/ ExecuteFails(r) \/ Crash(r)

Next == \E r \in Runs : Start(r) \/ InitThrows(r) \/ Progress(r) \/ Fault(r)

\* A run that was started is scheduled and its calls return.  Nobody has to
\* start one, and nothing has to fail.
Spec == Init /\ [][Next]_vars /\ \A r \in Runs : WF_vars(Progress(r))

-----------------------------------------------------------------------------
(* Properties. *)

CommandType == [op : {"drop", "define", "create", "load"}, on : Objects]
Phases == {"new", "generate", "connect", "upload", "ok", "failed", "crashed"}

\* Type correctness of the runs, of the files and of the databases.
TypeOK ==
  /\ set \in [Runs -> Setting]
  /\ phase \in [Runs -> Phases]
  /\ proc \in [Runs -> 0..Len(Procedures)]
  /\ built \in [Runs -> 0..Len(Tables)]
  /\ UploadCommands \in [Runs -> Seq(CommandType)]
  /\ pc \in [Runs -> Nat]
  /\ \A r \in Runs : pc[r] <= Len(UploadCommands[r])
  /\ file \in [Path -> Rows]
  /\ db \in [Dbs -> [Objects -> ObjectVal]]
  /\ writeFault \in [Runs -> BOOLEAN]
  /\ fault \in [Runs -> BOOLEAN]
  /\ disturbed \in [Runs -> BOOLEAN]
  /\ last \in [Dbs -> Runs \cup {Absent}]
  /\ before \in [Runs -> [Objects -> ObjectVal]]

\* The run had its directory and its database for itself, and no later run
\* began on the database.
Alone(r) ==
  /\ phase[r] # "new"
  /\ ~disturbed[r]
  /\ last[set[r].db] = r

\* Its files were written, too, and where LOAD looks for them.
Undisturbed(r) == Alone(r) /\ ~writeFault[r] /\ set[r].sep

\* A run that returned 0 left its own rows in every table, whatever runs came
\* before it, crashed ones included, left in the files and in the database.
ExitZeroMeansLoaded ==
  \A r \in Runs : phase[r] = "ok" /\ Undisturbed(r) =>
    \A t \in TableSet : db[set[r].db][t] = r

\* Wherever a run is, or was when it stopped, the tables before the one in
\* transit hold its rows and the tables after it are as the run found them:
\* an error or a crash costs one table at most.
OneTableInTransit ==
  \A r \in Runs : Undisturbed(r) =>
    \E k \in 0..Len(Tables) :
      /\ \A j \in 1..(k - 1) : db[set[r].db][Tables[j]] = r
      /\ \A j \in (k + 1)..Len(Tables) :
           db[set[r].db][Tables[j]] = before[r][Tables[j]]

\* Nothing is dropped before the values of every table were handed to the file
\* system: what stops a run until then costs the database nothing.
FilesBeforeDrops ==
  [][\A d \in Dbs : db'[d] # db[d] =>
       \E r \in Runs : set[r].db = d /\ Active(r) /\ built[r] = Len(Tables)]_vars

\* The commands of a run are accepted by the server, whatever it finds there:
\* a run fails only when something in its environment did.
NoFaultNoError ==
  \A r \in Runs : phase[r] = "failed" /\ Undisturbed(r) => fault[r]

\* A procedure that a run listed is there when the run returned 0.
ProceduresDefined ==
  \A r \in Runs : phase[r] = "ok" /\ Undisturbed(r) =>
    \A i \in 1..Len(UploadCommands[r]) :
      UploadCommands[r][i].op = "define" => db[set[r].db][UploadCommands[r][i].on] = Body

\* A run that was started comes to an end.
RunEnds == \A r \in Runs : (phase[r] = "generate") ~> (~Active(r))

\* "Convert from Microsoft PDB format into a MySQL database" (README.md): what a
\* run that returned 0 left in its database was converted by that run.  With the
\* database for itself, none of it is another run's, of another PDB.
LoadsNoOthersRows ==
  \A r \in Runs : phase[r] = "ok" /\ Alone(r) /\ set[r].sep =>
    \A t \in TableSet : db[set[r].db][t] \notin Runs \ {r}

\* "-temp=<custom temp directory>" (describe): with a directory of the user's
\* choice, a run that meets no fault does not fail.
CustomTempDirWorks ==
  \A r \in Runs : phase[r] = "failed" /\ Alone(r) /\ ~writeFault[r] => fault[r]

-----------------------------------------------------------------------------
(* A run as main sees it. *)

Status(r) ==
  CASE phase[r] = "new" -> "ready"
    [] Active(r) -> "working"
    [] phase[r] \in {"ok", "failed"} -> "returned"
    [] phase[r] = "crashed" -> "killed"

Started(r) == phase[r] # "new" /\ set[r].valid

StoredBy(r) ==
  IF ~Started(r) THEN "asBefore"
  ELSE IF \A t \in TableSet : db[set[r].db][t] = r THEN "written"
  ELSE IF \A t \in TableSet : db[set[r].db][t] = before[r][t] THEN "asBefore"
  ELSE "mixed"

\* Something failed, the directory has no separator at its end, or another run
\* shared the directory or the database, or has taken the database over.
Excused(r) ==
  \/ ~set[r].sep \/ writeFault[r] \/ fault[r] \/ disturbed[r]
  \/ Started(r) /\ last[set[r].db] # r

Engine(r) == INSTANCE OutputEngine
  WITH status <- Status(r),
       stored <- StoredBy(r),
       gErr   <- phase[r] = "failed",
       failed <- Excused(r)

\* Every run keeps the promises that main relies on, whatever the others do.
\* (\A r \in Runs : Engine(r)!Spec, written with one box for all runs.)
ImplementsOutputEngine ==
  /\ \A r \in Runs : Engine(r)!Init
  /\ [][\A r \in Runs : [Engine(r)!Next]_(Engine(r)!vars)]_vars
=============================================================================
