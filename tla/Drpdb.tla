-------------------------------- MODULE Drpdb --------------------------------
(***************************************************************************)
(* drpdb.cpp: the command line and main.                                   *)
(*                                                                         *)
(* getOption compares the text before an argument's '=' with as much of    *)
(* the option's name, so any prefix of a name stands for it, and the first *)
(* such argument wins.  A name is a sequence of pieces here, cut where     *)
(* another option's name ends: <<"out">> and <<"out", "dir">>.             *)
(*                                                                         *)
(* The modes that main calls are composed with it: ApiTest is -doc,        *)
(* ODBCOutput is -out=odbc, and OutputEngine is what mysql and csv promise *)
(* (MySQLOutput shows it of mysql).  The input engine is reduced to how    *)
(* much of the file it left in SymbolData; SymbolReader opens it up.       *)
(***************************************************************************)
EXTENDS Integers, Sequences

CONSTANTS
  ArgLists,    \* the command lines
  Values,      \* the texts after '=', "" among them
  NoValue,     \* an argument without '=', an option that was not given
  Places,      \* where the program lies and where it may be started from
  Existing     \* the directories of the installation that hold its config

\* The constants of the modes.
CONSTANTS Getters, MaxTag, Listed, Self, Symbols, Tables, Absent, Empty, Older

\* What -out may name.
Engines == {"mysql", "csv", "odbc"}

ASSUME ValueAssumption ==
  Engines \cup {""} \subseteq Values /\ NoValue \notin Values

\* A directory is the sequence of the names on the way to it.
Directory == Seq(STRING)
ASSUME PlacesAssumption ==
  /\ Places \subseteq [exe : Directory, caller : Directory]
  /\ Existing \subseteq Directory

in      == <<"in">>
out     == <<"out">>
outdir  == <<"out", "dir">>
temp    == <<"temp">>
tempdir == <<"temp", "dir">>
wikidoc == <<"wikidoc">>
connect == <<"connect">>
host    == <<"host">>
user    == <<"user">>
dbname  == <<"db">>
port    == <<"p", "ort">>
pass    == <<"p", "ass">>
doc     == <<"doc">>
drivers == <<"drivers">>
nocolumnheaders    == <<"nocolumnheaders">>
uselocaleseparator == <<"uselocaleseparator">>

\* The names that PrintUsage and the engines' describe() tell the user.
Described ==
  {in, out, outdir, temp, wikidoc, connect, host, user, dbname, port, pass}
Flags == {doc, drivers, nocolumnheaders, uselocaleseparator}

Arg == [key : Seq(STRING), value : Values \cup {NoValue}]

ASSUME ArgsAssumption == ArgLists \subseteq Seq(Arg)

VARIABLES
  args,     \* gArgv
  place,    \* where the program is, and was started
  dir,      \* the current directory
  phase,    \* where main is
  data,     \* S: what the input engine put into SymbolData
  gErr,     \* has_error()
  code,     \* what main returns
  lost,     \* history: reading the input failed
  status, stored, failed,                              \* of mysql and csv
  docAt, files, left, measured, outTxt, handed, fault, \* of -doc
  odbcAt, pc, values, table, spoilt                    \* of odbc

main   == <<args, place, dir, phase, data, code, lost>>
engines == <<status, stored, gErr, failed>>
survey == <<docAt, files, left, measured, outTxt, handed, fault>>
odbc   == <<odbcAt, pc, values, table, spoilt>>
vars   == <<main, engines, survey, odbc>>

-----------------------------------------------------------------------------
(* The options. *)

\* Mutated Matches: strncmp(arg, name, strlen(name)) == 0.
MatchesWholeName(key, name) ==
  /\ Len(name) <= Len(key)
  /\ \A i \in 1..Len(name) : key[i] = name[i]

\* strncmp(arg, name, found - arg) == 0
Matches(key, name) ==
  /\ Len(key) <= Len(name)
  /\ \A i \in 1..Len(key) : key[i] = name[i]

Hits(name) ==
  {i \in 1..Len(args) : args[i].value # NoValue /\ Matches(args[i].key, name)}

First(S) == CHOOSE i \in S : \A j \in S : i <= j

getOption(name) == IF Hits(name) = {} THEN NoValue ELSE args[First(Hits(name))].value

\* getOption(...).size() > 0
given(name) == getOption(name) \notin {NoValue, ""}

getFlag(name) ==
  \E i \in 1..Len(args) : args[i].key = name /\ args[i].value = NoValue

engine == IF getOption(out) \in Engines THEN getOption(out) ELSE NoValue

\* atoi makes 0 of a port that is no number.
SoundSettings ==
  /\ given(host) /\ given(user) /\ given(dbname)
  /\ given(port) => getOption(port) = "3307"

-----------------------------------------------------------------------------
(* The modes, each with main's variables. *)

\* d with "..\" n times behind it; the root is its own parent.
Up(d, n) == SubSeq(d, 1, Len(d) - n)

\* Document names its files by paths from the current directory.
docConfig == Up(dir, 1) \o <<"config", "doc">>

Survey == INSTANCE ApiTest WITH config <- docConfig \in Existing, at <- docAt
Odbc   == INSTANCE ODBCOutput WITH connection <- given(connect), at <- odbcAt
Engine == INSTANCE OutputEngine

ASSUME SurveyAssumption == Survey!ConstantsOK
ASSUME OdbcAssumption == Odbc!ConstantsOK

-----------------------------------------------------------------------------
(* main. *)

Init ==
  /\ args \in ArgLists
  /\ place \in Places
  /\ dir = place.caller
  /\ phase = "begin"
  /\ data = "empty"
  /\ code = 0
  /\ lost = FALSE
  /\ Engine!Init /\ failed = FALSE
  /\ Survey!Init
  /\ Odbc!Init

\* The last backslash is looked for from the end of the buffer, which nobody
\* has initialized: behind the path there may be another one, and the directory
\* is then the path of a file, which cannot be changed to.
SetDirectory ==
  /\ phase = "begin"
  /\ phase' = "start"
  /\ dir' \in {place.exe, dir}
  /\ UNCHANGED <<args, place, data, code, lost, engines, survey, odbc>>

exit(c) ==
  /\ phase' = "exit"
  /\ code' = c
  /\ UNCHANGED <<args, place, dir, data, lost>>

goto(p) ==
  /\ phase' = p
  /\ UNCHANGED <<args, place, dir, data, code, lost>>

Document ==
  /\ phase = "start"
  /\ getFlag(doc)
  /\ goto("doc")
  /\ UNCHANGED <<engines, survey, odbc>>

\* One step of DIA2::Document; its end is main's.
DocumentStep ==
  /\ phase = "doc"
  /\ Survey!Next
  /\ CASE docAt' = "done"    -> exit(0)
       [] docAt' = "crashed" -> goto("crashed")
       [] OTHER              -> UNCHANGED main
  /\ UNCHANGED <<engines, odbc>>

WikiDoc ==
  /\ phase = "start"
  /\ ~getFlag(doc)
  /\ given(wikidoc)
  /\ exit(0)
  /\ UNCHANGED <<engines, survey, odbc>>

PrintUsage ==
  /\ phase = "start"
  /\ ~getFlag(doc) /\ ~given(wikidoc)
  /\ engine = NoValue
  /\ exit(1)
  /\ UNCHANGED <<engines, survey, odbc>>

\* Mutated Run: the input engine is not called.
RunWithoutInput ==
  /\ phase = "start"
  /\ ~getFlag(doc) /\ ~given(wikidoc)
  /\ engine # NoValue
  /\ goto("output")
  /\ UNCHANGED <<engines, survey, odbc>>

Run ==
  /\ phase = "start"
  /\ ~getFlag(doc) /\ ~given(wikidoc)
  /\ engine # NoValue
  /\ goto(IF given(in) THEN "input" ELSE "output")
  /\ UNCHANGED <<engines, survey, odbc>>

\* DIA2::ReadSymbols returns: with all of the file ...
ReadInput ==
  /\ phase = "input"
  /\ phase' = "output"
  /\ data' = "whole"
  /\ UNCHANGED <<args, place, dir, code, lost, engines, survey, odbc>>

\* ... or with nothing or a part of it, of which it says nothing ...
ReadInputFails ==
  /\ phase = "input"
  /\ phase' = "output"
  /\ data' \in {"empty", "part"}
  /\ lost' = TRUE
  /\ UNCHANGED <<args, place, dir, code, engines, survey, odbc>>

\* ... or not at all (SymbolReader, SourceIsNull and SessionIsNull).
InputCrashes ==
  /\ phase = "input"
  /\ phase' = "crashed"
  /\ lost' = TRUE
  /\ UNCHANGED <<args, place, dir, data, code, engines, survey, odbc>>

-----------------------------------------------------------------------------
(* output->output(S). *)

\* Mutated EngineRefuses: the settings are looked at after the upload.
EngineRefusesLate ==
  /\ phase = "output"
  /\ engine = "mysql"
  /\ ~SoundSettings \/ ~given(tempdir)
  /\ status' = "returned" /\ gErr' = TRUE /\ stored' = "written"
  /\ goto("return")
  /\ UNCHANGED <<failed, survey, odbc>>

\* mysql: init throws a message, which main catches: an option is missing or
\* unsound, or the current directory, which is to hold temp\ then, too long.
EngineRefuses ==
  /\ phase = "output"
  /\ engine = "mysql"
  /\ ~SoundSettings \/ ~given(tempdir)
  /\ Engine!Refuse
  /\ goto("return")
  /\ UNCHANGED <<survey, odbc>>

\* mysql has what it needs; csv needs nothing.
Ready ==
  /\ phase = "output"
  /\ \/ engine = "csv"
     \/ engine = "mysql" /\ SoundSettings

EngineWorks ==
  /\ Ready
  /\ Engine!Work
  /\ UNCHANGED <<main, survey, odbc>>

OtherRun ==
  /\ Ready
  /\ Engine!Meddle
  /\ UNCHANGED <<main, survey, odbc>>

EngineReturns ==
  /\ Ready
  /\ Engine!Return \/ Engine!Complain
  /\ goto("return")
  /\ UNCHANGED <<survey, odbc>>

EngineKilled ==
  /\ Ready
  /\ Engine!Kill
  /\ goto("crashed")
  /\ UNCHANGED <<survey, odbc>>

\* odbc: the constructor lists the drivers and leaves the process.
ListDrivers ==
  /\ phase = "output"
  /\ engine = "odbc" /\ getFlag(drivers)
  /\ exit(0)
  /\ UNCHANGED <<engines, survey, odbc>>

\* One step of odbc; it has no way to complain.
OdbcStep ==
  /\ phase = "output"
  /\ engine = "odbc" /\ ~getFlag(drivers)
  /\ Odbc!Next
  /\ IF odbcAt' = "end" THEN goto("return") ELSE UNCHANGED main
  /\ UNCHANGED <<engines, survey>>

\* Mutated Return: the status is not one of main's.
ReturnMinusOne ==
  /\ phase = "return"
  /\ exit(IF gErr THEN -1 ELSE 0)
  /\ UNCHANGED <<engines, survey, odbc>>

\* Mutated Return: main waits for an error.
ReturnOnError ==
  /\ phase = "return"
  /\ gErr
  /\ exit(1)
  /\ UNCHANGED <<engines, survey, odbc>>

Return ==
  /\ phase = "return"
  /\ exit(IF gErr THEN 1 ELSE 0)
  /\ UNCHANGED <<engines, survey, odbc>>

Input  == ReadInput \/ ReadInputFails \/ InputCrashes
Output == \/ EngineRefuses \/ EngineWorks \/ EngineReturns \/ EngineKilled
          \/ ListDrivers \/ OdbcStep

Step ==
  \/ SetDirectory
  \/ Document \/ DocumentStep \/ WikiDoc \/ PrintUsage
  \/ Run \/ Input \/ Output \/ Return

Next == Step \/ OtherRun

\* One thread, whatever other runs do.  The engines return
\* (SymbolReader!Terminates, MySQLOutput!RunEnds): one that works does not do
\* so for ever.
Spec == Init /\ [][Next]_vars /\ WF_vars(Step) /\ WF_vars(EngineReturns)

-----------------------------------------------------------------------------
(* Properties. *)

TypeOK ==
  /\ args \in ArgLists
  /\ place \in Places
  /\ dir \in {place.exe, place.caller}
  /\ phase \in {"begin", "start", "doc", "input", "output", "return", "exit",
                "crashed"}
  /\ data \in {"empty", "part", "whole"}
  /\ status \in Engine!Statuses /\ stored \in Engine!Stored
  /\ {gErr, failed, lost} \subseteq BOOLEAN
  /\ code \in {0, 1}
  /\ Survey!TypeOK
  /\ Odbc!TypeOK

\* What the user wrote for an option: the first argument with just that key.
Written(name) ==
  LET S == {i \in 1..Len(args) : args[i].key = name /\ args[i].value # NoValue}
  IN IF S = {} THEN NoValue ELSE args[First(S)].value

\* The command line holds only keys the program describes.
AsDescribed ==
  \A i \in 1..Len(args) : args[i].key \in IF args[i].value = NoValue
                                          THEN Flags ELSE Described

\* Every described option but -outdir is read as it was written, in any order
\* of the arguments; -temp reaches getOption("-tempdir"), the name that the
\* code asks for, by being a prefix of it.
OptionsResolved ==
  AsDescribed =>
    /\ \A name \in Described \ {outdir} : getOption(name) = Written(name)
    /\ getOption(tempdir) = Written(temp)

\* Unless some option is written with nothing after its '=', the directory that
\* csv falls back to, the current one, is never used: the argument that chose
\* the engine answers for -outdir too.
OutdirNeverDefaults ==
  engine = "csv" /\ (\A i \in 1..Len(args) : args[i].value # "") => given(outdir)

\* A run that is told something is wrong with its options, by the usage text
\* or by an error, has not touched the output.
RefusalTouchesNothing ==
  phase = "exit" /\ code = 1 /\ ~failed => stored = "asBefore"

\* A run of mysql or csv that returned 0, with no call of the engine failing,
\* wrote all of SymbolData over what was there, whatever had become of the input.
\* That is the whole input exactly when one was named and reading it did not
\* fail; a PDB that does not load, or only in part, shows in no status: the
\* tables are replaced by empty ones, or by parts.
StoresWhatWasRead ==
  phase = "exit" /\ ~failed /\ code = 0 /\ engine \in {"mysql", "csv"}
  /\ ~getFlag(doc) /\ ~given(wikidoc)
  => /\ stored = "written"
     /\ data = "whole" <=> (given(in) /\ ~lost)
     /\ ~given(in) => data = "empty"

\* -doc: a tag is given each getter that answered for one of its symbols, once,
\* in whatever order the list, the files and their symbols come; and out.txt is
\* replaced when all files have been seen, by what they say, line by line.
SurveyIsWhole == Survey!MeasuredIsUnion /\ Survey!OutIsWhole

\* odbc: a command that fails costs its own table only.
OdbcGoesOn == Odbc!OthersUnharmed

\* main ends.
Ends == <>(phase \in {"exit", "crashed"})

\* "Results output into config/doc/out.txt" (PrintUsage): a run of -doc that
\* meets no fault and reaches its end has written its results there.
SurveyIsWritten ==
  phase = "exit" /\ getFlag(doc) /\ ~fault /\ dir = place.exe => outTxt # Older
=============================================================================
