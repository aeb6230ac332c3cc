-------------------------- MODULE MySQLOutputProofs --------------------------
(***************************************************************************)
(* Theorems about MySQLOutput, for any runs, directories, databases and    *)
(* lists of tables and procedures, and for every overlap and crash: its    *)
(* types; what a run leaves in its database, by an inductive invariant;    *)
(* and that every run keeps the promises of OutputEngine, whatever the     *)
(* other runs do.                                                          *)
(***************************************************************************)
EXTENDS MySQLOutput, TLAPS

-----------------------------------------------------------------------------
(* Facts about the constants and the helpers. *)

\* The names that commands are about.
LEMMA NameTypes ==
  /\ Len(Tables) \in Nat /\ Len(Procedures) \in Nat
  /\ \A i \in 1..Len(Tables) : Tables[i] \in TableSet /\ Tables[i] \in Objects
  /\ \A i \in 1..Len(Procedures) : Procedures[i] \in Objects
  /\ TableSet \subseteq Objects
  BY NamesAssumption DEF TableSet, Objects, Elements

\* The settings of a run, and where its files are.
LEMMA SettingTypes ==
  ASSUME set \in Settings, NEW r \in Runs
  PROVE  /\ set[r].db \in Dbs
         /\ \A t \in TableSet : outPath(r, t) \in Path /\ loadPath(r, t) \in Path
  BY SettingsAssumption DEF Setting, outPath, loadPath, Path

\* The commands that a run lists: only tables are loaded.
Listed == {c \in CommandType : c.op = "load" => c.on \in TableSet}

\* The commands of a table, and those of a procedure.
LEMMA ListedCommands ==
  /\ \A t \in TableSet :
       <<Command("drop", t), Command("create", t), Command("load", t)>> \in Seq(Listed)
  /\ \A o \in Objects : <<Command("drop", o), Command("define", o)>> \in Seq(Listed)
  BY NameTypes DEF Command, CommandType, Listed

\* A list of such commands is a list of commands.
LEMMA ListedIsCommand ==
  ASSUME NEW f \in [Runs -> Seq(Listed)]
  PROVE  f \in [Runs -> Seq(CommandType)]
<1>1. ASSUME NEW s \in Seq(Listed) PROVE s \in Seq(CommandType)
  BY DEF Listed
<1> QED
  BY <1>1

\* push_back makes the list of one run longer and leaves the others' alone.
LEMMA Pushed ==
  ASSUME NEW r \in Runs, NEW commands \in Seq(Listed),
         UploadCommands \in [Runs -> Seq(Listed)],
         push_back(r, commands)
  PROVE  /\ UploadCommands' \in [Runs -> Seq(Listed)]
         /\ \A q \in Runs : Len(UploadCommands'[q]) >= Len(UploadCommands[q])
<1>1. UploadCommands' = [UploadCommands EXCEPT ![r] = UploadCommands[r] \o commands]
  BY DEF push_back
<1>2. /\ UploadCommands[r] \o commands \in Seq(Listed)
      /\ Len(UploadCommands[r] \o commands) >= Len(UploadCommands[r])
  OBVIOUS
<1>3. \A q \in Runs : Len(UploadCommands[q]) \in Nat
  OBVIOUS
<1> QED
  BY <1>1, <1>2, <1>3

-----------------------------------------------------------------------------
(* Types. *)

\* What the types rest on: a run's settings are those of the command line, a
\* LOAD is of a table, and a run that may send commands has all of its tables.
TInv ==
  /\ TypeOK
  /\ set \in Settings
  /\ UploadCommands \in [Runs -> Seq(Listed)]
  /\ \A r \in Runs : phase[r] \in {"connect", "upload"} => built[r] = Len(Tables)

\* The command that is executed.
LEMMA NextListed ==
  ASSUME TInv, NEW r \in Runs, Executing(r)
  PROVE  next(r) \in Listed /\ pc[r] + 1 \in 1..Len(UploadCommands[r])
<1>1. /\ UploadCommands[r] \in Seq(Listed) /\ pc[r] \in Nat
      /\ pc[r] < Len(UploadCommands[r])
  BY DEF TInv, TypeOK, Executing
<1> QED
  BY <1>1 DEF next

\* What a command makes of its object, carried out, in part or not at all.
LEMMA Stored ==
  ASSUME TInv, NEW r \in Runs, Executing(r),
         \/ db' = db
         \/ Store(r, next(r).on, Effect(r, next(r)))
         \/ Store(r, next(r).on, Torn)
  PROVE  db' \in [Dbs -> [Objects -> ObjectVal]]
<1>1. /\ next(r).on \in Objects
      /\ next(r).op \in {"drop", "define", "create", "load"}
      /\ next(r).op = "load" => next(r).on \in TableSet
  BY NextListed DEF CommandType, Listed
<1>2. ASSUME next(r).op = "load" PROVE file[loadPath(r, next(r).on)] \in Rows
  BY <1>1, <1>2, SettingTypes DEF TInv, TypeOK
<1>3. Effect(r, next(r)) \in ObjectVal /\ Torn \in ObjectVal
  BY <1>1, <1>2 DEF Effect, ObjectVal, Rows
<1>4. PICK d \in Dbs : d = set[r].db
  BY SettingTypes DEF TInv
<1>5. CASE db' = db
  BY <1>5 DEF TInv, TypeOK
<1>6. ASSUME NEW v \in ObjectVal, Store(r, next(r).on, v)
      PROVE  db' \in [Dbs -> [Objects -> ObjectVal]]
  <2>1. db' = [db EXCEPT ![d] = [db[d] EXCEPT ![next(r).on] = v]]
    BY <1>4, <1>6 DEF Store
  <2>2. db \in [Dbs -> [Objects -> ObjectVal]]
    BY DEF TInv, TypeOK
  <2> QED
    BY <1>1, <2>1, <2>2
<1> QED
  BY <1>3, <1>5, <1>6

\* A table is listed whole, and its file is of the run, torn, or as it was.
LEMMA TableBuilt ==
  ASSUME TInv, NEW r \in Runs, WriteTable(r) \/ WriteTableFails(r)
  PROVE  TInv'
<1> USE DEF TInv, TypeOK
<1>1. PICK t \in TableSet :
        /\ BuildTable(r, t)
        /\ file' = file \/ \E v \in {r, Torn} : file' = [file EXCEPT ![outPath(r, t)] = v]
  BY DEF WriteTable, WriteTableFails
<1>2. built' \in [Runs -> 0..Len(Tables)] /\ built' = [built EXCEPT ![r] = built[r] + 1]
  BY <1>1, NameTypes DEF BuildTable
<1>3. /\ UploadCommands' \in [Runs -> Seq(Listed)]
      /\ \A q \in Runs : Len(UploadCommands'[q]) >= Len(UploadCommands[q])
  BY <1>1, ListedCommands, Pushed DEF BuildTable
<1>4. UploadCommands' \in [Runs -> Seq(CommandType)]
  BY <1>3, ListedIsCommand
<1>5. pc' = pc /\ \A q \in Runs : pc[q] <= Len(UploadCommands'[q])
  <2>1. \A q \in Runs : /\ pc[q] \in Nat /\ Len(UploadCommands[q]) \in Nat
                        /\ Len(UploadCommands'[q]) \in Nat
    BY <1>3
  <2> QED
    BY <1>1, <1>3, <2>1 DEF BuildTable
<1>6. file' \in [Path -> Rows]
  BY <1>1, SettingTypes DEF Rows
<1>7. writeFault' \in [Runs -> BOOLEAN]
  BY DEF WriteTable, WriteTableFails
<1>8. \A q \in Runs : phase'[q] \in {"connect", "upload"} => built'[q] = Len(Tables)
  BY <1>1, <1>2 DEF BuildTable
<1> QED
  BY <1>1, <1>2, <1>3, <1>4, <1>5, <1>6, <1>7, <1>8 DEF BuildTable

\* A procedure is listed with both of its halves or not at all.
LEMMA ProcedureRead ==
  ASSUME TInv, NEW r \in Runs, ReadProcedure(r)
  PROVE  TInv'
<1> USE DEF TInv, TypeOK
<1>1. proc' \in [Runs -> 0..Len(Procedures)]
  BY NameTypes DEF ReadProcedure
<1>2. Procedures[proc[r] + 1] \in Objects
  BY NameTypes DEF ReadProcedure
<1>3. /\ UploadCommands' \in [Runs -> Seq(Listed)]
      /\ \A q \in Runs : Len(UploadCommands'[q]) >= Len(UploadCommands[q])
  <2>1. CASE UploadCommands' = UploadCommands
    <3>1. \A q \in Runs : Len(UploadCommands[q]) \in Nat
      OBVIOUS
    <3> QED
      BY <2>1, <3>1
  <2>2. CASE UploadCommands' # UploadCommands
    BY <1>2, <2>2, ListedCommands, Pushed DEF ReadProcedure
  <2> QED
    BY <2>1, <2>2
<1>4. UploadCommands' \in [Runs -> Seq(CommandType)]
  BY <1>3, ListedIsCommand
<1>5. pc' = pc /\ \A q \in Runs : pc[q] <= Len(UploadCommands'[q])
  <2>1. \A q \in Runs : /\ pc[q] \in Nat /\ Len(UploadCommands[q]) \in Nat
                        /\ Len(UploadCommands'[q]) \in Nat
    BY <1>3
  <2> QED
    <3>1. pc' = pc
      BY DEF ReadProcedure
    <3>2. \A q \in Runs : pc[q] <= Len(UploadCommands[q])
      OBVIOUS
    <3> QED
      BY <1>3, <2>1, <3>1, <3>2
<1> QED
  BY <1>1, <1>3, <1>4, <1>5 DEF ReadProcedure, history

\* Every step keeps the types.
LEMMA TypeStep ==
  ASSUME TInv, [Next]_vars
  PROVE  TInv'
<1> USE DEF TInv, TypeOK, Phases, list, history
<1>1. CASE UNCHANGED vars
  BY <1>1 DEF vars
<1>2. ASSUME NEW r \in Runs, Start(r) PROVE TInv'
  <2>1. before' \in [Runs -> [Objects -> ObjectVal]]
    BY <1>2, SettingTypes DEF Start
  <2>2. last' \in [Dbs -> Runs \cup {Absent}]
    BY <1>2, SettingTypes DEF Start
  <2>3. disturbed' \in [Runs -> BOOLEAN]
    <3> HIDE DEF Active, Shares
    <3>1. \A q \in Runs : disturbed'[q] \in BOOLEAN
      BY <1>2, Zenon DEF Start
    <3> QED
      BY <1>2, <3>1 DEF Start
  <2>4. phase' \in [Runs -> Phases]
    BY <1>2 DEF Start
  <2>5. \A q \in Runs : phase'[q] \in {"connect", "upload"} => built'[q] = Len(Tables)
    BY <1>2 DEF Start
  <2> QED
    BY <1>2, <2>1, <2>2, <2>3, <2>4, <2>5 DEF Start
<1>3. ASSUME NEW r \in Runs, InitThrows(r) PROVE TInv'
  BY <1>3 DEF InitThrows
<1>4. ASSUME NEW r \in Runs, EndGenerate(r) \/ Connect(r) \/ Finish(r) PROVE TInv'
  BY <1>4 DEF EndGenerate, Connect, Finish
<1>5. ASSUME NEW r \in Runs, ConnectFails(r) PROVE TInv'
  BY <1>5 DEF ConnectFails
<1>6. ASSUME NEW r \in Runs, Execute(r) PROVE TInv'
  <2>1. Executing(r)
    BY <1>6 DEF Execute
  <2>2. db' \in [Dbs -> [Objects -> ObjectVal]]
    BY <1>6, <2>1, Stored DEF Execute
  <2>3. pc' \in [Runs -> Nat] /\ \A q \in Runs : pc'[q] <= Len(UploadCommands'[q])
    BY <1>6, <2>1, NextListed DEF Execute
  <2> QED
    BY <1>6, <2>2, <2>3 DEF Execute
<1>7. ASSUME NEW r \in Runs, ExecuteRejected(r) PROVE TInv'
  BY <1>7 DEF ExecuteRejected
<1>8. ASSUME NEW r \in Runs, ExecuteFails(r) PROVE TInv'
  <2>1. db' \in [Dbs -> [Objects -> ObjectVal]]
    BY <1>8, Stored DEF ExecuteFails, CutShort
  <2> QED
    BY <1>8, <2>1 DEF ExecuteFails
<1>9. ASSUME NEW r \in Runs, Crash(r) PROVE TInv'
  <2>1. db' \in [Dbs -> [Objects -> ObjectVal]]
    BY <1>9, Stored DEF Crash, CutShort
  <2>2. file' \in [Path -> Rows]
    <3>1. CASE file' = file
      BY <3>1
    <3>2. CASE file' # file
      <4>1. PICK v \in {r, Torn} :
              /\ built[r] < Len(Tables)
              /\ file' = [file EXCEPT ![outPath(r, Tables[built[r] + 1])] = v]
        BY <1>9, <3>2 DEF Crash
      <4>2. Tables[built[r] + 1] \in TableSet
        BY <4>1, NameTypes
      <4> QED
        BY <4>1, <4>2, SettingTypes DEF Rows
    <3> QED
      BY <3>1, <3>2
  <2> QED
    BY <1>9, <2>1, <2>2 DEF Crash
<1> QED
  BY <1>1, <1>2, <1>3, <1>4, <1>5, <1>6, <1>7, <1>8, <1>9, TableBuilt, ProcedureRead
     DEF Next, Progress, Fault

\* The initial state is well typed.
LEMMA InitTyped == Init => TInv
<1> SUFFICES ASSUME Init PROVE TInv
  OBVIOUS
<1> USE DEF Init
<1>1. set \in [Runs -> Setting]
  BY SettingsAssumption
<1>2. PICK v \in {Absent, Older} : /\ file = [p \in Path |-> v]
                                   /\ db = [d \in Dbs |-> [o \in Objects |-> v]]
  OBVIOUS
<1>3. file \in [Path -> Rows] /\ db \in [Dbs -> [Objects -> ObjectVal]]
  BY <1>2 DEF ObjectVal, Rows
<1>4. before \in [Runs -> [Objects -> ObjectVal]]
  BY <1>3, SettingTypes
<1>5. proc \in [Runs -> 0..Len(Procedures)] /\ built \in [Runs -> 0..Len(Tables)]
  BY NameTypes
<1>6. UploadCommands \in [Runs -> Seq(CommandType)] /\ UploadCommands \in [Runs -> Seq(Listed)]
  OBVIOUS
<1>7. \A r \in Runs : pc[r] <= Len(UploadCommands[r])
  OBVIOUS
<1> QED
  BY <1>1, <1>3, <1>4, <1>5, <1>6, <1>7 DEF TInv, TypeOK, Phases

\* What every later proof starts from.
LEMMA Typed == Spec => []TInv
  BY InitTyped, TypeStep, PTL DEF Spec

\* The runs, the files and the databases stay well typed, whatever overlaps,
\* fails or crashes: no command beyond the list is executed, and no LOAD names
\* a file that is not a table's.
THEOREM TypeCorrect == Spec => []TypeOK
<1>1. TInv => TypeOK
  BY DEF TInv
<1> QED
  BY <1>1, Typed, PTL

-----------------------------------------------------------------------------
(* Files before drops. *)

\* A database changes only by a command of a run that wrote all of its files.
THEOREM FilesComeFirst == Spec => FilesBeforeDrops
<1> DEFINE Guarded == \A d \in Dbs : db'[d] # db[d] =>
                        \E r \in Runs : set[r].db = d /\ Active(r) /\ built[r] = Len(Tables)
<1>1. TInv /\ [Next]_vars => [Guarded]_vars
  <2> SUFFICES ASSUME TInv, Next, NEW d \in Dbs, db'[d] # db[d]
               PROVE  \E r \in Runs : set[r].db = d /\ Active(r) /\ built[r] = Len(Tables)
    BY DEF Guarded
  <2>1. PICK r \in Runs : Execute(r) \/ ExecuteFails(r) \/ (Crash(r) /\ db' # db)
    BY DEF Next, Progress, Fault, Start, InitThrows, ReadProcedure, WriteTable,
      WriteTableFails, BuildTable, EndGenerate, Connect, ConnectFails,
      ExecuteRejected, Finish, Crash
  <2>2. Executing(r) /\ \E o, v : Store(r, o, v)
    BY <2>1 DEF Execute, ExecuteFails, Crash, CutShort
  <2>3. set[r].db = d
    BY <2>2 DEF Store, TInv, TypeOK
  <2>4. phase[r] = "upload"
    BY <2>2 DEF Executing
  <2> QED
    BY <2>3, <2>4 DEF Active, TInv
<1> QED
  BY <1>1, Typed, PTL DEF Spec, FilesBeforeDrops

-----------------------------------------------------------------------------
(* What a run leaves in its database. *)

(* The list of commands. *)

\* Every command but a DROP follows the one it relies on.
Chained(L) ==
  \A i \in 1..Len(L) :
    /\ L[i].op \in {"create", "define"} =>
         i > 1 /\ L[i - 1] = Command("drop", L[i].on)
    /\ L[i].op = "load" => i > 1 /\ L[i - 1] = Command("create", L[i].on)

\* Nothing on the list comes back to an object that was loaded or defined.
Conclusive(L) ==
  \A i, j \in 1..Len(L) :
    i < j /\ L[i].op \in {"load", "define"} => L[j].on # L[i].on

\* The tables follow the procedures, those of the first m procedures only ...
ProceduresFirst(L, m) ==
  \A i \in 1..Len(L) :
    IF L[i].on \in TableSet
    THEN \A j \in i..Len(L) : L[j].on \in TableSet
    ELSE \E k \in 1..m : L[i].on = Procedures[k]

\* ... and before a command on a table every earlier table is loaded; the
\* tables are the first n.
InOrder(L, n) ==
  \A i \in 1..Len(L), j \in 1..Len(Tables) :
    L[i].on = Tables[j] =>
      /\ j <= n
      /\ \A h \in 1..(j - 1) : \E g \in 1..(i - 1) : L[g] = Command("load", Tables[h])

Complete(L, n) ==
  \A j \in 1..n : \E i \in 1..Len(L) : L[i] = Command("load", Tables[j])

ListInv(L, m, n) ==
  /\ Chained(L)
  /\ Conclusive(L)
  /\ ProceduresFirst(L, m)
  /\ InOrder(L, n)
  /\ Complete(L, n)

\* Where a run is in its list.
RunInv(r) ==
  /\ ListInv(UploadCommands[r], proc[r], built[r])
  /\ proc[r] < Len(Procedures) => built[r] = 0
  /\ phase[r] \in {"new", "generate", "connect"} => pc[r] = 0
  /\ phase[r] = "new" => built[r] = 0 /\ proc[r] = 0 /\ UploadCommands[r] = <<>>
  /\ phase[r] = "ok" => built[r] = Len(Tables) /\ pc[r] = Len(UploadCommands[r])

-----------------------------------------------------------------------------
(* Runs that share a directory or a database. *)

\* Of two active runs that share one both are disturbed, and so is the last run
\* on a database while an earlier one is still active on it.
SharingInv ==
  /\ \A r \in Runs : last[set[r].db] = r => phase[r] # "new"
  /\ \A q, r \in Runs : q # r /\ Active(q) =>
       /\ Active(r) /\ Shares(q, r) => disturbed[r]
       /\ set[q].db = set[r].db /\ last[set[r].db] = r => disturbed[r]

-----------------------------------------------------------------------------
(* The database of an undisturbed run. *)

object(r, o) == db[set[r].db][o]

Outcome(r, c) ==
  CASE c.op = "drop"   -> Absent
    [] c.op = "define" -> Body
    [] c.op = "create" -> Empty
    [] c.op = "load"   -> r

\* Every table loaded and every procedure defined so far is as the run made it.
Achieved(r) ==
  \A i \in 1..pc[r] :
    UploadCommands[r][i].op \in {"load", "define"} =>
      object(r, UploadCommands[r][i].on) = Outcome(r, UploadCommands[r][i])

\* A table that no command executed so far is about is as the run found it.
Untouched(r) ==
  \A t \in TableSet :
    (\A i \in 1..pc[r] : UploadCommands[r][i].on # t) => object(r, t) = before[r][t]

\* The object of the command that was executed last is as this command left it.
JustDone(r) ==
  pc[r] > 0 => object(r, UploadCommands[r][pc[r]].on) = Outcome(r, UploadCommands[r][pc[r]])

FilesWritten(r) ==
  \A j \in 1..built[r] : file[loadPath(r, Tables[j])] = r

\* At most the k-th table is neither the run's nor as it was.
InTransit(r, k) ==
  /\ \A j \in 1..(k - 1) : object(r, Tables[j]) = r
  /\ \A j \in (k + 1)..Len(Tables) : object(r, Tables[j]) = before[r][Tables[j]]

DatabaseInv(r) ==
  Undisturbed(r) =>
    /\ Active(r) => FilesWritten(r)
    /\ phase[r] \in {"generate", "connect", "upload"} => Untouched(r)
    /\ phase[r] \in {"upload", "ok"} => Achieved(r)
    /\ phase[r] = "upload" => JustDone(r)
    /\ phase[r] \in {"failed", "crashed"} => \E k \in 0..Len(Tables) : InTransit(r, k)
    /\ phase[r] = "failed" => fault[r]

UploadInv ==
  /\ SharingInv
  /\ \A r \in Runs : RunInv(r) /\ DatabaseInv(r)

-----------------------------------------------------------------------------
(* Listing keeps the list in order. *)

\* A table is at one place of Tables, and is no procedure.
LEMMA NamesDiffer ==
  /\ \A i, j \in 1..Len(Tables) : Tables[i] = Tables[j] => i = j
  /\ \A i, j \in 1..Len(Procedures) : Procedures[i] = Procedures[j] => i = j
  /\ \A i \in 1..Len(Tables) : Tables[i] \in TableSet
  /\ \A i \in 1..Len(Procedures) : Procedures[i] \notin TableSet
  /\ \A t \in TableSet : \E j \in 1..Len(Tables) : t = Tables[j]
  BY NamesAssumption DEF Distinct, TableSet, Elements

\* The three commands of the next table.
LEMMA TableListed ==
  ASSUME NEW L \in Seq(Listed), NEW m \in Nat, NEW n \in Nat, n < Len(Tables),
         ListInv(L, m, n)
  PROVE  LET t == Tables[n + 1]
         IN ListInv(L \o <<Command("drop", t), Command("create", t), Command("load", t)>>,
                    m, n + 1)
<1> DEFINE t == Tables[n + 1]
           S == <<Command("drop", t), Command("create", t), Command("load", t)>>
           M == L \o S
<1>1. PICK l \in Nat : l = Len(L)
  OBVIOUS
<1>2. n + 1 \in 1..Len(Tables) /\ t \in TableSet /\ Len(Tables) \in Nat
  BY NameTypes
<1>3. S \in Seq(Listed) /\ Len(S) = 3
  BY <1>2, ListedCommands
<1>4. /\ Len(M) = l + 3
      /\ \A i \in 1..l : M[i] = L[i]
      /\ M[l + 1] = Command("drop", t)
      /\ M[l + 2] = Command("create", t)
      /\ M[l + 3] = Command("load", t)
  BY <1>1, <1>3
<1>5. \A i \in 1..(l + 3) : i \in 1..l \/ i = l + 1 \/ i = l + 2 \/ i = l + 3
  OBVIOUS
<1> HIDE DEF M, S
<1>6. \A i \in 1..l : L[i].on # t
  <2> SUFFICES ASSUME NEW i \in 1..l, L[i].on = t PROVE FALSE
    OBVIOUS
  <2>1. n + 1 <= n
    BY <1>1, <1>2 DEF ListInv, InOrder
  <2> QED
    BY <2>1
<1> HIDE DEF t
<1>7. /\ M[l + 1].op = "drop" /\ M[l + 1].on = t
      /\ M[l + 2].op = "create" /\ M[l + 2].on = t
      /\ M[l + 3].op = "load" /\ M[l + 3].on = t
  BY <1>4 DEF Command
<1>8. Chained(M)
  <2> SUFFICES ASSUME NEW i \in 1..(l + 3)
               PROVE  /\ M[i].op \in {"create", "define"} =>
                           i > 1 /\ M[i - 1] = Command("drop", M[i].on)
                      /\ M[i].op = "load" =>
                           i > 1 /\ M[i - 1] = Command("create", M[i].on)
    BY <1>4 DEF Chained
  <2>1. CASE i \in 1..l
    <3>1. i > 1 => i - 1 \in 1..l
      BY <2>1
    <3> QED
      BY <1>1, <1>4, <2>1, <3>1 DEF ListInv, Chained
  <2>2. CASE i = l + 1
    BY <1>7, <2>2
  <2>3. CASE i = l + 2
    BY <1>4, <1>7, <2>3
  <2>4. CASE i = l + 3
    BY <1>4, <1>7, <2>4
  <2> QED
    BY <1>5, <2>1, <2>2, <2>3, <2>4
<1>9. Conclusive(M)
  <2> SUFFICES ASSUME NEW i \in 1..(l + 3), NEW j \in 1..(l + 3), i < j,
                      M[i].op \in {"load", "define"}
               PROVE  M[j].on # M[i].on
    BY <1>4 DEF Conclusive
  <2>1. CASE j \in 1..l
    BY <1>1, <1>4, <2>1 DEF ListInv, Conclusive
  <2>2. CASE j \notin 1..l
    <3>1. M[j].on = t
      BY <1>5, <1>7, <2>2
    <3>2. i \in 1..l
      BY <1>5, <1>7, <2>2
    <3> QED
      BY <1>4, <1>6, <3>1, <3>2
  <2> QED
    BY <2>1, <2>2
<1>10. ProceduresFirst(M, m)
  <2> SUFFICES ASSUME NEW i \in 1..(l + 3)
               PROVE  IF M[i].on \in TableSet
                      THEN \A j \in i..(l + 3) : M[j].on \in TableSet
                      ELSE \E k \in 1..m : M[i].on = Procedures[k]
    BY <1>4 DEF ProceduresFirst
  <2>1. CASE i \in 1..l
    <3>1. CASE L[i].on \in TableSet
      <4>1. \A j \in i..l : L[j].on \in TableSet
        BY <1>1, <2>1, <3>1 DEF ListInv, ProceduresFirst
      <4>2. \A j \in i..(l + 3) : M[j].on \in TableSet
        BY <1>2, <1>4, <1>5, <1>7, <2>1, <4>1
      <4> QED
        BY <1>4, <2>1, <3>1, <4>2
    <3>2. CASE L[i].on \notin TableSet
      <4>1. \E k \in 1..m : L[i].on = Procedures[k]
        BY <1>1, <2>1, <3>2 DEF ListInv, ProceduresFirst
      <4> QED
        BY <1>4, <2>1, <3>2, <4>1
    <3> QED
      BY <3>1, <3>2
  <2>2. CASE i \notin 1..l
    <3>1. \A j \in i..(l + 3) : M[j].on = t
      BY <1>5, <1>7, <2>2
    <3> QED
      BY <1>2, <3>1
  <2> QED
    BY <2>1, <2>2
<1>11. \A h \in 1..n : \E g \in 1..l : M[g] = Command("load", Tables[h])
  BY <1>1, <1>4 DEF ListInv, Complete
<1>12. InOrder(M, n + 1)
  <2> SUFFICES ASSUME NEW i \in 1..(l + 3), NEW j \in 1..Len(Tables), M[i].on = Tables[j]
               PROVE  /\ j <= n + 1
                      /\ \A h \in 1..(j - 1) : \E g \in 1..(i - 1) :
                           M[g] = Command("load", Tables[h])
    BY <1>4 DEF InOrder
  <2>1. CASE i \in 1..l
    <3>1. i \in 1..Len(L) /\ L[i].on = Tables[j]
      BY <1>1, <1>4, <2>1
    <3>2. /\ j <= n
          /\ \A h \in 1..(j - 1) : \E g \in 1..(i - 1) : L[g] = Command("load", Tables[h])
      BY <3>1 DEF ListInv, InOrder
    <3>3. \A g \in 1..(i - 1) : g \in 1..l
      BY <2>1
    <3>4. ASSUME NEW h \in 1..(j - 1)
          PROVE  \E g \in 1..(i - 1) : M[g] = Command("load", Tables[h])
      <4>1. PICK g \in 1..(i - 1) : L[g] = Command("load", Tables[h])
        BY <3>2
      <4> QED
        BY <1>4, <3>3, <4>1
    <3>5. j <= n + 1
      BY <1>2, <3>2
    <3> QED
      BY <3>4, <3>5
  <2>2. CASE i \notin 1..l
    <3>1. M[i].on = t
      BY <1>5, <1>7, <2>2
    <3>2. j = n + 1
      BY <1>2, <3>1, NamesDiffer DEF t
    <3>3. \A g \in 1..l : g \in 1..(i - 1)
      BY <2>2
    <3>4. ASSUME NEW h \in 1..(j - 1)
          PROVE  \E g \in 1..(i - 1) : M[g] = Command("load", Tables[h])
      <4>1. h \in 1..n
        BY <3>2
      <4>2. PICK g \in 1..l : M[g] = Command("load", Tables[h])
        BY <1>11, <4>1
      <4> QED
        BY <3>3, <4>2
    <3> QED
      BY <3>2, <3>4
  <2> QED
    BY <2>1, <2>2
<1>13. Complete(M, n + 1)
  <2> SUFFICES ASSUME NEW j \in 1..(n + 1)
               PROVE  \E i \in 1..(l + 3) : M[i] = Command("load", Tables[j])
    BY <1>4 DEF Complete
  <2>1. CASE j \in 1..n
    BY <1>11, <2>1
  <2>2. CASE j = n + 1
    BY <1>4, <2>2 DEF t
  <2> QED
    BY <2>1, <2>2
<1> QED
  BY <1>8, <1>9, <1>10, <1>12, <1>13 DEF ListInv, M, S, t

\* The two commands of the next procedure, while no table is listed.
LEMMA ProcedureListed ==
  ASSUME NEW L \in Seq(Listed), NEW m \in Nat, m < Len(Procedures),
         ListInv(L, m, 0)
  PROVE  LET p == Procedures[m + 1]
         IN ListInv(L \o <<Command("drop", p), Command("define", p)>>, m + 1, 0)
<1> DEFINE p == Procedures[m + 1]
           S == <<Command("drop", p), Command("define", p)>>
           M == L \o S
<1>1. PICK l \in Nat : l = Len(L)
  OBVIOUS
<1>2. m + 1 \in 1..Len(Procedures) /\ p \in Objects /\ p \notin TableSet
  BY NameTypes, NamesDiffer
<1>3. S \in Seq(Listed) /\ Len(S) = 2
  BY <1>2, ListedCommands
<1>4. /\ Len(M) = l + 2
      /\ \A i \in 1..l : M[i] = L[i]
      /\ M[l + 1] = Command("drop", p)
      /\ M[l + 2] = Command("define", p)
  BY <1>1, <1>3
<1>5. \A i \in 1..(l + 2) : i \in 1..l \/ i = l + 1 \/ i = l + 2
  OBVIOUS
<1> HIDE DEF M, S
<1>6. \A i \in 1..l : \E k \in 1..m : L[i].on = Procedures[k]
  <2> SUFFICES ASSUME NEW i \in 1..l PROVE \E k \in 1..m : L[i].on = Procedures[k]
    OBVIOUS
  <2>1. L[i].on \notin TableSet
    <3> SUFFICES ASSUME NEW j \in 1..Len(Tables), L[i].on = Tables[j] PROVE FALSE
      BY NamesDiffer
    <3>1. j <= 0
      BY <1>1 DEF ListInv, InOrder
    <3> QED
      BY <3>1
  <2> QED
    BY <1>1, <2>1 DEF ListInv, ProceduresFirst
<1>7. \A i \in 1..l : L[i].on # p
  <2> SUFFICES ASSUME NEW i \in 1..l, L[i].on = p PROVE FALSE
    OBVIOUS
  <2>1. PICK k \in 1..m : L[i].on = Procedures[k]
    BY <1>6
  <2>2. k \in 1..Len(Procedures) /\ k # m + 1
    BY <1>2
  <2> QED
    BY <1>2, <2>1, <2>2, NamesDiffer
<1> HIDE DEF p
<1>8. /\ M[l + 1].op = "drop" /\ M[l + 1].on = p
      /\ M[l + 2].op = "define" /\ M[l + 2].on = p
  BY <1>4 DEF Command
<1>9. Chained(M)
  <2> SUFFICES ASSUME NEW i \in 1..(l + 2)
               PROVE  /\ M[i].op \in {"create", "define"} =>
                           i > 1 /\ M[i - 1] = Command("drop", M[i].on)
                      /\ M[i].op = "load" =>
                           i > 1 /\ M[i - 1] = Command("create", M[i].on)
    BY <1>4 DEF Chained
  <2>1. CASE i \in 1..l
    <3>1. i > 1 => i - 1 \in 1..l
      BY <2>1
    <3> QED
      BY <1>1, <1>4, <2>1, <3>1 DEF ListInv, Chained
  <2>2. CASE i = l + 1
    BY <1>8, <2>2
  <2>3. CASE i = l + 2
    BY <1>4, <1>8, <2>3
  <2> QED
    BY <1>5, <2>1, <2>2, <2>3
<1>10. Conclusive(M)
  <2> SUFFICES ASSUME NEW i \in 1..(l + 2), NEW j \in 1..(l + 2), i < j,
                      M[i].op \in {"load", "define"}
               PROVE  M[j].on # M[i].on
    BY <1>4 DEF Conclusive
  <2>1. CASE j \in 1..l
    BY <1>1, <1>4, <2>1 DEF ListInv, Conclusive
  <2>2. CASE j \notin 1..l
    <3>1. M[j].on = p
      BY <1>5, <1>8, <2>2
    <3>2. i \in 1..l
      BY <1>5, <1>8, <2>2
    <3> QED
      BY <1>4, <1>7, <3>1, <3>2
  <2> QED
    BY <2>1, <2>2
<1>11. \A i \in 1..(l + 2) : \E k \in 1..(m + 1) : M[i].on = Procedures[k]
  <2> SUFFICES ASSUME NEW i \in 1..(l + 2)
               PROVE  \E k \in 1..(m + 1) : M[i].on = Procedures[k]
    OBVIOUS
  <2>1. CASE i \in 1..l
    <3>1. PICK k \in 1..m : L[i].on = Procedures[k]
      BY <1>6, <2>1
    <3> QED
      BY <1>4, <2>1, <3>1
  <2>2. CASE i \notin 1..l
    BY <1>5, <1>8, <2>2 DEF p
  <2> QED
    BY <2>1, <2>2
<1>12. \A i \in 1..(l + 2) : M[i].on \notin TableSet
  <2>1. \A k \in 1..(m + 1) : k \in 1..Len(Procedures)
    BY <1>2
  <2> QED
    BY <1>11, <2>1, NamesDiffer
<1>13. ProceduresFirst(M, m + 1)
  BY <1>4, <1>11, <1>12 DEF ProceduresFirst
<1>14. InOrder(M, 0)
  BY <1>4, <1>12, NamesDiffer DEF InOrder
<1>15. Complete(M, 0)
  BY DEF Complete
<1> QED
  BY <1>9, <1>10, <1>13, <1>14, <1>15 DEF ListInv, M, S, p

-----------------------------------------------------------------------------
(* What a step of one run leaves alone. *)

StepOf(q) == Start(q) \/ InitThrows(q) \/ Progress(q) \/ Fault(q)

\* Where the other runs are is their own affair.
LEMMA OthersKept ==
  ASSUME TInv, NEW q \in Runs, NEW r \in Runs, q # r, StepOf(q)
  PROVE  /\ phase'[r] = phase[r] /\ proc'[r] = proc[r] /\ built'[r] = built[r]
         /\ UploadCommands'[r] = UploadCommands[r] /\ pc'[r] = pc[r]
         /\ before'[r] = before[r] /\ fault'[r] = fault[r]
         /\ writeFault'[r] = writeFault[r]
<1> USE DEF TInv, TypeOK, list, history
<1>1. CASE Start(q) \/ InitThrows(q)
  BY <1>1 DEF Start, InitThrows
<1>2. CASE ReadProcedure(q)
  BY <1>2 DEF ReadProcedure, push_back
<1>3. CASE WriteTable(q) \/ WriteTableFails(q)
  BY <1>3 DEF WriteTable, WriteTableFails, BuildTable, push_back
<1>4. CASE EndGenerate(q) \/ Connect(q) \/ Finish(q) \/ ConnectFails(q)
  BY <1>4 DEF EndGenerate, Connect, Finish, ConnectFails
<1>5. CASE Execute(q) \/ ExecuteRejected(q) \/ ExecuteFails(q)
  BY <1>5 DEF Execute, ExecuteRejected, ExecuteFails
<1>6. CASE Crash(q)
  BY <1>6 DEF Crash
<1> QED
  BY <1>1, <1>2, <1>3, <1>4, <1>5, <1>6 DEF StepOf, Progress, Fault

\* Settings are fixed; only Start makes a run active or says which is the last.
LEMMA SharesKept ==
  ASSUME TInv, NEW q \in Runs, StepOf(q)
  PROVE  /\ set' = set
         /\ phase'[q] # "new"
         /\ ~Start(q) => /\ last' = last /\ disturbed' = disturbed /\ before' = before
                         /\ phase'[q] \in {"generate", "connect", "upload"} => Active(q)
<1> USE DEF TInv, TypeOK, list, history, Active
<1>1. CASE Start(q)
  BY <1>1 DEF Start
<1>2. CASE InitThrows(q)
  BY <1>2 DEF InitThrows
<1>3. CASE ReadProcedure(q)
  BY <1>3 DEF ReadProcedure
<1>4. CASE WriteTable(q) \/ WriteTableFails(q)
  BY <1>4 DEF WriteTable, WriteTableFails, BuildTable
<1>5. CASE EndGenerate(q) \/ Connect(q) \/ Finish(q) \/ ConnectFails(q)
  BY <1>5 DEF EndGenerate, Connect, Finish, ConnectFails
<1>6. CASE Execute(q) \/ ExecuteRejected(q) \/ ExecuteFails(q)
  BY <1>6 DEF Execute, ExecuteRejected, ExecuteFails, Executing
<1>7. CASE Crash(q)
  BY <1>7 DEF Crash
<1> QED
  BY <1>1, <1>2, <1>3, <1>4, <1>5, <1>6, <1>7 DEF StepOf, Progress, Fault

\* A command changes one object of one database.
LEMMA StoreOne ==
  ASSUME TInv, NEW r \in Runs, NEW o \in Objects, NEW v, Store(r, o, v)
  PROVE  /\ db'[set[r].db][o] = v
         /\ \A p \in Objects : p # o => db'[set[r].db][p] = db[set[r].db][p]
         /\ \A d \in Dbs : d # set[r].db => db'[d] = db[d]
<1>1. PICK d \in Dbs : d = set[r].db
  BY SettingTypes DEF TInv
<1>2. db \in [Dbs -> [Objects -> ObjectVal]]
  BY DEF TInv, TypeOK
<1>3. db' = [db EXCEPT ![d] = [db[d] EXCEPT ![o] = v]]
  BY <1>1 DEF Store
<1> QED
  BY <1>1, <1>2, <1>3

\* Only an upload changes a database, and only its own.
LEMMA DatabaseKept ==
  ASSUME TInv, NEW q \in Runs, StepOf(q), NEW d \in Dbs, db'[d] # db[d]
  PROVE  d = set[q].db /\ phase[q] = "upload"
<1> USE DEF list, history
<1>1. Execute(q) \/ ExecuteFails(q) \/ (Crash(q) /\ db' # db)
  BY DEF StepOf, Progress, Fault, Start, InitThrows, ReadProcedure, WriteTable,
    WriteTableFails, BuildTable, EndGenerate, Connect, ConnectFails,
    ExecuteRejected, Finish, Crash
<1>2. Executing(q) /\ \E v : Store(q, next(q).on, v)
  BY <1>1 DEF Execute, ExecuteFails, Crash, CutShort
<1>3. next(q).on \in Objects
  BY <1>2, NextListed DEF Listed, CommandType
<1> QED
  BY <1>2, <1>3, StoreOne DEF Executing

\* Only an active run writes files, and only in its own directory.
LEMMA FilesKept ==
  ASSUME TInv, NEW q \in Runs, StepOf(q), NEW p \in Path, file'[p] # file[p]
  PROVE  p.dir = set[q].dir /\ Active(q)
<1> USE DEF list, history
<1>1. WriteTable(q) \/ WriteTableFails(q) \/ (Crash(q) /\ file' # file)
  BY DEF StepOf, Progress, Fault, Start, InitThrows, ReadProcedure, WriteTable,
    WriteTableFails, BuildTable, EndGenerate, Connect, ConnectFails, Execute,
    ExecuteRejected, ExecuteFails, Finish, Crash
<1>2. Active(q) /\ \E t, v : file' = [file EXCEPT ![outPath(q, t)] = v]
  BY <1>1 DEF WriteTable, WriteTableFails, BuildTable, Crash, Active
<1>3. PICK t, v : file' = [file EXCEPT ![outPath(q, t)] = v]
  BY <1>2
<1>4. p = outPath(q, t)
  BY <1>3 DEF TInv, TypeOK
<1> QED
  BY <1>2, <1>4 DEF outPath

-----------------------------------------------------------------------------
(* Every step keeps the runs in their lists and the sharing on record. *)

\* A run only lists what the list has room for, and executes what is listed.
LEMMA RunStep ==
  ASSUME TInv, NEW q \in Runs, StepOf(q), NEW r \in Runs, RunInv(r)
  PROVE  RunInv(r)'
<1>1. CASE q # r
  BY <1>1, OthersKept DEF RunInv
<1>2. CASE q = r
  <2> USE <1>2
  <2>0. /\ UploadCommands \in [Runs -> Seq(Listed)]
        /\ proc \in [Runs -> 0..Len(Procedures)] /\ built \in [Runs -> 0..Len(Tables)]
        /\ pc \in [Runs -> Nat] /\ phase \in [Runs -> Phases]
        /\ Len(Tables) \in Nat /\ Len(Procedures) \in Nat
        /\ phase[r] = "upload" => built[r] = Len(Tables)
    BY NameTypes DEF TInv, TypeOK
  <2>1. CASE Start(r) \/ InitThrows(r) \/ EndGenerate(r) \/ Connect(r) \/ ConnectFails(r)
    BY <2>0, <2>1 DEF Start, InitThrows, EndGenerate, Connect, ConnectFails, RunInv,
                      list, history
  <2>2. CASE Execute(r) \/ ExecuteRejected(r) \/ ExecuteFails(r) \/ Crash(r) \/ Finish(r)
    BY <2>0, <2>2 DEF Execute, ExecuteRejected, ExecuteFails, Executing, Crash, Finish,
                      RunInv, list, history
  <2>3. CASE ReadProcedure(r)
    <3>1. PICK m \in Nat : m = proc[r]
      BY <2>0
    <3>2. m < Len(Procedures) /\ proc'[r] = m + 1 /\ built' = built /\ built[r] = 0
      BY <2>0, <2>3, <3>1 DEF ReadProcedure, RunInv
    <3>3. PICK L \in Seq(Listed) : L = UploadCommands[r]
      BY <2>0
    <3>4. ListInv(L, m, 0)
      BY <3>1, <3>2, <3>3 DEF RunInv
    <3>5. ListInv(UploadCommands'[r], m + 1, 0)
      <4>1. CASE UploadCommands' = UploadCommands
        <5>1. \A k \in 1..m : k \in 1..(m + 1)
          OBVIOUS
        <5>2. ProceduresFirst(L, m + 1)
          BY <3>4, <5>1 DEF ListInv, ProceduresFirst
        <5> QED
          BY <3>3, <3>4, <4>1, <5>2 DEF ListInv
      <4>2. CASE UploadCommands' # UploadCommands
        <5> DEFINE S == <<Command("drop", Procedures[m + 1]), Command("define", Procedures[m + 1])>>
        <5>1. push_back(r, S)
          BY <2>3, <3>1, <4>2 DEF ReadProcedure
        <5>2. UploadCommands'[r] = L \o S
          BY <2>0, <3>3, <5>1 DEF push_back
        <5> QED
          BY <3>2, <3>4, <5>2, ProcedureListed
      <4> QED
        BY <4>1, <4>2
    <3>6. phase' = phase /\ pc' = pc /\ phase[r] = "generate"
      BY <2>3 DEF ReadProcedure
    <3> QED
      BY <3>2, <3>5, <3>6 DEF RunInv
  <2>4. CASE WriteTable(r) \/ WriteTableFails(r)
    <3>1. PICK t \in TableSet : BuildTable(r, t)
      BY <2>4 DEF WriteTable, WriteTableFails
    <3>2. PICK n \in Nat : n = built[r]
      BY <2>0
    <3>3. PICK m \in Nat : m = proc[r]
      BY <2>0
    <3>4. PICK L \in Seq(Listed) : L = UploadCommands[r]
      BY <2>0
    <3>5. /\ n < Len(Tables) /\ built'[r] = n + 1 /\ proc' = proc /\ t = Tables[n + 1]
          /\ m = Len(Procedures)
      BY <2>0, <3>1, <3>2, <3>3 DEF BuildTable
    <3> DEFINE S == <<Command("drop", Tables[n + 1]), Command("create", Tables[n + 1]),
                      Command("load", Tables[n + 1])>>
    <3>6. UploadCommands'[r] = L \o S
      BY <2>0, <3>1, <3>4, <3>5 DEF BuildTable, push_back
    <3>7. ListInv(L, m, n)
      BY <3>2, <3>3, <3>4 DEF RunInv
    <3>8. ListInv(UploadCommands'[r], m, n + 1)
      BY <3>5, <3>6, <3>7, TableListed
    <3>9. phase' = phase /\ pc' = pc /\ phase[r] = "generate"
      BY <3>1 DEF BuildTable
    <3> QED
      BY <3>3, <3>5, <3>8, <3>9 DEF RunInv
  <2> QED
    BY <2>1, <2>2, <2>3, <2>4 DEF StepOf, Progress, Fault
<1> QED
  BY <1>1, <1>2

\* Start records who shares what; no other step makes a run active.
LEMMA SharingStep ==
  ASSUME TInv, NEW p \in Runs, StepOf(p), SharingInv
  PROVE  SharingInv'
<1>1. /\ set' = set
      /\ set \in [Runs -> Setting] /\ disturbed \in [Runs -> BOOLEAN]
      /\ phase \in [Runs -> Phases] /\ last \in [Dbs -> Runs \cup {Absent}]
      /\ \A r \in Runs : set[r].db \in Dbs
  BY SharesKept, SettingTypes DEF TInv, TypeOK
<1>2. \A r \in Runs \ {p} : phase'[r] = phase[r]
  BY OthersKept
<1>3. CASE Start(p)
  <2>1. /\ last' = [last EXCEPT ![set[p].db] = p]
        /\ \A q \in Runs : disturbed[q] => disturbed'[q]
        /\ \A q \in Runs \ {p} : Active(q) /\ Shares(q, p) => disturbed'[q] /\ disturbed'[p]
        /\ phase'[p] = "generate"
    BY <1>1, <1>3 DEF Start
  <2>2. \A r \in Runs : last'[set[r].db] = r => phase'[r] # "new"
    BY <1>1, <1>2, <2>1 DEF SharingInv
  <2>3. ASSUME NEW q \in Runs, NEW r \in Runs, q # r, Active(q)', Active(r)', Shares(q, r)
        PROVE  disturbed'[r]
    <3>1. q # p => Active(q)
      BY <1>2, <2>3 DEF Active
    <3>2. r # p => Active(r)
      BY <1>2, <2>3 DEF Active
    <3>3. Shares(r, q)
      BY <2>3 DEF Shares
    <3> QED
      BY <2>1, <2>3, <3>1, <3>2, <3>3 DEF SharingInv
  <2>4. ASSUME NEW q \in Runs, NEW r \in Runs, q # r, Active(q)', set[q].db = set[r].db,
               last'[set[r].db] = r
        PROVE  disturbed'[r]
    <3>1. CASE r = p
      <4>1. Active(q) /\ Shares(q, p)
        BY <1>2, <2>4, <3>1 DEF Active, Shares
      <4> QED
        BY <2>1, <2>4, <3>1, <4>1
    <3>2. CASE r # p
      <4>1. set[r].db # set[p].db
        BY <1>1, <2>1, <2>4, <3>2
      <4>2. last[set[r].db] = r /\ q # p
        BY <1>1, <2>1, <2>4, <4>1
      <4>3. Active(q)
        BY <1>2, <2>4, <4>2 DEF Active
      <4> QED
        BY <2>1, <2>4, <4>2, <4>3 DEF SharingInv
    <3> QED
      BY <3>1, <3>2
  <2>5. \A q, r \in Runs : Shares(q, r)' <=> Shares(q, r)
    BY <1>1 DEF Shares
  <2> QED
    BY <1>1, <2>2, <2>3, <2>4, <2>5 DEF SharingInv
<1>4. CASE ~Start(p)
  <2>1. last' = last /\ disturbed' = disturbed /\ phase'[p] # "new"
    BY <1>4, SharesKept
  <2>2. \A q \in Runs : Active(q)' => Active(q)
    BY <1>2, <1>4, SharesKept DEF Active
  <2>3. \A q, r \in Runs : Shares(q, r)' <=> Shares(q, r)
    BY <1>1 DEF Shares
  <2> QED
    BY <1>1, <1>2, <2>1, <2>2, <2>3 DEF SharingInv
<1> QED
  BY <1>3, <1>4

-----------------------------------------------------------------------------
(* An undisturbed run between two commands. *)

\* Where the tables are, counted from the command that comes next: those before
\* the k-th are loaded, nothing was done to those after it, and if the command
\* is about a table, then it is the k-th.
LEMMA Position ==
  ASSUME TInv, NEW r \in Runs, RunInv(r), Executing(r)
  PROVE  \E k \in 0..Len(Tables) :
           /\ \A j \in 1..(k - 1) : \E i \in 1..pc[r] :
                UploadCommands[r][i] = Command("load", Tables[j])
           /\ \A j \in (k + 1)..Len(Tables) : \A i \in 1..pc[r] :
                UploadCommands[r][i].on # Tables[j]
           /\ \A j \in 1..Len(Tables) : j # k => next(r).on # Tables[j]
<1>1. PICK n \in Nat : n = pc[r]
  BY DEF TInv, TypeOK
<1>2. PICK L \in Seq(Listed) : L = UploadCommands[r]
  BY DEF TInv
<1>3. n + 1 \in 1..Len(L) /\ next(r) = L[n + 1] /\ Len(L) \in Nat /\ Len(Tables) \in Nat
  BY <1>1, <1>2, NextListed, NameTypes DEF next
<1>4. /\ ProceduresFirst(L, proc[r]) /\ Conclusive(L) /\ InOrder(L, built[r])
  BY <1>2 DEF RunInv, ListInv
<1>5. CASE L[n + 1].on \in TableSet
  <2>1. PICK k \in 1..Len(Tables) : L[n + 1].on = Tables[k]
    BY <1>5, NamesDiffer
  <2>2. \A j \in 1..(k - 1) : \E i \in 1..n : L[i] = Command("load", Tables[j])
    <3>1. (n + 1) - 1 = n
      OBVIOUS
    <3> QED
      BY <1>3, <1>4, <2>1, <3>1 DEF InOrder
  <2>3. ASSUME NEW j \in (k + 1)..Len(Tables), NEW i \in 1..n, L[i].on = Tables[j]
        PROVE  FALSE
    <3>1. j \in 1..Len(Tables) /\ k \in 1..(j - 1) /\ i \in 1..Len(L)
      BY <1>3
    <3>2. PICK g \in 1..(i - 1) : L[g] = Command("load", Tables[k])
      BY <1>4, <2>3, <3>1 DEF InOrder
    <3>3. L[g].op = "load" /\ L[g].on = Tables[k] /\ g \in 1..Len(L) /\ g < n + 1
      BY <1>3, <3>2 DEF Command
    <3> QED
      BY <1>3, <1>4, <2>1, <3>3 DEF Conclusive
  <2>4. \A j \in 1..Len(Tables) : j # k => L[n + 1].on # Tables[j]
    BY <2>1, NamesDiffer
  <2>5. k \in 0..Len(Tables)
    OBVIOUS
  <2> QED
    BY <1>1, <1>2, <1>3, <2>2, <2>3, <2>4, <2>5
<1>6. CASE L[n + 1].on \notin TableSet
  <2>1. \A i \in 1..n : L[i].on \notin TableSet
    <3> SUFFICES ASSUME NEW i \in 1..n, L[i].on \in TableSet PROVE FALSE
      OBVIOUS
    <3>1. i \in 1..Len(L) /\ n + 1 \in i..Len(L)
      BY <1>3
    <3> QED
      BY <1>4, <1>6, <3>1 DEF ProceduresFirst
  <2>2. \A j \in (0 + 1)..Len(Tables) : \A i \in 1..n : L[i].on # Tables[j]
    BY <2>1, NamesDiffer
  <2>3. \A j \in 1..Len(Tables) : L[n + 1].on # Tables[j]
    BY <1>6, NamesDiffer
  <2>4. 0 \in 0..Len(Tables) /\ \A j \in 1..(0 - 1) : FALSE
    BY <1>3
  <2> QED
    BY <1>1, <1>2, <1>3, <2>2, <2>3, <2>4
<1> QED
  BY <1>5, <1>6

\* The server accepts the next command and makes of it what it says.
LEMMA Ready ==
  ASSUME TInv, NEW r \in Runs, RunInv(r), DatabaseInv(r), Undisturbed(r), Executing(r)
  PROVE  /\ Accepted(r, next(r))
         /\ Effect(r, next(r)) = Outcome(r, next(r))
<1>1. PICK n \in Nat : n = pc[r]
  BY DEF TInv, TypeOK
<1>2. PICK L \in Seq(Listed) : L = UploadCommands[r]
  BY DEF TInv
<1>3. n + 1 \in 1..Len(L) /\ next(r) = L[n + 1] /\ L[n + 1] \in Listed
  BY <1>1, <1>2, NextListed DEF next
<1>4. PICK c \in Listed : c = L[n + 1]
  BY <1>3
<1>5. phase[r] = "upload" /\ Active(r)
  BY DEF Executing, Active
<1>6. c.op \in {"drop", "define", "create", "load"}
  BY DEF Listed, CommandType
<1>7. Chained(L) /\ InOrder(L, built[r])
  BY <1>2 DEF RunInv, ListInv
<1>8. (n + 1) - 1 = n /\ (n + 1 > 1 => n > 0)
  OBVIOUS
<1>9. n > 0 => object(r, L[n].on) = Outcome(r, L[n])
  BY <1>1, <1>2, <1>5 DEF DatabaseInv, JustDone
<1>10. CASE c.op = "drop"
  BY <1>3, <1>4, <1>10 DEF Accepted, Effect, Outcome
<1>11. CASE c.op \in {"create", "define"}
  <2>1. n > 0 /\ L[n] = Command("drop", c.on)
    BY <1>3, <1>4, <1>7, <1>8, <1>11 DEF Chained
  <2>2. object(r, c.on) = Absent
    BY <1>9, <2>1 DEF Command, Outcome
  <2> QED
    BY <1>3, <1>4, <1>11, <2>2 DEF Accepted, Effect, Outcome, object
<1>12. CASE c.op = "load"
  <2>1. n > 0 /\ L[n] = Command("create", c.on)
    BY <1>3, <1>4, <1>7, <1>8, <1>12 DEF Chained
  <2>2. object(r, c.on) = Empty
    BY <1>9, <2>1 DEF Command, Outcome
  <2>3. PICK j \in 1..Len(Tables) : c.on = Tables[j]
    BY <1>12, NamesDiffer DEF Listed
  <2>4. j \in 1..built[r]
    <3>1. j <= built[r]
      BY <1>3, <1>4, <1>7, <2>3 DEF InOrder
    <3> QED
      BY <3>1, NameTypes DEF TInv, TypeOK
  <2>5. file[loadPath(r, c.on)] = r
    BY <1>5, <2>3, <2>4 DEF DatabaseInv, FilesWritten
  <2>6. Empty # Absent /\ r # Absent
    BY ValuesAssumption
  <2> QED
    BY <1>3, <1>4, <1>12, <2>2, <2>5, <2>6 DEF Accepted, Effect, Outcome, object
<1> QED
  BY <1>6, <1>10, <1>11, <1>12

\* With all of the list executed every table is the run's own.
LEMMA AllLoaded ==
  ASSUME NEW r \in Runs, RunInv(r), Achieved(r),
         pc[r] = Len(UploadCommands[r]), built[r] = Len(Tables)
  PROVE  \A t \in TableSet : object(r, t) = r
<1> SUFFICES ASSUME NEW t \in TableSet PROVE object(r, t) = r
  OBVIOUS
<1>1. PICK j \in 1..Len(Tables) : t = Tables[j]
  BY NamesDiffer
<1>2. PICK i \in 1..pc[r] : UploadCommands[r][i] = Command("load", t)
  BY <1>1 DEF RunInv, ListInv, Complete
<1> QED
  BY <1>2 DEF Achieved, Command, Outcome

\* Wherever such a run is, and whatever becomes of the command under way, one
\* table at most is neither its own nor as it was: D is the database then.
LEMMA UnderWay ==
  ASSUME TInv, NEW r \in Runs, RunInv(r), DatabaseInv(r), Undisturbed(r), Active(r), NEW D,
         \A o \in Objects : D[o] = object(r, o) \/ (Executing(r) /\ o = next(r).on)
  PROVE  \E k \in 0..Len(Tables) :
           /\ \A j \in 1..(k - 1) : D[Tables[j]] = r
           /\ \A j \in (k + 1)..Len(Tables) : D[Tables[j]] = before[r][Tables[j]]
<1>0. Len(Tables) \in Nat /\ \A j \in 1..Len(Tables) : Tables[j] \in TableSet /\ Tables[j] \in Objects
  BY NameTypes
<1>1. Untouched(r)
  BY DEF DatabaseInv, Active
<1>2. CASE Executing(r)
  <2>1. PICK k \in 0..Len(Tables) :
           /\ \A j \in 1..(k - 1) : \E i \in 1..pc[r] :
                UploadCommands[r][i] = Command("load", Tables[j])
           /\ \A j \in (k + 1)..Len(Tables) : \A i \in 1..pc[r] :
                UploadCommands[r][i].on # Tables[j]
           /\ \A j \in 1..Len(Tables) : j # k => next(r).on # Tables[j]
    BY <1>2, Position
  <2>2. \A j \in 1..Len(Tables) : j # k => D[Tables[j]] = object(r, Tables[j])
    BY <1>0, <2>1
  <2>3. Achieved(r)
    BY <1>2 DEF Executing, DatabaseInv
  <2>4. ASSUME NEW j \in 1..(k - 1) PROVE D[Tables[j]] = r
    <3>1. PICK i \in 1..pc[r] : UploadCommands[r][i] = Command("load", Tables[j])
      BY <2>1
    <3>2. object(r, Tables[j]) = r
      BY <2>3, <3>1 DEF Achieved, Command, Outcome
    <3> QED
      BY <1>0, <2>2, <3>2
  <2>5. ASSUME NEW j \in (k + 1)..Len(Tables)
        PROVE  D[Tables[j]] = before[r][Tables[j]]
    <3>1. j \in 1..Len(Tables) /\ j # k
      BY <1>0
    <3> QED
      BY <1>0, <1>1, <2>1, <2>2, <3>1 DEF Untouched
  <2> QED
    BY <2>4, <2>5
<1>3. CASE ~Executing(r) /\ phase[r] = "upload"
  <2>1. pc[r] = Len(UploadCommands[r]) /\ built[r] = Len(Tables)
    BY <1>3 DEF Executing, TInv, TypeOK
  <2>2. ASSUME NEW j \in 1..Len(Tables) PROVE D[Tables[j]] = r
    <3>1. Achieved(r)
      BY <1>3 DEF DatabaseInv
    <3>2. object(r, Tables[j]) = r
      BY <1>0, <2>1, <3>1, AllLoaded
    <3> QED
      BY <1>0, <1>3, <3>2
  <2>3. /\ \A j \in 1..(Len(Tables) - 1) : j \in 1..Len(Tables)
        /\ \A j \in (Len(Tables) + 1)..Len(Tables) : FALSE
        /\ Len(Tables) \in 0..Len(Tables)
    BY <1>0
  <2> QED
    BY <2>2, <2>3
<1>4. CASE phase[r] # "upload"
  <2>1. pc[r] = 0 /\ ~Executing(r)
    BY <1>4 DEF RunInv, Active, Executing
  <2>2. \A j \in 1..Len(Tables) : D[Tables[j]] = before[r][Tables[j]]
    BY <1>0, <1>1, <2>1 DEF Untouched
  <2>3. /\ \A j \in 1..(0 - 1) : FALSE
        /\ 0 \in 0..Len(Tables) /\ 0 + 1 = 1
    BY <1>0
  <2> QED
    BY <2>2, <2>3
<1> QED
  BY <1>2, <1>3, <1>4

-----------------------------------------------------------------------------
(* Every step keeps the database of an undisturbed run. *)

\* A run that is undisturbed after a step, and did not start with it, was so
\* before.
LEMMA StillUndisturbed ==
  ASSUME TInv, NEW q \in Runs, NEW r \in Runs, StepOf(q), ~(q = r /\ Start(r)),
         SharingInv, Undisturbed(r)'
  PROVE  Undisturbed(r)
<1>1. /\ set' = set /\ disturbed \in [Runs -> BOOLEAN]
      /\ phase \in [Runs -> Phases] /\ last \in [Dbs -> Runs \cup {Absent}]
      /\ writeFault \in [Runs -> BOOLEAN]
      /\ set[r].db \in Dbs /\ set[q].db \in Dbs
  BY SharesKept, SettingTypes DEF TInv, TypeOK
<1>2. writeFault[r] => writeFault'[r]
  <2>1. CASE q # r
    BY <2>1, OthersKept
  <2>2. CASE q = r
    BY <1>1, <2>2 DEF StepOf, Progress, Fault, Start, InitThrows, ReadProcedure,
      WriteTable, WriteTableFails, EndGenerate, Connect, ConnectFails, Execute,
      ExecuteRejected, ExecuteFails, Finish, Crash, history
  <2> QED
    BY <2>1, <2>2
<1>3. CASE Start(q)
  <2>1. q # r /\ phase'[r] = phase[r]
    BY <1>3, OthersKept
  <2>2. /\ last' = [last EXCEPT ![set[q].db] = q]
        /\ disturbed[r] => disturbed'[r]
    BY <1>1, <1>3 DEF Start
  <2>3. last[set[r].db] = r
    BY <1>1, <2>1, <2>2 DEF Undisturbed, Alone
  <2> QED
    BY <1>1, <1>2, <2>1, <2>2, <2>3 DEF Undisturbed, Alone
<1>4. CASE ~Start(q)
  <2>1. last' = last /\ disturbed' = disturbed
    BY <1>4, SharesKept
  <2>2. last[set[r].db] = r /\ ~disturbed[r]
    BY <1>1, <2>1 DEF Undisturbed, Alone
  <2>3. phase[r] # "new"
    BY <2>2 DEF SharingInv
  <2> QED
    BY <1>1, <1>2, <2>2, <2>3 DEF Undisturbed, Alone
<1> QED
  BY <1>3, <1>4

\* The steps of other runs pass it by.
LEMMA OtherRun ==
  ASSUME TInv, NEW q \in Runs, NEW r \in Runs, q # r, StepOf(q),
         SharingInv, DatabaseInv(r)
  PROVE  DatabaseInv(r)'
<1> SUFFICES ASSUME Undisturbed(r)'
             PROVE  DatabaseInv(r)'
  BY DEF DatabaseInv
<1>1. Undisturbed(r)
  BY StillUndisturbed
<1>2. set' = set /\ set[r].db \in Dbs
  BY SharesKept, SettingTypes DEF TInv
<1>3. /\ phase'[r] = phase[r] /\ built'[r] = built[r]
      /\ UploadCommands'[r] = UploadCommands[r] /\ pc'[r] = pc[r]
      /\ before'[r] = before[r] /\ fault'[r] = fault[r]
  BY OthersKept
<1>4. db'[set[r].db] = db[set[r].db]
  <2> SUFFICES ASSUME db'[set[r].db] # db[set[r].db] PROVE FALSE
    OBVIOUS
  <2>1. set[r].db = set[q].db /\ Active(q)
    BY <1>2, DatabaseKept DEF Active
  <2> QED
    BY <1>1, <2>1 DEF SharingInv, Undisturbed, Alone
<1>5. Active(r) => \A t \in TableSet : file'[loadPath(r, t)] = file[loadPath(r, t)]
  <2> SUFFICES ASSUME Active(r), NEW t \in TableSet,
                      file'[loadPath(r, t)] # file[loadPath(r, t)]
               PROVE  FALSE
    OBVIOUS
  <2>1. loadPath(r, t) \in Path /\ loadPath(r, t).dir = set[r].dir
    BY SettingTypes DEF TInv, loadPath
  <2>2. set[r].dir = set[q].dir /\ Active(q)
    BY <2>1, FilesKept
  <2> QED
    BY <1>1, <2>2 DEF SharingInv, Shares, Undisturbed, Alone
<1>6. Active(r)' <=> Active(r)
  BY <1>3 DEF Active
<1>7. \A o : object(r, o)' = object(r, o)
  BY <1>2, <1>4 DEF object
<1>8. Active(r) /\ FilesWritten(r) => FilesWritten(r)'
  <2>1. \A j \in 1..built[r] : Tables[j] \in TableSet
    BY NameTypes DEF TInv, TypeOK
  <2>2. \A t : loadPath(r, t)' = loadPath(r, t)
    BY <1>2 DEF loadPath
  <2> QED
    BY <1>3, <1>5, <2>1, <2>2 DEF FilesWritten
<1>9. Untouched(r) => Untouched(r)'
  BY <1>3, <1>7 DEF Untouched
<1>10. Achieved(r) => Achieved(r)'
  BY <1>3, <1>7 DEF Achieved, Outcome
<1>11. JustDone(r) => JustDone(r)'
  BY <1>3, <1>7 DEF JustDone, Outcome
<1>12. \A k : InTransit(r, k) => InTransit(r, k)'
  BY <1>3, <1>7 DEF InTransit
<1> QED
  BY <1>1, <1>3, <1>6, <1>8, <1>9, <1>10, <1>11, <1>12 DEF DatabaseInv

\* A command was executed: what was achieved stays, as nothing comes back to it.
LEMMA Executed ==
  ASSUME TInv, NEW r \in Runs, RunInv(r), DatabaseInv(r), Undisturbed(r), Execute(r)
  PROVE  Untouched(r)' /\ Achieved(r)' /\ JustDone(r)' /\ FilesWritten(r)'
<1>1. PICK n \in Nat : n = pc[r]
  BY DEF TInv, TypeOK
<1>2. PICK L \in Seq(Listed) : L = UploadCommands[r]
  BY DEF TInv
<1>3. Executing(r) /\ phase[r] = "upload"
  BY DEF Execute, Executing
<1>4. n + 1 \in 1..Len(L) /\ Len(L) \in Nat /\ next(r) = L[n + 1] /\ L[n + 1] \in Listed
  BY <1>1, <1>2, <1>3, NextListed DEF next
<1>5. /\ pc'[r] = n + 1 /\ UploadCommands'[r] = L /\ set' = set /\ before' = before
      /\ file' = file /\ built' = built
  BY <1>1, <1>2 DEF Execute, list, history, TInv, TypeOK
<1>6. L[n + 1].on \in Objects
  BY <1>4 DEF Listed, CommandType
<1>7. /\ object(r, L[n + 1].on)' = Outcome(r, L[n + 1])
      /\ \A o \in Objects : o # L[n + 1].on => object(r, o)' = object(r, o)
  <2>1. Store(r, L[n + 1].on, Outcome(r, L[n + 1]))
    BY <1>3, <1>4, Ready DEF Execute
  <2> QED
    BY <1>5, <1>6, <2>1, StoreOne DEF object
<1>8. Untouched(r) /\ Achieved(r) /\ FilesWritten(r)
  BY <1>3 DEF DatabaseInv, Active
<1>9. \A i \in 1..n : i \in 1..(n + 1) /\ i \in 1..Len(L) /\ i < n + 1
  BY <1>4
<1>10. ASSUME NEW t \in TableSet, \A i \in 1..(n + 1) : L[i].on # t
       PROVE  object(r, t)' = before'[r][t]
  <2>1. object(r, t) = before[r][t]
    BY <1>1, <1>2, <1>8, <1>9, <1>10 DEF Untouched
  <2>2. t \in Objects /\ t # L[n + 1].on
    BY <1>10, NameTypes
  <2> QED
    BY <1>5, <1>7, <2>1, <2>2
<1>11. ASSUME NEW i \in 1..(n + 1), L[i].op \in {"load", "define"}
       PROVE  object(r, L[i].on)' = Outcome(r, L[i])
  <2>1. CASE i = n + 1
    BY <1>7, <2>1
  <2>2. CASE i # n + 1
    <3>1. i \in 1..n
      BY <2>2
    <3>2. object(r, L[i].on) = Outcome(r, L[i])
      BY <1>1, <1>2, <1>8, <1>11, <3>1 DEF Achieved
    <3>3. L[n + 1].on # L[i].on
      BY <1>2, <1>4, <1>9, <1>11, <3>1 DEF RunInv, ListInv, Conclusive
    <3>4. L[i].on \in Objects
      BY <1>9, <3>1 DEF Listed, CommandType
    <3> QED
      BY <1>7, <3>2, <3>3, <3>4
  <2> QED
    BY <2>1, <2>2
<1>12. \A c : Outcome(r, c)' = Outcome(r, c)
  BY DEF Outcome
<1>13. Untouched(r)'
  BY <1>5, <1>10 DEF Untouched
<1>14. Achieved(r)'
  BY <1>5, <1>11, <1>12 DEF Achieved
<1>15. JustDone(r)'
  BY <1>5, <1>7, <1>12 DEF JustDone
<1>16. FilesWritten(r)'
  BY <1>5, <1>8 DEF FilesWritten, loadPath
<1> QED
  BY <1>13, <1>14, <1>15, <1>16

\* Its own steps, until it has all its files.
LEMMA OwnListing ==
  ASSUME TInv, NEW r \in Runs, RunInv(r), DatabaseInv(r),
         Undisturbed(r), Undisturbed(r)',
         \/ ReadProcedure(r) \/ WriteTable(r) \/ WriteTableFails(r)
         \/ EndGenerate(r) \/ Connect(r)
  PROVE  DatabaseInv(r)'
<1> USE DEF list, history
<1>1. /\ set' = set /\ db' = db /\ before' = before /\ pc' = pc
      /\ phase[r] \in {"generate", "connect"}
      /\ phase'[r] \in {"generate", "connect", "upload"}
  BY DEF ReadProcedure, WriteTable, WriteTableFails, BuildTable, EndGenerate,
         Connect, TInv, TypeOK
<1>2. pc[r] = 0
  BY <1>1 DEF RunInv
<1>3. Untouched(r) /\ FilesWritten(r)
  BY <1>1 DEF DatabaseInv, Active
<1>4. Untouched(r)'
  BY <1>1, <1>2, <1>3 DEF Untouched, object
<1>5. Achieved(r)' /\ JustDone(r)'
  BY <1>1, <1>2 DEF Achieved, JustDone
<1>6. FilesWritten(r)'
  <2>1. CASE ReadProcedure(r) \/ EndGenerate(r) \/ Connect(r)
    <3>1. file' = file /\ built' = built
      BY <2>1 DEF ReadProcedure, EndGenerate, Connect
    <3> QED
      BY <1>1, <1>3, <3>1 DEF FilesWritten, loadPath
  <2>2. CASE WriteTable(r)
    <3>1. PICK t \in TableSet : /\ BuildTable(r, t)
                                /\ file' = [file EXCEPT ![outPath(r, t)] = r]
      BY <2>2 DEF WriteTable
    <3>2. PICK n \in Nat : n = built[r]
      BY NameTypes DEF TInv, TypeOK
    <3>3. n < Len(Tables) /\ t = Tables[n + 1] /\ built'[r] = n + 1
      BY <3>1, <3>2 DEF BuildTable, TInv, TypeOK
    <3>4. outPath(r, t) = loadPath(r, t)
      BY DEF outPath, loadPath, Undisturbed
    <3>5. ASSUME NEW j \in 1..(n + 1) PROVE file'[loadPath(r, Tables[j])] = r
      <4>1. Tables[j] \in TableSet
        BY <3>3, NameTypes
      <4>2. loadPath(r, Tables[j]) \in Path /\ file \in [Path -> Rows]
        BY <4>1, SettingTypes DEF TInv, TypeOK
      <4>3. CASE j = n + 1
        BY <3>1, <3>3, <3>4, <4>2, <4>3
      <4>4. CASE j \in 1..n
        <5>1. file[loadPath(r, Tables[j])] = r
          BY <1>3, <3>2, <4>4 DEF FilesWritten
        <5> QED
          BY <3>1, <4>2, <5>1
      <4> QED
        BY <4>3, <4>4
    <3> QED
      BY <1>1, <3>3, <3>5 DEF FilesWritten, loadPath
  <2>3. CASE WriteTableFails(r)
    <3>1. writeFault'[r] = TRUE
      BY <2>3 DEF WriteTableFails, TInv, TypeOK
    <3> QED
      BY <3>1 DEF Undisturbed
  <2> QED
    BY <2>1, <2>2, <2>3
<1> QED
  BY <1>1, <1>4, <1>5, <1>6 DEF DatabaseInv

\* Its own steps, from the connection on.
LEMMA OwnUpload ==
  ASSUME TInv, NEW r \in Runs, RunInv(r), DatabaseInv(r),
         Undisturbed(r), Undisturbed(r)',
         \/ ConnectFails(r) \/ Execute(r) \/ ExecuteRejected(r) \/ ExecuteFails(r)
         \/ Finish(r) \/ Crash(r)
  PROVE  DatabaseInv(r)'
<1> USE DEF list, history
<1>0. phase \in [Runs -> Phases] /\ fault \in [Runs -> BOOLEAN]
  BY DEF TInv, TypeOK
<1>1. CASE ConnectFails(r) \/ ExecuteFails(r) \/ Crash(r)
  <2>1. /\ set' = set /\ before' = before /\ Active(r) /\ fault'[r]
        /\ phase'[r] \in {"failed", "crashed"}
    BY <1>0, <1>1 DEF ConnectFails, ExecuteFails, Executing, Crash, Active
  <2>2. \/ db' = db
        \/ Executing(r) /\ \E v : Store(r, next(r).on, v)
    BY <1>1 DEF ConnectFails, ExecuteFails, Crash, CutShort
  <2>3. \A o \in Objects : \/ db'[set[r].db][o] = object(r, o)
                           \/ Executing(r) /\ o = next(r).on
    <3>1. CASE db' = db
      BY <3>1 DEF object
    <3>2. CASE Executing(r) /\ \E v : Store(r, next(r).on, v)
      <4>1. next(r).on \in Objects
        BY <3>2, NextListed DEF Listed, CommandType
      <4> QED
        BY <3>2, <4>1, StoreOne DEF object
    <3> QED
      BY <2>2, <3>1, <3>2
  <2>4. \E k \in 0..Len(Tables) :
          /\ \A j \in 1..(k - 1) : db'[set[r].db][Tables[j]] = r
          /\ \A j \in (k + 1)..Len(Tables) :
               db'[set[r].db][Tables[j]] = before[r][Tables[j]]
    BY <2>1, <2>3, UnderWay
  <2>5. \E k \in 0..Len(Tables) : InTransit(r, k)'
    BY <2>1, <2>4 DEF InTransit, object
  <2> QED
    BY <2>1, <2>5 DEF DatabaseInv, Active
<1>2. CASE ExecuteRejected(r)
  <2>1. Executing(r) /\ ~Accepted(r, next(r))
    BY <1>2 DEF ExecuteRejected
  <2> QED
    BY <2>1, Ready
<1>3. CASE Execute(r)
  <2>1. phase'[r] = "upload"
    BY <1>3 DEF Execute, Executing
  <2> QED
    BY <1>3, <2>1, Executed DEF DatabaseInv
<1>4. CASE Finish(r)
  <2>1. /\ phase[r] = "upload" /\ phase'[r] = "ok" /\ pc' = pc /\ db' = db /\ set' = set
        /\ UploadCommands' = UploadCommands
    BY <1>0, <1>4 DEF Finish
  <2>2. Achieved(r)
    BY <2>1 DEF DatabaseInv
  <2>3. Achieved(r)'
    BY <2>1, <2>2 DEF Achieved, object, Outcome
  <2> QED
    BY <2>1, <2>3 DEF DatabaseInv, Active
<1> QED
  BY <1>1, <1>2, <1>3, <1>4

\* The two together, and a run that starts, for which nothing is done yet.
LEMMA DatabaseStep ==
  ASSUME TInv, NEW q \in Runs, NEW r \in Runs, StepOf(q),
         SharingInv, RunInv(r), DatabaseInv(r)
  PROVE  DatabaseInv(r)'
<1>1. CASE q # r
  BY <1>1, OtherRun
<1>2. CASE q = r /\ Start(r)
  <2>1. /\ phase[r] = "new" /\ phase'[r] = "generate"
        /\ before'[r] = db[set[r].db] /\ db' = db /\ set' = set
        /\ built' = built /\ pc' = pc
    BY <1>2 DEF Start, list, TInv, TypeOK
  <2>2. built[r] = 0 /\ pc[r] = 0
    BY <2>1 DEF RunInv
  <2>3. Untouched(r)'
    BY <2>1 DEF Untouched, object
  <2>4. FilesWritten(r)'
    BY <2>1, <2>2 DEF FilesWritten
  <2> QED
    BY <2>1, <2>3, <2>4 DEF DatabaseInv
<1>3. CASE q = r /\ ~Start(r)
  <2> SUFFICES ASSUME Undisturbed(r)'
               PROVE  DatabaseInv(r)'
    BY DEF DatabaseInv
  <2>1. Undisturbed(r)
    BY <1>3, StillUndisturbed
  <2>2. ~InitThrows(r)
    BY <2>1 DEF InitThrows, Undisturbed, Alone
  <2> QED
    BY <1>3, <2>1, <2>2, OwnListing, OwnUpload DEF StepOf, Progress, Fault
<1> QED
  BY <1>1, <1>2, <1>3

-----------------------------------------------------------------------------
(* The theorems. *)

\* Initially no run has started.
LEMMA InitUpload == Init => UploadInv
<1> SUFFICES ASSUME Init PROVE UploadInv
  OBVIOUS
<1>1. TInv
  BY InitTyped
<1>2. \A r \in Runs : phase[r] = "new" /\ ~Active(r) /\ last[set[r].db] = Absent
  BY <1>1, SettingTypes DEF Init, Active, TInv
<1>3. SharingInv
  <2>1. \A r \in Runs : last[set[r].db] # r
    BY <1>2, ValuesAssumption
  <2> QED
    BY <1>2, <2>1 DEF SharingInv
<1>4. ASSUME NEW r \in Runs PROVE RunInv(r)
  <2>1. /\ UploadCommands[r] = <<>> /\ proc[r] = 0 /\ built[r] = 0 /\ pc[r] = 0
        /\ phase[r] = "new"
    BY DEF Init
  <2>2. ListInv(<<>>, 0, 0)
    BY DEF ListInv, Chained, Conclusive, ProceduresFirst, InOrder, Complete
  <2> QED
    BY <2>1, <2>2 DEF RunInv
<1>5. \A r \in Runs : DatabaseInv(r)
  BY <1>2 DEF DatabaseInv, Undisturbed, Alone
<1> QED
  BY <1>3, <1>4, <1>5 DEF UploadInv

\* A step that changes nothing keeps the invariant.
LEMMA Stuttering ==
  ASSUME UploadInv, UNCHANGED vars
  PROVE  UploadInv'
<1>1. /\ set' = set /\ phase' = phase /\ proc' = proc /\ built' = built
      /\ UploadCommands' = UploadCommands /\ pc' = pc /\ file' = file /\ db' = db
      /\ writeFault' = writeFault /\ fault' = fault /\ disturbed' = disturbed
      /\ last' = last /\ before' = before
  BY DEF vars, list, history
<1>2. SharingInv'
  BY <1>1 DEF UploadInv, SharingInv, Active, Shares
<1>3. ASSUME NEW r \in Runs PROVE RunInv(r)'
  BY <1>1 DEF UploadInv, RunInv
<1>4. ASSUME NEW r \in Runs PROVE DatabaseInv(r)'
  <2>1. DatabaseInv(r)
    BY DEF UploadInv
  <2>2. /\ Undisturbed(r)' <=> Undisturbed(r)
        /\ Active(r)' <=> Active(r)
        /\ FilesWritten(r)' <=> FilesWritten(r)
        /\ Untouched(r)' <=> Untouched(r)
    BY <1>1 DEF Undisturbed, Alone, Active, FilesWritten, loadPath, Untouched, object
  <2>3. /\ Achieved(r)' <=> Achieved(r)
        /\ JustDone(r)' <=> JustDone(r)
        /\ \A k : InTransit(r, k)' <=> InTransit(r, k)
    BY <1>1 DEF Achieved, JustDone, InTransit, object, Outcome
  <2> QED
    BY <1>1, <2>1, <2>2, <2>3 DEF DatabaseInv
<1> QED
  BY <1>2, <1>3, <1>4 DEF UploadInv

\* What the theorems below start from.
LEMMA Uploading == Spec => [](TInv /\ UploadInv)
<1>1. Init => TInv /\ UploadInv
  BY InitTyped, InitUpload
<1>2. TInv /\ UploadInv /\ [Next]_vars => (TInv /\ UploadInv)'
  <2> SUFFICES ASSUME TInv, UploadInv, [Next]_vars PROVE UploadInv'
    BY TypeStep
  <2>1. CASE UNCHANGED vars
    BY <2>1, Stuttering
  <2>2. CASE Next
    <3>1. PICK q \in Runs : StepOf(q)
      BY <2>2 DEF Next, StepOf
    <3>2. SharingInv'
      BY <3>1, SharingStep DEF UploadInv
    <3>3. \A r \in Runs : RunInv(r)'
      BY <3>1, RunStep DEF UploadInv
    <3>4. \A r \in Runs : DatabaseInv(r)'
      BY <3>1, DatabaseStep DEF UploadInv
    <3> QED
      BY <3>2, <3>3, <3>4 DEF UploadInv
  <2> QED
    BY <2>1, <2>2
<1> QED
  BY <1>1, <1>2, PTL DEF Spec

\* A run that had directory and database for itself, wrote its files and
\* returned 0 left its rows in every table, whatever was in the files and in the
\* database before and whatever runs crashed there.
THEOREM ZeroIsLoaded == Spec => []ExitZeroMeansLoaded
<1>1. TInv /\ UploadInv => ExitZeroMeansLoaded
  <2> SUFFICES ASSUME TInv, UploadInv, NEW r \in Runs, phase[r] = "ok", Undisturbed(r),
                      NEW t \in TableSet
               PROVE  object(r, t) = r
    BY DEF ExitZeroMeansLoaded, object
  <2>1. RunInv(r) /\ Achieved(r)
    BY DEF UploadInv, DatabaseInv
  <2> QED
    BY <2>1, AllLoaded DEF RunInv
<1> QED
  BY <1>1, Uploading, PTL

\* Such a run loses one table at most, wherever an error or a crash stops it.
THEOREM OneTableAtMost == Spec => []OneTableInTransit
<1>1. TInv /\ UploadInv => OneTableInTransit
  <2> SUFFICES ASSUME TInv, UploadInv, NEW r \in Runs, Undisturbed(r)
               PROVE  \E k \in 0..Len(Tables) : InTransit(r, k)
    BY DEF OneTableInTransit, InTransit, object
  <2>1. RunInv(r) /\ DatabaseInv(r) /\ phase[r] \in Phases
    BY DEF UploadInv, TInv, TypeOK
  <2>2. CASE phase[r] \in {"failed", "crashed"}
    BY <2>1, <2>2 DEF DatabaseInv
  <2>3. CASE phase[r] = "ok"
    <3>1. \A t \in TableSet : object(r, t) = r
      BY <2>1, <2>3, AllLoaded DEF DatabaseInv, RunInv
    <3>2. /\ Len(Tables) \in 0..Len(Tables)
          /\ \A j \in 1..(Len(Tables) - 1) : Tables[j] \in TableSet
          /\ \A j \in (Len(Tables) + 1)..Len(Tables) : FALSE
      BY NameTypes
    <3> QED
      BY <3>1, <3>2 DEF InTransit
  <2>4. CASE Active(r)
    <3>0. PICK D : D = db[set[r].db]
      OBVIOUS
    <3>1. \A o \in Objects : D[o] = object(r, o)
      BY <3>0 DEF object
    <3>2. \E k \in 0..Len(Tables) :
            /\ \A j \in 1..(k - 1) : D[Tables[j]] = r
            /\ \A j \in (k + 1)..Len(Tables) : D[Tables[j]] = before[r][Tables[j]]
      BY <2>1, <2>4, <3>1, UnderWay
    <3> QED
      BY <3>0, <3>2 DEF InTransit, object
  <2>5. phase[r] # "new"
    BY DEF Undisturbed, Alone
  <2> QED
    BY <2>1, <2>2, <2>3, <2>4, <2>5 DEF Active, Phases
<1> QED
  BY <1>1, Uploading, PTL

\* Such a run does not fail unless something around it does: the server accepts
\* every command, whatever it finds in the database.
THEOREM CommandsAreAccepted == Spec => []NoFaultNoError
<1>1. TInv /\ UploadInv => NoFaultNoError
  BY DEF NoFaultNoError, UploadInv, DatabaseInv
<1> QED
  BY <1>1, Uploading, PTL

\* When such a run returned 0, each procedure that it listed is defined.
THEOREM ProceduresAreDefined == Spec => []ProceduresDefined
<1>1. TInv /\ UploadInv => ProceduresDefined
  <2> SUFFICES ASSUME TInv, UploadInv, NEW r \in Runs, phase[r] = "ok", Undisturbed(r),
                      NEW i \in 1..Len(UploadCommands[r]),
                      UploadCommands[r][i].op = "define"
               PROVE  object(r, UploadCommands[r][i].on) = Body
    BY DEF ProceduresDefined, object
  <2>1. pc[r] = Len(UploadCommands[r]) /\ Achieved(r)
    BY DEF UploadInv, RunInv, DatabaseInv
  <2> QED
    BY <2>1 DEF Achieved, Outcome
<1> QED
  BY <1>1, Uploading, PTL

-----------------------------------------------------------------------------
(* The promises of OutputEngine.  Here r is the run that main sees, q the one
   that takes the step. *)

\* Invalid options are thrown before anything else is done.
ValidInv ==
  \A r \in Runs : Active(r) \/ phase[r] \in {"ok", "crashed"} => set[r].valid

\* What the abstract state says of a run.
LEMMA Seen ==
  ASSUME TInv, NEW r \in Runs
  PROVE  /\ Active(r) => Status(r) = "working"
         /\ phase[r] = "new" => Status(r) = "ready"
         /\ phase[r] \in {"ok", "failed"} => Status(r) = "returned"
         /\ phase[r] = "crashed" => Status(r) = "killed"
         /\ StoredBy(r) \in {"asBefore", "mixed", "written"}
         /\ ~Started(r) => StoredBy(r) = "asBefore"
         /\ Excused(r) \in BOOLEAN
         /\ (phase[r] = "failed") \in BOOLEAN
<1>1. phase[r] \in Phases
  BY DEF TInv, TypeOK
<1> QED
  BY <1>1 DEF Status, StoredBy, Active, Excused, Phases

\* What excuses a run does not go away.
LEMMA ExcusesStay ==
  ASSUME TInv, NEW q \in Runs, NEW r \in Runs, StepOf(q), Excused(r)
  PROVE  Excused(r)'
<1>1. set' = set
  BY SharesKept
<1>2. Started(r) => Started(r)'
  <2>1. phase[r] # "new" => phase'[r] # "new"
    BY SharesKept, OthersKept
  <2> QED
    BY <1>1, <2>1 DEF Started
<1>3. (writeFault[r] => writeFault'[r]) /\ (fault[r] => fault'[r])
  <2>1. CASE q # r
    BY <2>1, OthersKept
  <2>2. CASE q = r
    BY <2>2 DEF StepOf, Progress, Fault, Start, InitThrows, ReadProcedure, WriteTable,
      WriteTableFails, BuildTable, EndGenerate, Connect, ConnectFails, Execute,
      ExecuteRejected, ExecuteFails, Finish, Crash, list, history, TInv, TypeOK
  <2> QED
    BY <2>1, <2>2
<1>4. disturbed[r] => disturbed'[r]
  <2>1. CASE Start(q)
    BY <2>1 DEF Start
  <2>2. CASE ~Start(q)
    BY <2>2, SharesKept
  <2> QED
    BY <2>1, <2>2
<1>5. Started(r) /\ last[set[r].db] # r => last'[set[r].db] # r
  <2>1. CASE Start(q)
    <3>1. last' = [last EXCEPT ![set[q].db] = q] /\ phase[q] = "new"
      BY <2>1 DEF Start
    <3>2. Started(r) => q # r
      BY <3>1 DEF Started
    <3>3. set[r].db \in Dbs /\ last \in [Dbs -> Runs \cup {Absent}]
      BY SettingTypes DEF TInv, TypeOK
    <3> QED
      BY <3>1, <3>2, <3>3
  <2>2. CASE ~Start(q)
    BY <2>2, SharesKept
  <2> QED
    BY <2>1, <2>2
<1> QED
  BY <1>1, <1>2, <1>3, <1>4, <1>5 DEF Excused

\* Without an excuse a run that has started is undisturbed.
LEMMA Unexcused ==
  ASSUME NEW r \in Runs, Started(r), ~Excused(r)
  PROVE  Undisturbed(r)
  BY DEF Started, Excused, Undisturbed, Alone

-----------------------------------------------------------------------------
(* The steps. *)

\* The step of another run: it changes nothing that r has, or it meddles.
LEMMA OthersMeddle ==
  ASSUME TInv, UploadInv, NEW q \in Runs, NEW r \in Runs, q # r, StepOf(q)
  PROVE  [Engine(r)!Next]_(Engine(r)!vars)
<1>1. /\ phase'[r] = phase[r] /\ before'[r] = before[r] /\ set' = set
      /\ Status(r)' = Status(r)
  BY OthersKept, SharesKept DEF Status, Active
<1>2. TInv'
  BY TypeStep DEF StepOf, Next
<1>3. StoredBy(r)' \in {"asBefore", "mixed", "written"}
  BY <1>2, Seen DEF StoredBy
<1>4. CASE Excused(r)'
  <2>1. Engine(r)!Meddle
    BY <1>1, <1>3, <1>4 DEF Engine!Meddle, Engine!Stored
  <2> QED
    BY <2>1 DEF Engine!Next
<1>5. CASE ~Excused(r)'
  <2>1. ~Excused(r)
    BY <1>5, ExcusesStay
  <2>2. StoredBy(r)' = StoredBy(r)
    <3>1. CASE ~Started(r)
      BY <1>1, <3>1 DEF StoredBy, Started
    <3>2. CASE Started(r)
      <4>1. Undisturbed(r)
        BY <2>1, <3>2, Unexcused
      <4>2. db'[set[r].db] = db[set[r].db]
        <5> SUFFICES ASSUME db'[set[r].db] # db[set[r].db] PROVE FALSE
          OBVIOUS
        <5>1. set[r].db \in Dbs
          BY SettingTypes DEF TInv
        <5>2. set[r].db = set[q].db /\ Active(q)
          BY <5>1, DatabaseKept DEF Active
        <5> QED
          BY <4>1, <5>2 DEF UploadInv, SharingInv, Undisturbed, Alone
      <4> QED
        BY <1>1, <4>2 DEF StoredBy, Started
    <3> QED
      BY <3>1, <3>2
  <2>3. UNCHANGED Engine(r)!vars
    <3>1. (phase[r] = "failed")' = (phase[r] = "failed")
      BY <1>1
    <3>2. Excused(r)' = Excused(r)
      BY <1>2, <1>5, <2>1, Zenon DEF Excused
    <3> QED
      BY <1>1, <2>2, <3>1, <3>2 DEF Engine!vars
  <2> QED
    BY <2>3
<1> QED
  BY <1>4, <1>5

\* A run that goes on working: what it stores is its own affair.
LEMMA Works ==
  ASSUME TInv, UploadInv, NEW r \in Runs, StepOf(r),
         phase[r] = "new" \/ Active(r), Active(r)'
  PROVE  Engine(r)!Next
<1>1. /\ TInv' /\ Excused(r)' \in BOOLEAN
      /\ StoredBy(r)' \in {"asBefore", "mixed", "written"}
  BY TypeStep, Seen DEF StepOf, Next, StoredBy, Excused
<1>2. Status(r) \in {"ready", "working"} /\ Status(r)' = "working"
  BY Seen DEF Status, Active
<1>3. (phase[r] = "failed")' = (phase[r] = "failed")
  BY DEF Active
<1>4. Excused(r)' \in {Excused(r), TRUE}
  BY <1>1, ExcusesStay, Seen
<1> QED
  BY <1>1, <1>2, <1>3, <1>4 DEF Engine!Next, Engine!Work, Engine!Stored

\* A run that is refused has touched nothing.
LEMMA Refuses ==
  ASSUME TInv, NEW r \in Runs, InitThrows(r)
  PROVE  Engine(r)!Next
<1>1. phase[r] = "new" /\ phase'[r] = "failed" /\ ~set[r].valid /\ set' = set
  BY DEF InitThrows, TInv, TypeOK
<1>2. Status(r) = "ready" /\ Status(r)' = "returned"
  BY <1>1 DEF Status, Active
<1>3. ~Started(r) /\ ~Started(r)'
  BY <1>1 DEF Started
<1>4. StoredBy(r)' = StoredBy(r)
  BY <1>3 DEF StoredBy
<1>5. Excused(r)' = Excused(r)
  BY <1>1, <1>3 DEF Excused, InitThrows, history
<1>6. (phase[r] = "failed")' = TRUE
  BY <1>1
<1> QED
  BY <1>2, <1>4, <1>5, <1>6 DEF Engine!Next, Engine!Refuse

\* A run that stops early blames a fault: its own commands are accepted.
LEMMA StopsEarly ==
  ASSUME TInv, UploadInv, ValidInv, NEW r \in Runs,
         ConnectFails(r) \/ ExecuteFails(r) \/ ExecuteRejected(r) \/ Crash(r)
  PROVE  Engine(r)!Next
<1>1. TInv' /\ StoredBy(r)' \in {"asBefore", "mixed", "written"}
  BY TypeStep, Seen DEF Next, Progress, Fault, StoredBy
<1>2. Active(r) /\ phase[r] # "failed" /\ Status(r) = "working"
  BY Seen DEF ConnectFails, ExecuteFails, ExecuteRejected, Crash, Executing, Active
<1>3. Excused(r)' = TRUE
  <2>1. CASE ~ExecuteRejected(r)
    <3>1. fault'[r] = TRUE
      BY <2>1 DEF ConnectFails, ExecuteFails, Crash, TInv, TypeOK
    <3> QED
      BY <3>1 DEF Excused
  <2>2. CASE ExecuteRejected(r)
    <3>1. Executing(r) /\ ~Accepted(r, next(r)) /\ Started(r)
      BY <1>2, <2>2 DEF ExecuteRejected, ValidInv, Started, Active
    <3>2. Excused(r)
      BY <3>1, Unexcused, Ready DEF UploadInv
    <3>3. StepOf(r)
      BY <2>2 DEF StepOf, Progress
    <3>4. Excused(r)'
      BY <3>2, <3>3, ExcusesStay
    <3> QED
      BY <1>1, <3>4, Zenon DEF Excused
  <2> QED
    BY <2>1, <2>2
<1>4. CASE Crash(r)
  <2>1. phase'[r] = "crashed" /\ Status(r)' = "killed"
    BY <1>4 DEF Crash, TInv, TypeOK, Status, Active
  <2>2. (phase[r] = "failed")' = (phase[r] = "failed")
    BY <1>2, <2>1
  <2> QED
    BY <1>1, <1>2, <1>3, <2>1, <2>2 DEF Engine!Next, Engine!Kill, Engine!Stored
<1>5. CASE ~Crash(r)
  <2>1. phase'[r] = "failed"
    BY <1>5 DEF ConnectFails, ExecuteFails, ExecuteRejected, TInv, TypeOK
  <2>2. Status(r)' = "returned" /\ (phase[r] = "failed")' = TRUE
    BY <2>1 DEF Status, Active
  <2> QED
    BY <1>1, <1>2, <1>3, <2>2 DEF Engine!Next, Engine!Complain, Engine!Stored
<1> QED
  BY <1>4, <1>5

\* A run that returns without complaint has written everything, or has an
\* excuse.
LEMMA Returns ==
  ASSUME TInv, UploadInv, ValidInv, NEW r \in Runs, Finish(r)
  PROVE  Engine(r)!Next
<1>1. /\ phase[r] = "upload" /\ phase'[r] = "ok" /\ pc[r] = Len(UploadCommands[r])
      /\ UNCHANGED <<set, db, history>>
  BY DEF Finish, TInv, TypeOK
<1>2. Active(r) /\ Started(r) /\ Started(r)' /\ built[r] = Len(Tables)
  BY <1>1 DEF Active, Started, ValidInv, TInv
<1>3. Status(r) = "working" /\ Status(r)' = "returned"
  BY <1>1 DEF Status, Active
<1>4. StoredBy(r) = "written" \/ Excused(r)
  <2> SUFFICES ASSUME ~Excused(r) PROVE StoredBy(r) = "written"
    OBVIOUS
  <2>1. RunInv(r) /\ Achieved(r)
    BY <1>1, <1>2, Unexcused DEF UploadInv, DatabaseInv
  <2> QED
    BY <1>1, <1>2, <2>1, AllLoaded DEF StoredBy, object
<1>5. StoredBy(r)' = StoredBy(r)
  BY <1>1, <1>2 DEF StoredBy, history
<1>6. Excused(r)' = Excused(r)
  BY <1>1, <1>2 DEF Excused, history
<1>7. (phase[r] = "failed")' = (phase[r] = "failed")
  BY <1>1
<1> QED
  BY <1>3, <1>4, <1>5, <1>6, <1>7 DEF Engine!Next, Engine!Return

\* The four together.
LEMMA StepPromised ==
  ASSUME TInv, UploadInv, ValidInv, NEW r \in Runs, [Next]_vars
  PROVE  [Engine(r)!Next]_(Engine(r)!vars)
<1>1. ASSUME NEW q \in Runs, StepOf(q)
      PROVE  [Engine(r)!Next]_(Engine(r)!vars)
  <2>1. CASE q # r
    BY <1>1, <2>1, OthersMeddle
  <2>2. CASE q = r /\ InitThrows(q)
    BY <2>2, Refuses
  <2>3. CASE /\ q = r
             /\ ConnectFails(q) \/ ExecuteFails(q) \/ ExecuteRejected(q) \/ Crash(q)
    BY <2>3, StopsEarly
  <2>4. CASE q = r /\ Finish(q)
    BY <2>4, Returns
  <2>5. CASE /\ q = r
             /\ \/ Start(q) \/ ReadProcedure(q) \/ WriteTable(q) \/ WriteTableFails(q)
                \/ EndGenerate(q) \/ Connect(q) \/ Execute(q)
    <3>1. (phase[r] = "new" \/ Active(r)) /\ Active(r)'
      BY <2>5 DEF Start, ReadProcedure, WriteTable, WriteTableFails, BuildTable,
         EndGenerate, Connect, Execute, Executing, Active, TInv, TypeOK
    <3> QED
      BY <1>1, <2>5, <3>1, Works
  <2> QED
    BY <1>1, <2>1, <2>2, <2>3, <2>4, <2>5 DEF StepOf, Progress, Fault
<1>2. CASE UNCHANGED vars
  <2>1. UNCHANGED Engine(r)!vars
    <3>1. Status(r)' = Status(r)
      BY <1>2 DEF vars, Status, Active
    <3>2. StoredBy(r)' = StoredBy(r)
      BY <1>2 DEF vars, history, StoredBy, Started
    <3>3. Excused(r)' = Excused(r)
      BY <1>2 DEF vars, history, Excused, Started
    <3>4. (phase[r] = "failed")' = (phase[r] = "failed")
      BY <1>2 DEF vars
    <3> QED
      BY <3>1, <3>2, <3>3, <3>4 DEF Engine!vars
  <2> QED
    BY <2>1
<1> QED
  BY <1>1, <1>2 DEF Next, StepOf

-----------------------------------------------------------------------------
(* The theorem. *)

\* The settings of a run that works were accepted.
LEMMA Validated == Spec => []ValidInv
<1>1. Init => ValidInv
  BY DEF Init, ValidInv, Active
<1>2. TInv /\ ValidInv /\ [Next]_vars => ValidInv'
  <2> SUFFICES ASSUME TInv, ValidInv, [Next]_vars PROVE ValidInv'
    OBVIOUS
  <2>1. CASE UNCHANGED vars
    BY <2>1 DEF vars, ValidInv, Active
  <2>2. ASSUME NEW q \in Runs, StepOf(q) PROVE ValidInv'
    <3> SUFFICES ASSUME NEW r \in Runs, (Active(r) \/ phase[r] \in {"ok", "crashed"})'
                 PROVE  set'[r].valid
      BY DEF ValidInv
    <3>1. set' = set
      BY <2>2, SharesKept
    <3>2. CASE q # r
      BY <2>2, <3>1, <3>2, OthersKept DEF ValidInv, Active
    <3>3. CASE q = r
      <4>1. Start(r) \/ Active(r)
        BY <2>2, <3>3 DEF StepOf, Progress, Fault, InitThrows, ReadProcedure,
           WriteTable, WriteTableFails, BuildTable, EndGenerate, Connect,
           ConnectFails, Execute, ExecuteRejected, ExecuteFails, Executing, Finish,
           Crash, Active, TInv, TypeOK
      <4> QED
        BY <3>1, <4>1 DEF Start, ValidInv
    <3> QED
      BY <3>2, <3>3
  <2> QED
    BY <2>1, <2>2 DEF Next, StepOf
<1> QED
  BY <1>1, <1>2, Typed, PTL DEF Spec

\* For any number of runs, in any overlap, and for every failure and crash: each
\* run refuses before it touches the output, and returns without complaint only
\* when all is written or something outside of it failed.
THEOREM EveryRunPromises == Spec => ImplementsOutputEngine
<1>1. Init => \A r \in Runs : Engine(r)!Init
  <2> SUFFICES ASSUME Init, NEW r \in Runs PROVE Engine(r)!Init
    OBVIOUS
  <2>1. phase[r] = "new" /\ TInv
    BY InitTyped DEF Init
  <2>2. Status(r) = "ready" /\ ~Started(r)
    BY <2>1, Seen DEF Started
  <2> QED
    BY <2>1, <2>2, Seen DEF Engine!Init
<1>2. TInv /\ UploadInv /\ ValidInv /\ [Next]_vars
        => [\A r \in Runs : [Engine(r)!Next]_(Engine(r)!vars)]_vars
  BY StepPromised
<1> QED
  BY <1>1, <1>2, Uploading, Validated, PTL DEF Spec, ImplementsOutputEngine
=============================================================================
