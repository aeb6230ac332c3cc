----------------------------- MODULE DrpdbProofs -----------------------------
(***************************************************************************)
(* main, for every set of command lines, every input and every other run:  *)
(* which options answer for which, what the exit status says of the        *)
(* output, and what -doc and odbc leave behind.                            *)
(***************************************************************************)
EXTENDS Drpdb, WellFoundedInduction, TLAPS

-----------------------------------------------------------------------------
(* The options. *)

\* The first of some arguments is one of them.
LEMMA FirstIsOne ==
  ASSUME NEW S, S \subseteq Nat, S # {}
  PROVE  First(S) \in S
<1>1. PICK k \in S : \A j \in S : ~(<<j, k>> \in OpToRel(<, Nat))
  BY NatLessThanWellFounded, WFMin
<1>2. \A j \in S : ~(j < k)
  BY <1>1 DEF OpToRel
<1>3. \A j \in S : k <= j
  BY <1>2
<1> QED
  BY <1>3 DEF First

\* An option has the value of an argument that matches it.
LEMMA OptionOf ==
  ASSUME args \in ArgLists, NEW name, Hits(name) # {}
  PROVE  \E i \in Hits(name) : getOption(name) = args[i].value
<1>1. Hits(name) \subseteq Nat
  BY ArgsAssumption DEF Hits
<1>2. First(Hits(name)) \in Hits(name)
  BY <1>1, FirstIsOne
<1> QED
  BY <1>2 DEF getOption

\* What answers for -out answers for -outdir.
LEMMA OutAnswersForOutdir == Hits(out) \subseteq Hits(outdir)
<1>1. ASSUME NEW key, Matches(key, out)
      PROVE  Matches(key, outdir)
  <2>1. Len(key) <= 1 /\ \A i \in 1..Len(key) : key[i] = out[i]
    BY <1>1 DEF Matches, out
  <2>2. Len(outdir) = 2 /\ out[1] = outdir[1]
    BY DEF out, outdir
  <2> QED
    BY <2>1, <2>2 DEF Matches
<1> QED
  BY <1>1 DEF Hits

\* No step changes the command line.
LEMMA ArgsStep ==
  ASSUME [Next]_vars
  PROVE  args' = args
<1> USE DEF main, exit, goto
<1>1. CASE SetDirectory \/ Document \/ WikiDoc \/ PrintUsage \/ Run \/ Return
  BY <1>1 DEF SetDirectory, Document, WikiDoc, PrintUsage, Run, Return
<1>2. CASE DocumentStep
  BY <1>2 DEF DocumentStep
<1>3. CASE Input
  BY <1>3 DEF Input, ReadInput, ReadInputFails, InputCrashes
<1>4. CASE Output
  BY <1>4 DEF Output, EngineRefuses, EngineWorks, EngineReturns, EngineKilled,
     ListDrivers, OdbcStep
<1>5. CASE OtherRun
  BY <1>5 DEF OtherRun
<1>6. CASE UNCHANGED vars
  BY <1>6 DEF vars
<1> QED
  BY <1>1, <1>2, <1>3, <1>4, <1>5, <1>6 DEF Next, Step

\* The command line is the one that main was given.
LEMMA ArgsKept == Spec => [](args \in ArgLists)
<1>1. Init => args \in ArgLists
  BY DEF Init
<1>2. args \in ArgLists /\ [Next]_vars => (args \in ArgLists)'
  BY ArgsStep
<1> QED
  BY <1>1, <1>2, PTL DEF Spec

\* A name that has no other at its beginning.
Plain == {in, out, temp, wikidoc, connect, host, user, dbname}

\* What a described key matches: itself, and -outdir or -tempdir if it begins them.
LEMMA DescribedKeys ==
  ASSUME NEW key \in Described
  PROVE  /\ \A name \in Described \ {outdir} : Matches(key, name) <=> key = name
         /\ Matches(key, tempdir) <=> key = temp
<1>1. ASSUME NEW x, NEW y PROVE Matches(<<x>>, <<y>>) <=> x = y
  BY DEF Matches
<1>2. ASSUME NEW x, NEW y, NEW z
      PROVE  /\ ~Matches(<<x, y>>, <<z>>)
             /\ Matches(<<x>>, <<y, z>>) <=> x = y
  BY DEF Matches
<1>3. ASSUME NEW x, NEW y, NEW z, NEW w
      PROVE  Matches(<<x, y>>, <<z, w>>) <=> x = z /\ y = w
  BY DEF Matches
<1>4. \A x, y, z : <<x, y>> # <<z>>
  OBVIOUS
<1>5. \A x, y : <<x>> = <<y>> <=> x = y
  OBVIOUS
<1>6. \A x, y, z, w : <<x, y>> = <<z, w>> <=> x = z /\ y = w
  OBVIOUS
<1>7. \A name \in Plain : \E x : name = <<x>>
  BY DEF Plain, in, out, temp, wikidoc, connect, host, user, dbname
<1>8. ASSUME NEW name \in Plain PROVE Matches(key, name) <=> key = name
  <2>1. PICK y : name = <<y>>
    BY <1>7
  <2>2. CASE key \in Plain
    <3>1. PICK x : key = <<x>>
      BY <2>2, <1>7
    <3> QED
      BY <2>1, <3>1, <1>1, <1>5
  <2>3. CASE key \in {outdir, port, pass}
    <3>1. PICK x, z : key = <<x, z>>
      BY <2>3 DEF outdir, port, pass
    <3> QED
      BY <2>1, <3>1, <1>2, <1>4
  <2> QED
    BY <2>2, <2>3 DEF Described, Plain
<1>9. port = <<"p", "ort">> /\ pass = <<"p", "ass">> /\ tempdir = <<"temp", "dir">> /\ temp = <<"temp">>
  BY DEF port, pass, tempdir, temp
<1>10. \A name \in Plain : name # <<"p">>
  BY <1>5 DEF Plain, in, out, temp, wikidoc, connect, host, user, dbname
<1>11. ASSUME NEW name \in {port, pass} PROVE Matches(key, name) <=> key = name
  <2>0. PICK y : name = <<"p", y>>
    BY <1>9
  <2>1. CASE key \in Plain
    <3>1. PICK x : key = <<x>>
      BY <2>1, <1>7
    <3>2. x # "p"
      BY <1>10, <2>1, <3>1
    <3>3. Matches(<<x>>, <<"p", y>>) <=> x = "p"
      BY <1>2
    <3>4. <<x>> # <<"p", y>>
      BY <1>4
    <3> QED
      BY <2>0, <3>1, <3>2, <3>3, <3>4
  <2>2. CASE key \in {outdir, port, pass}
    <3>1. PICK x, z : key = <<x, z>>
      BY <2>2 DEF outdir, port, pass
    <3> QED
      BY <2>0, <3>1, <1>3, <1>6
  <2> QED
    BY <2>1, <2>2 DEF Described, Plain
<1>12. Matches(key, tempdir) <=> key = temp
  <2>1. CASE key \in Plain
    <3>1. PICK x : key = <<x>>
      BY <2>1, <1>7
    <3>2. Matches(<<x>>, <<"temp", "dir">>) <=> x = "temp"
      BY <1>2
    <3>3. <<x>> = <<"temp">> <=> x = "temp"
      BY <1>5
    <3> QED
      BY <3>1, <3>2, <3>3, <1>9
  <2>2. CASE key \in {outdir, port, pass}
    BY <2>2, <1>3, <1>4 DEF outdir, port, pass, temp, tempdir
  <2> QED
    BY <2>1, <2>2 DEF Described, Plain
<1> QED
  BY <1>8, <1>11, <1>12 DEF Described, Plain

\* With the options that the program describes, in any order, each option but
\* -outdir is read as the user wrote it, and -tempdir as -temp was.
THEOREM OptionsAreResolved == Spec => []OptionsResolved
<1>1. args \in ArgLists => OptionsResolved
  <2> SUFFICES ASSUME args \in ArgLists, AsDescribed PROVE OptionsResolved
    BY DEF OptionsResolved
  <2>1. \A i \in 1..Len(args) : args[i].value # NoValue => args[i].key \in Described
    BY DEF AsDescribed
  <2>2. ASSUME NEW name \in Described \ {outdir}
        PROVE  Hits(name) = {i \in 1..Len(args) : args[i].key = name
                                                  /\ args[i].value # NoValue}
    BY <2>1, DescribedKeys DEF Hits
  <2>3. Hits(tempdir) = {i \in 1..Len(args) : args[i].key = temp
                                              /\ args[i].value # NoValue}
    BY <2>1, DescribedKeys DEF Hits
  <2>4. \A name \in Described \ {outdir} : getOption(name) = Written(name)
    BY <2>2 DEF getOption, Written
  <2>5. getOption(tempdir) = Written(temp)
    BY <2>3 DEF getOption, Written
  <2> QED
    BY <2>4, <2>5 DEF OptionsResolved
<1> QED
  BY <1>1, ArgsKept, PTL

\* Where no argument has an empty value, csv never writes to the directory it
\* falls back to: the argument that chose it, or one before it, is taken for
\* -outdir (CSVOutput.cpp:26-32).  With '-outdir= -out=csv' it does.
THEOREM OutdirIsGiven == Spec => []OutdirNeverDefaults
<1>1. args \in ArgLists => OutdirNeverDefaults
  <2> SUFFICES ASSUME args \in ArgLists, engine = "csv",
                      \A i \in 1..Len(args) : args[i].value # ""
               PROVE  given(outdir)
    BY DEF OutdirNeverDefaults
  <2>1. NoValue # "csv"
    BY ValueAssumption DEF Engines
  <2>2. getOption(out) = "csv"
    BY <2>1 DEF engine
  <2>3. Hits(outdir) # {}
    BY <2>1, <2>2, OutAnswersForOutdir DEF getOption
  <2>4. PICK i \in Hits(outdir) : getOption(outdir) = args[i].value
    BY <2>3, OptionOf
  <2> QED
    BY <2>4 DEF Hits, given
<1> QED
  BY <1>1, ArgsKept, PTL

-----------------------------------------------------------------------------
(* The exit status. *)

toTable == engine \in {"mysql", "csv"}

\* An option means the same in every state of a run.
LEMMA OptionsKept ==
  ASSUME args' = args
  PROVE  /\ engine' = engine
         /\ toTable' <=> toTable
         /\ \A n : given(n)' <=> given(n)
         /\ \A n : getFlag(n)' <=> getFlag(n)
  BY DEF engine, toTable, given, getFlag, getOption, Hits

\* What mysql or csv made of the output, by where the call is.
OutputInv ==
  /\ {gErr, failed, lost} \subseteq BOOLEAN
  /\ phase \in {"begin", "start", "doc", "input"} => status = "ready"
  /\ ~failed /\ (gErr \/ status = "ready") => stored = "asBefore"
  /\ ~failed /\ status = "returned" => gErr \/ stored = "written"
  /\ gErr => status = "returned"
  /\ phase = "return" /\ toTable => status = "returned"

\* What the input engine has made of SymbolData when it is handed over.
AsRead ==
  /\ data = "whole" <=> (given(in) /\ ~lost)
  /\ ~given(in) => data = "empty"

\* What the input engine left, by where main is.
InputInv ==
  /\ phase \in {"begin", "start", "doc", "input"} => data = "empty" /\ ~lost
  /\ phase = "input" => given(in)
  /\ phase = "doc" => getFlag(doc)
  /\ phase \in {"output", "return"} => AsRead

\* What main has returned.
ExitInv ==
  phase = "exit" =>
    /\ code = 1 /\ ~failed => stored = "asBefore"
    /\ code = 0 /\ toTable /\ ~getFlag(doc) /\ ~given(wikidoc) =>
         /\ ~failed => stored = "written"
         /\ AsRead

MainInv == OutputInv /\ InputInv /\ ExitInv

\* The steps of mysql and csv.
LEMMA EngineSteps ==
  ASSUME MainInv, phase = "output",
         \/ EngineRefuses \/ EngineWorks \/ EngineReturns \/ EngineKilled
         \/ OtherRun
  PROVE  MainInv'
<1> USE DEF MainInv, OutputInv, InputInv, ExitInv, goto, main
<1>1. /\ args' = args
      /\ data' = data /\ lost' = lost /\ phase' \in {"output", "return", "crashed"}
  BY DEF EngineRefuses, EngineWorks, EngineReturns, EngineKilled, OtherRun
<1>2. InputInv' /\ ExitInv'
  BY <1>1, OptionsKept DEF AsRead
<1>3. CASE EngineRefuses
  BY <1>1, <1>2, <1>3 DEF EngineRefuses, Engine!Refuse
<1>4. CASE EngineWorks
  BY <1>1, <1>2, <1>4 DEF EngineWorks, Engine!Work
<1>5. CASE EngineReturns
  <2>1. CASE Engine!Return
    BY <1>1, <1>2, <1>5, <2>1 DEF EngineReturns, Engine!Return
  <2>2. CASE Engine!Complain
    BY <1>1, <1>2, <1>5, <2>2 DEF EngineReturns, Engine!Complain
  <2> QED
    BY <1>5, <2>1, <2>2 DEF EngineReturns
<1>6. CASE EngineKilled
  BY <1>1, <1>2, <1>6 DEF EngineKilled, Engine!Kill
<1>7. CASE OtherRun
  BY <1>1, <1>2, <1>7 DEF OtherRun, Engine!Meddle
<1> QED
  BY <1>3, <1>4, <1>5, <1>6, <1>7

\* The steps of main.
LEMMA MainSteps ==
  ASSUME args \in ArgLists, MainInv, [Next]_vars
  PROVE  MainInv'
<1> USE DEF MainInv, OutputInv, InputInv, ExitInv, AsRead, engines
<1>1. args' = args
  BY ArgsStep
<1>2. /\ toTable' <=> toTable
      /\ given(in)' <=> given(in)
      /\ getFlag(doc)' <=> getFlag(doc)
      /\ given(wikidoc)' <=> given(wikidoc)
  BY <1>1, OptionsKept
<1>3. CASE SetDirectory \/ Document
  BY <1>2, <1>3 DEF SetDirectory, Document, goto
<1>4. CASE DocumentStep
  BY <1>2, <1>4 DEF DocumentStep, goto, exit, main
<1>5. CASE WikiDoc
  BY <1>2, <1>5 DEF WikiDoc, exit
<1>6. CASE PrintUsage
  BY <1>2, <1>6 DEF PrintUsage, exit
<1>7. CASE Run
  BY <1>2, <1>7 DEF Run, goto
<1>8. CASE Input
  <2>1. CASE ReadInput
    BY <1>2, <2>1 DEF ReadInput
  <2>2. CASE ReadInputFails
    BY <1>2, <2>2 DEF ReadInputFails
  <2>3. CASE InputCrashes
    BY <1>2, <2>3 DEF InputCrashes
  <2> QED
    BY <1>8, <2>1, <2>2, <2>3 DEF Input
<1>9. CASE EngineRefuses \/ EngineWorks \/ EngineReturns \/ EngineKilled \/ OtherRun
  BY <1>9, EngineSteps DEF EngineRefuses, EngineWorks, EngineReturns, EngineKilled,
     OtherRun, Ready
<1>10. CASE ListDrivers
  BY <1>2, <1>10 DEF ListDrivers, exit, toTable
<1>11. CASE OdbcStep
  BY <1>2, <1>11 DEF OdbcStep, goto, main, toTable
<1>12. CASE Return
  BY <1>2, <1>12 DEF Return, exit
<1>13. CASE UNCHANGED vars
  BY <1>2, <1>13 DEF vars, main
<1> QED
  BY <1>3, <1>4, <1>5, <1>6, <1>7, <1>8, <1>9, <1>10, <1>11, <1>12, <1>13
     DEF Next, Step, Output

\* At first nothing was read and nothing was written.
LEMMA MainStarts ==
  ASSUME Init
  PROVE  MainInv
  BY DEF Init, Engine!Init, MainInv, OutputInv, InputInv, ExitInv, AsRead

\* The invariant of main, of its input and of its output.
LEMMA Main == Spec => []MainInv
  BY MainStarts, MainSteps, ArgsKept, PTL DEF Spec

\* Whatever was wrong with the options, and whatever the input: a run that says
\* so has not touched the output.
THEOREM RefusalsAreHarmless == Spec => []RefusalTouchesNothing
<1>1. MainInv => RefusalTouchesNothing
  BY DEF MainInv, ExitInv, RefusalTouchesNothing
<1> QED
  BY <1>1, Main, PTL

\* Where the output engine did not fail, status 0 of mysql and csv means that it
\* wrote what the input engine left: the whole input, as that one promises it, or
\* less if reading it failed, of which the status says nothing.
THEOREM ZeroIsStored == Spec => []StoresWhatWasRead
<1>1. MainInv => StoresWhatWasRead
  BY DEF MainInv, ExitInv, AsRead, StoresWhatWasRead, toTable
<1> QED
  BY <1>1, Main, PTL

-----------------------------------------------------------------------------
(* odbc. *)

\* What has become of the k-th table after n commands: its two are over, or the
\* DROP is.
TableSent(k, n) ==
  Tables[k] \notin spoilt =>
    /\ 2 * k <= n => table[Tables[k]] = Empty
    /\ 2 * k - 1 = n => table[Tables[k]] = Absent

\* Commands are sent from the first to the last, or not at all.
OdbcInv ==
  /\ pc \in 0..(2 * Len(Tables))
  /\ odbcAt \in {"build", "connect"} => pc = 0
  /\ odbcAt = "end" => pc \in {0, 2 * Len(Tables)}
  /\ table \in [Odbc!TableSet -> {Absent, Empty, Older}]
  /\ \A k \in 1..Len(Tables) : TableSent(k, pc)

\* A list of k pairs has its n-th command, from 0, in the pair of n \div 2.
LEMMA Paired ==
  ASSUME Odbc!Sending, OdbcInv
  PROVE  \E k \in 1..Len(Tables) :
           /\ Odbc!on = Tables[k]
           /\ IF Odbc!isDrop THEN pc = 2 * k - 2 ELSE pc = 2 * k - 1
<1>1. PICK l \in Nat : l = Len(Tables)
  BY OdbcAssumption DEF Odbc!ConstantsOK
<1>2. PICK n \in Nat : n = pc /\ n < 2 * l
  BY <1>1 DEF OdbcInv, Odbc!Sending
<1>3. PICK q \in Nat : q = n \div 2
  OBVIOUS
<1>4. /\ n % 2 = 0 => n = 2 * q
      /\ n % 2 # 0 => n = 2 * q + 1
  BY <1>3
<1>5. q + 1 \in 1..Len(Tables)
  BY <1>1, <1>2, <1>3
<1> WITNESS q + 1 \in 1..Len(Tables)
<1> QED
  BY <1>1, <1>2, <1>3, <1>4, <1>5 DEF Odbc!on, Odbc!isDrop

\* A command of the k-th table concerns no other one.
LEMMA OdbcSteps ==
  ASSUME OdbcInv, Odbc!Next
  PROVE  OdbcInv'
<1>1. CASE Odbc!Build \/ Odbc!Connect \/ Odbc!ConnectFails \/ Odbc!Disconnect
  BY <1>1 DEF Odbc!Build, Odbc!Connect, Odbc!ConnectFails, Odbc!Disconnect, OdbcInv,
     TableSent
<1>2. CASE Odbc!Execute \/ Odbc!ExecuteFails
  <2>1. Odbc!Sending /\ odbcAt = "send" /\ odbcAt' = odbcAt /\ pc' = pc + 1
    BY <1>2 DEF Odbc!Execute, Odbc!ExecuteFails, Odbc!Sending
  <2>2. PICK l \in Nat : l = Len(Tables)
    BY OdbcAssumption DEF Odbc!ConstantsOK
  <2>3. PICK k \in 1..l :
          /\ Odbc!on = Tables[k]
          /\ IF Odbc!isDrop THEN pc = 2 * k - 2 ELSE pc = 2 * k - 1
    BY <2>1, <2>2, Paired
  <2>4. PICK n \in Nat : n = pc /\ pc' = n + 1 /\ n + 1 \in 0..(2 * l)
    BY <2>1, <2>2 DEF OdbcInv, Odbc!Sending
  <2>5. \A j \in 1..l : Tables[j] = Tables[k] => j = k
    BY <2>2, OdbcAssumption DEF Odbc!ConstantsOK
  <2>6. \A j \in 1..l : Tables[j] \in Odbc!TableSet
    BY <2>2 DEF Odbc!TableSet
  <2>7. \A j \in 1..l : TableSent(j, n)
    BY <2>2, <2>4 DEF OdbcInv
  <2>8. table' \in [Odbc!TableSet -> {Absent, Empty, Older}]
    BY <1>2 DEF Odbc!Execute, Odbc!ExecuteFails, OdbcInv
  <2>9. ASSUME NEW j \in 1..l PROVE TableSent(j, n + 1)'
    <3>1. CASE Odbc!Execute
      <4>1. table' = [table EXCEPT ![Tables[k]] = IF Odbc!isDrop THEN Absent ELSE Empty]
            /\ spoilt' = spoilt
        BY <2>3, <3>1 DEF Odbc!Execute
      <4>2. CASE j = k
        <5>1. table'[Tables[k]] = IF Odbc!isDrop THEN Absent ELSE Empty
          BY <2>6, <4>1 DEF OdbcInv
        <5> QED
          BY <2>3, <2>4, <4>2, <5>1 DEF TableSent
      <4>3. CASE j # k
        <5>1. table'[Tables[j]] = table[Tables[j]]
          BY <2>5, <2>6, <4>1, <4>3 DEF OdbcInv
        <5>2. /\ 2 * j <= n + 1 => 2 * j <= n
              /\ 2 * j - 1 # n + 1
          BY <2>3, <2>4, <4>3
        <5> QED
          BY <2>7, <4>1, <5>1, <5>2 DEF TableSent
      <4> QED
        BY <4>2, <4>3
    <3>2. CASE Odbc!ExecuteFails
      <4>1. table' = table /\ spoilt' = spoilt \cup {Tables[k]}
        BY <2>3, <3>2 DEF Odbc!ExecuteFails
      <4>2. CASE j = k
        BY <4>1, <4>2 DEF TableSent
      <4>3. CASE j # k
        <5>1. /\ 2 * j <= n + 1 => 2 * j <= n
              /\ 2 * j - 1 # n + 1
          BY <2>3, <2>4, <4>3
        <5> QED
          BY <2>7, <4>1, <5>1 DEF TableSent
      <4> QED
        BY <4>2, <4>3
    <3> QED
      BY <1>2, <3>1, <3>2
  <2> QED
    BY <2>1, <2>2, <2>4, <2>8, <2>9 DEF OdbcInv
<1> QED
  BY <1>1, <1>2 DEF Odbc!Next

\* The steps of main that are not odbc's leave it alone.
LEMMA OdbcKept ==
  ASSUME OdbcInv, [Next]_vars
  PROVE  OdbcInv'
<1>1. CASE OdbcStep
  BY <1>1, OdbcSteps DEF OdbcStep
<1>2. CASE odbc' = odbc
  BY <1>2 DEF odbc, OdbcInv, TableSent
<1> QED
  BY <1>1, <1>2 DEF Next, Step, SetDirectory, Document, DocumentStep, WikiDoc,
     PrintUsage, Run, Input, ReadInput, ReadInputFails, InputCrashes, Output,
     EngineRefuses, EngineWorks, EngineReturns, EngineKilled, OtherRun, ListDrivers,
     Return, vars

\* At first no command was sent.
LEMMA OdbcStarts ==
  ASSUME Init
  PROVE  OdbcInv
<1>1. PICK l \in Nat : l = Len(Tables)
  BY OdbcAssumption DEF Odbc!ConstantsOK
<1>2. odbcAt = "build" /\ pc = 0 /\ table \in [Odbc!TableSet -> {Absent, Empty, Older}]
  BY DEF Init, Odbc!Init
<1> QED
  BY <1>1, <1>2 DEF OdbcInv, TableSent

\* Once commands were sent, every table but those one of whose own commands
\* failed was dropped and created, however many others failed.
THEOREM OdbcCarriesOn == Spec => []OdbcGoesOn
<1>1. Init => OdbcInv
  BY OdbcStarts
<1>2. OdbcInv => OdbcGoesOn
  <2> SUFFICES ASSUME OdbcInv, odbcAt = "end", pc > 0,
                      NEW t \in Odbc!TableSet \ spoilt
               PROVE  table[t] = Empty
    BY DEF OdbcGoesOn, Odbc!OthersUnharmed
  <2>1. PICK l \in Nat : l = Len(Tables)
    BY OdbcAssumption DEF Odbc!ConstantsOK
  <2>2. PICK k \in 1..l : t = Tables[k]
    BY <2>1 DEF Odbc!TableSet
  <2>3. pc = 2 * l /\ 2 * k <= pc
    BY <2>1 DEF OdbcInv
  <2> QED
    BY <2>1, <2>2, <2>3 DEF OdbcInv, TableSent
<1> QED
  BY <1>1, <1>2, OdbcKept, PTL DEF Spec

-----------------------------------------------------------------------------
(* Induction, and functions that are defined by it. *)

\* A set of numbers that has 0 and with each number below n the next one has
\* every number up to n.
LEMMA UpTo ==
  ASSUME NEW n \in Nat, NEW T, 0 \in T,
         \A k \in 0..(n - 1) : k \in T => k + 1 \in T
  PROVE  \A k \in 0..n : k \in T
<1> DEFINE U == {k \in 0..n : k \notin T}
<1>1. CASE U = {}
  BY <1>1
<1>2. CASE U # {}
  <2>1. U \subseteq Nat
    OBVIOUS
  <2>2. PICK k \in U : \A j \in U : ~(<<j, k>> \in OpToRel(<, Nat))
    <3> HIDE DEF U
    <3> QED
      BY <1>2, <2>1, NatLessThanWellFounded, WFMin
  <2>3. k # 0 /\ k \in 0..n
    OBVIOUS
  <2>4. PICK m \in 0..(n - 1) : k = m + 1
    BY <2>3
  <2>5. m \notin U
    <3>1. m \in Nat /\ k \in Nat /\ m < k
      BY <2>4
    <3>2. <<m, k>> \in OpToRel(<, Nat)
      BY <3>1 DEF OpToRel
    <3> HIDE DEF U
    <3> QED
      BY <2>2, <3>2
  <2> QED
    BY <2>4, <2>5
<1> QED
  BY <1>1, <1>2

\* From every start and by every rule a function is defined step by step.
StepByStep(S, n, start, rule) ==
  \E f \in [0..n -> S] :
    /\ f[0] = start
    /\ \A i \in 1..n : f[i] = rule[<<f[i - 1], i>>]

\* Such a function exists.
LEMMA Recursion ==
  ASSUME NEW S, NEW n \in Nat, NEW start \in S, NEW rule \in [S \X (1..n) -> S]
  PROVE  StepByStep(S, n, start, rule)
<1> DEFINE Defined(k) == \E f \in [0..k -> S] :
             /\ f[0] = start
             /\ \A i \in 1..k : f[i] = rule[<<f[i - 1], i>>]
           T == {k \in 0..n : Defined(k)}
<1>1. 0 \in T
  <2> DEFINE f == [i \in 0..0 |-> start]
  <2>1. f \in [0..0 -> S] /\ f[0] = start
    OBVIOUS
  <2> HIDE DEF f
  <2>2. \A i \in 1..0 : f[i] = rule[<<f[i - 1], i>>]
    OBVIOUS
  <2>3. Defined(0)
    BY <2>1, <2>2
  <2> QED
    BY <2>3
<1>2. ASSUME NEW k \in 0..(n - 1), k \in T
      PROVE  k + 1 \in T
  <2>1. PICK f \in [0..k -> S] :
          f[0] = start /\ \A i \in 1..k : f[i] = rule[<<f[i - 1], i>>]
    BY <1>2
  <2> DEFINE e == rule[<<f[k], k + 1>>]
             g == [i \in 0..(k + 1) |-> IF i = k + 1 THEN e ELSE f[i]]
  <2>2. f[k] \in S /\ k + 1 \in 1..n
    BY <2>1
  <2>3. e \in S
    BY <2>2
  <2>4. \A i \in 0..k : g[i] = f[i] /\ f[i] \in S
    BY <2>1
  <2>5. g[k + 1] = rule[<<g[k], k + 1>>]
    <3>1. g[k + 1] = e /\ g[k] = f[k]
      BY <2>4
    <3> QED
      BY <3>1
  <2>6. g \in [0..(k + 1) -> S]
    BY <2>3, <2>4
  <2> HIDE DEF g, e
  <2>7. ASSUME NEW i \in 1..(k + 1)
        PROVE  g[i] = rule[<<g[i - 1], i>>]
    <3>1. CASE i = k + 1
      <4>1. i - 1 = k
        BY <3>1
      <4> QED
        BY <2>5, <3>1, <4>1
    <3>2. CASE i # k + 1
      <4>1. i \in 1..k /\ i \in 0..k /\ i - 1 \in 0..k
        BY <3>2
      <4>2. g[i] = f[i] /\ g[i - 1] = f[i - 1]
        BY <2>4, <4>1
      <4> QED
        BY <2>1, <4>1, <4>2
    <3> QED
      BY <3>1, <3>2
  <2>8. g[0] = start
    BY <2>1, <2>4
  <2> QED
    BY <2>6, <2>7, <2>8
<1>3. n \in T
  <2> HIDE DEF T
  <2> QED
    BY <1>1, <1>2, UpTo
<1> QED
  BY <1>3 DEF StepByStep

-----------------------------------------------------------------------------
(* The results of -doc: the names that a symbol adds, and their order. *)

Elements(s) == {s[i] : i \in 1..Len(s)}
Once(s)     == \A i, j \in 1..Len(s) : s[i] = s[j] => i = j
Names       == Elements(Getters)

\* The getters that answer for a symbol and are not known yet.
NewOf(found, answers) == {g \in Names : g \in answers /\ g \notin Elements(found)}

\* What is assumed of the getters and the tags.
LEMMA GettersKnown ==
  /\ Getters \in Seq(Nat) /\ Getters \in Seq(Names) /\ Once(Getters)
  /\ Names \subseteq Nat
  /\ MaxTag \in Nat /\ Survey!Tags = 0..MaxTag
BY SurveyAssumption DEF Survey!ConstantsOK, Survey!IsInjective, Names, Elements, Once,
   Survey!Tags

\* A new name behind names that are all different.
LEMMA Appended ==
  ASSUME NEW S, NEW s \in Seq(S), NEW g \in S, Once(s), g \notin Elements(s)
  PROVE  /\ Append(s, g) \in Seq(S)
         /\ Elements(Append(s, g)) = Elements(s) \cup {g}
         /\ Once(Append(s, g))
<1>1. PICK n \in Nat : n = Len(s)
  OBVIOUS
<1>2. /\ Len(Append(s, g)) = n + 1 /\ Append(s, g)[n + 1] = g
      /\ \A i \in 1..n : Append(s, g)[i] = s[i]
  BY <1>1
<1>3. \A i : i \in 1..(n + 1) <=> i \in 1..n \/ i = n + 1
  OBVIOUS
<1>4. Elements(Append(s, g)) = Elements(s) \cup {g}
  BY <1>1, <1>2, <1>3 DEF Elements
<1>5. Once(Append(s, g))
  BY <1>1, <1>2, <1>3 DEF Once, Elements
<1> QED
  BY <1>4, <1>5

\* The walk over the getters finds each of them once.
LEMMA NewAre ==
  ASSUME NEW found \in Seq(Names), NEW answers
  PROVE  /\ Survey!NewFor(found, answers) \in Seq(Names)
         /\ Elements(Survey!NewFor(found, answers)) = NewOf(found, answers)
         /\ Once(Survey!NewFor(found, answers))
<1> DEFINE known == Survey!ToSet(found)
           S == Seq(Names)
           Does(s, g) == IF g \in answers \ known THEN Append(s, g) ELSE s
<1>1. PICK n \in Nat : n = Len(Getters)
  BY GettersKnown
<1>2. known = Elements(found)
  BY DEF Survey!ToSet, Elements
<1>3. \A i \in 1..n : Getters[i] \in Names
  BY <1>1 DEF Names, Elements
<1> HIDE DEF known
<1>4. \A s \in S, g \in Names : Does(s, g) \in S
  OBVIOUS
<1>5. PICK rule \in [S \X (1..n) -> S] :
        \A s \in S, i \in 1..n : rule[<<s, i>>] = Does(s, Getters[i])
  <2> DEFINE rule == [p \in S \X (1..n) |-> Does(p[1], Getters[p[2]])]
  <2> HIDE DEF S, Does
  <2>1. rule \in [S \X (1..n) -> S]
    BY <1>3, <1>4
  <2>2. \A s \in S, i \in 1..n : rule[<<s, i>>] = Does(s, Getters[i])
    OBVIOUS
  <2> HIDE DEF rule
  <2> QED
    BY <2>1, <2>2
<1>6. PICK f \in [0..n -> S] :
        f[0] = <<>> /\ \A i \in 1..n : f[i] = rule[<<f[i - 1], i>>]
  <2>1. <<>> \in S
    OBVIOUS
  <2> HIDE DEF S
  <2>2. StepByStep(S, n, <<>>, rule)
    BY <2>1, Recursion
  <2> QED
    BY <2>2 DEF StepByStep
<1> DEFINE IsWalk(h) ==
      h = [i \in 0..n |-> IF i = 0 THEN <<>> ELSE Does(h[i - 1], Getters[i])]
<1>7. IsWalk(f)
  <2> HIDE DEF Does, S
  <2>1. \A i \in 1..n : f[i - 1] \in S
    BY <1>6
  <2>2. \A i \in 1..n : f[i] = Does(f[i - 1], Getters[i])
    BY <1>5, <1>6, <2>1
  <2> QED
    BY <1>6, <2>2
<1>8. PICK r : r = CHOOSE h : IsWalk(h)
  OBVIOUS
<1>9. IsWalk(r)
  BY <1>7, <1>8
<1>10. Survey!NewFor(found, answers) = r[n]
  BY <1>1, <1>8 DEF Survey!NewFor, known
<1>11. r[0] = <<>> /\ \A i \in 1..n : r[i] = Does(r[i - 1], Getters[i])
  <2> HIDE DEF Does
  <2>1. \A i \in 1..n : i \in 0..n /\ i # 0
    OBVIOUS
  <2> QED
    BY <1>9, <2>1
<1> DEFINE Good(k) ==
      /\ r[k] \in S
      /\ Elements(r[k]) =
           {Getters[i] : i \in {j \in 1..k : Getters[j] \in answers \ known}}
      /\ Once(r[k])
    T == {k \in 0..n : Good(k)}
<1>12. 0 \in T
  <2>1. <<>> \in S /\ Elements(<<>>) = {} /\ Once(<<>>)
    BY DEF Elements, Once
  <2>2. {Getters[i] : i \in {j \in 1..0 : Getters[j] \in answers \ known}} = {}
    OBVIOUS
  <2>3. PICK e \in S : e = r[0] /\ Elements(e) = {} /\ Once(e)
    BY <1>11, <2>1
  <2>4. r[0] \in S /\ Elements(r[0]) = {} /\ Once(r[0])
    BY <2>3
  <2>5. Good(0)
    <3> HIDE DEF S
    <3> QED
      BY <2>2, <2>4
  <2> QED
    BY <2>5
<1>13. ASSUME NEW k \in 0..(n - 1), k \in T
       PROVE  k + 1 \in T
  <2>1. k + 1 \in 1..n /\ k + 1 \in 0..n
    OBVIOUS
  <2>2. PICK g \in Names : g = Getters[k + 1]
    BY <1>3, <2>1
  <2>3. PICK s \in S : s = r[k] /\ Once(s) /\ Elements(s) =
          {Getters[i] : i \in {j \in 1..k : Getters[j] \in answers \ known}}
    BY <1>13
  <2>4. r[k + 1] = Does(s, g)
    BY <1>11, <2>1, <2>2, <2>3
  <2>5. CASE g \in answers \ known
    <3>1. r[k + 1] = Append(s, g)
      BY <2>4, <2>5
    <3>2. g \notin Elements(s)
      <4>1. \A i \in 1..k : Getters[i] # g
        BY <1>1, <2>1, <2>2, GettersKnown DEF Once
      <4> QED
        BY <2>3, <4>1
    <3>3. Append(s, g) \in S /\ Elements(Append(s, g)) = Elements(s) \cup {g}
          /\ Once(Append(s, g))
      BY <2>3, <3>2, Appended
    <3>4. Elements(r[k + 1]) =
            {Getters[i] : i \in {j \in 1..(k + 1) : Getters[j] \in answers \ known}}
      <4>1. \A j : j \in 1..(k + 1) <=> j \in 1..k \/ j = k + 1
        OBVIOUS
      <4> QED
        BY <2>2, <2>3, <2>5, <3>1, <3>3, <4>1
    <3> QED
      BY <2>1, <3>1, <3>3, <3>4
  <2>6. CASE g \notin answers \ known
    <3>1. r[k + 1] = s
      BY <2>4, <2>6
    <3>2. Elements(s) =
            {Getters[i] : i \in {j \in 1..(k + 1) : Getters[j] \in answers \ known}}
      <4>1. \A j : j \in 1..(k + 1) <=> j \in 1..k \/ j = k + 1
        OBVIOUS
      <4> QED
        BY <2>2, <2>3, <2>6, <4>1
    <3> QED
      BY <2>1, <2>3, <3>1, <3>2
  <2> QED
    BY <2>5, <2>6
<1>14. n \in T
  <2>1. 0 \in T
    BY <1>12
  <2>2. \A k \in 0..(n - 1) : k \in T => k + 1 \in T
    BY <1>13
  <2> HIDE DEF T
  <2>3. \A k \in 0..n : k \in T
    BY <2>1, <2>2, UpTo
  <2> QED
    BY <2>3
<1>15. {Getters[i] : i \in {j \in 1..n : Getters[j] \in answers \ known}}
         = NewOf(found, answers)
  BY <1>1, <1>2 DEF NewOf, Names, Elements
<1> QED
  BY <1>10, <1>14, <1>15

\* The numbers r from 1 to n, in order, are X.
InOrder(n, r, X) ==
  /\ {r[i] : i \in 1..n} = X
  /\ \A i, j \in 1..n : i < j => r[i] < r[j]

\* Names that are all different can be put in order: they stand in an order
\* without the last, and the last is put before the first that is not less.
LEMMA Inserted ==
  ASSUME NEW n \in Nat, NEW r \in [1..n -> Nat], NEW X, NEW x \in Nat,
         InOrder(n, r, X), x \notin X
  PROVE  \E t \in [1..(n + 1) -> Nat] : InOrder(n + 1, t, X \cup {x})
<1>0. /\ X = {r[i] : i \in 1..n} /\ \A i \in 1..n : r[i] # x
      /\ \A i, j \in 1..n : i < j => r[i] < r[j]
  BY DEF InOrder
<1>1. PICK k \in 1..(n + 1) : /\ \A i \in 1..n : i < k => r[i] < x
                              /\ \A i \in 1..n : i >= k => x < r[i]
  <2> DEFINE U == {k \in 1..(n + 1) : k = n + 1 \/ r[k] > x}
  <2>1. U # {} /\ U \subseteq Nat
    <3>1. n + 1 \in U
      OBVIOUS
    <3> QED
      BY <3>1
  <2>2. PICK k \in U : \A j \in U : ~(<<j, k>> \in OpToRel(<, Nat))
    <3> HIDE DEF U
    <3> QED
      BY <2>1, NatLessThanWellFounded, WFMin
  <2>3. \A j \in U : ~(j < k)
    BY <2>1, <2>2 DEF OpToRel
  <2>4. \A i \in 1..n : i < k => r[i] < x
    BY <1>0, <2>3
  <2>5. \A i \in 1..n : i >= k => x < r[i]
    <3>1. \A i \in 1..n : i >= k => k \in 1..n /\ r[k] > x
      OBVIOUS
    <3>2. ASSUME NEW i \in 1..n, i >= k PROVE x < r[i]
      <4>1. k \in 1..n /\ r[k] > x
        BY <3>1, <3>2
      <4>2. i = k \/ r[k] < r[i]
        BY <1>0, <3>2, <4>1
      <4> QED
        BY <4>1, <4>2
    <3> QED
      BY <3>2
  <2> QED
    BY <2>4, <2>5
<1> DEFINE t == [i \in 1..(n + 1) |->
                   IF i < k THEN r[i] ELSE IF i = k THEN x ELSE r[i - 1]]
<1>2. \A i \in 1..(n + 1) :
        /\ i < k => i \in 1..n /\ t[i] = r[i]
        /\ i = k => t[i] = x
        /\ i > k => i - 1 \in 1..n /\ i - 1 >= k /\ t[i] = r[i - 1]
  OBVIOUS
<1>3. ASSUME NEW i \in 1..n
      PROVE  (i < k /\ t[i] = r[i]) \/ (i + 1 \in 1..(n + 1) /\ t[i + 1] = r[i])
  <2>1. CASE i < k
    BY <2>1
  <2>2. CASE i >= k
    <3>1. PICK j \in 1..(n + 1) : j = i + 1 /\ j > k /\ j - 1 = i
      BY <2>2
    <3>2. t[j] = r[j - 1]
      BY <1>2, <3>1
    <3> QED
      BY <3>1, <3>2
  <2> QED
    BY <2>1, <2>2
<1>4. t \in [1..(n + 1) -> Nat]
  <2>1. \A i \in 1..(n + 1) : t[i] \in Nat
    BY <1>2
  <2> QED
    BY <2>1
<1> HIDE DEF t
<1>5. {t[i] : i \in 1..(n + 1)} = {r[i] : i \in 1..n} \cup {x}
  <2>1. ASSUME NEW i \in 1..(n + 1) PROVE t[i] \in {r[j] : j \in 1..n} \cup {x}
    BY <1>2
  <2>2. x \in {t[i] : i \in 1..(n + 1)}
    BY <1>2
  <2>3. ASSUME NEW i \in 1..n PROVE r[i] \in {t[j] : j \in 1..(n + 1)}
    <3>1. CASE i < k /\ t[i] = r[i]
      <4>1. i \in 1..(n + 1)
        OBVIOUS
      <4> QED
        BY <3>1, <4>1
    <3>2. CASE i + 1 \in 1..(n + 1) /\ t[i + 1] = r[i]
      BY <3>2
    <3> QED
      BY <1>3, <3>1, <3>2
  <2> QED
    BY <2>1, <2>2, <2>3
<1>6. ASSUME NEW i \in 1..(n + 1), NEW j \in 1..(n + 1), i < j
      PROVE  t[i] < t[j]
  <2>1. CASE j < k
    BY <1>0, <1>2, <1>6, <2>1
  <2>2. CASE j = k
    BY <1>1, <1>2, <1>6, <2>2
  <2>3. CASE j > k /\ i > k
    <3>1. i - 1 < j - 1 /\ i - 1 \in 1..n /\ j - 1 \in 1..n
      BY <1>2, <1>6, <2>3
    <3>2. t[i] = r[i - 1] /\ t[j] = r[j - 1]
      BY <1>2, <2>3
    <3> QED
      BY <1>0, <3>1, <3>2
  <2>4. CASE j > k /\ i = k
    BY <1>1, <1>2, <2>4
  <2>5. CASE j > k /\ i < k
    <3>1. j - 1 \in 1..n /\ j - 1 >= k /\ t[j] = r[j - 1]
      BY <1>2, <2>5
    <3>2. t[i] < x /\ x < t[j]
      BY <1>1, <1>2, <2>5, <3>1
    <3>3. t[i] \in Nat /\ t[j] \in Nat
      BY <1>4
    <3> QED
      BY <3>2, <3>3
  <2> QED
    BY <2>1, <2>2, <2>3, <2>4, <2>5
<1>7. InOrder(n + 1, t, X \cup {x})
  BY <1>0, <1>5, <1>6 DEF InOrder
<1> QED
  BY <1>4, <1>7

Begin(s, k)    == {s[i] : i \in 1..k}
Sortable(s, k) == \E r \in [1..k -> Nat] : InOrder(k, r, Begin(s, k))

\* Names that are all different can be put in order.
LEMMA SortedExists ==
  ASSUME NEW s \in Seq(Nat), Once(s)
  PROVE  Sortable(s, Len(s))
<1>1. PICK n \in Nat : n = Len(s)
  OBVIOUS
<1> DEFINE T == {k \in 0..n : Sortable(s, k)}
<1>2. 0 \in T
  <2> DEFINE e == [i \in 1..0 |-> 0]
  <2>1. e \in [1..0 -> Nat]
    OBVIOUS
  <2>2. InOrder(0, e, Begin(s, 0))
    BY DEF InOrder, Begin
  <2> HIDE DEF e
  <2>3. Sortable(s, 0)
    BY <2>1, <2>2 DEF Sortable
  <2> QED
    BY <2>3
<1>3. ASSUME NEW k \in 0..(n - 1), k \in T
      PROVE  k + 1 \in T
  <2>0. k \in Nat
    OBVIOUS
  <2>1. PICK r \in [1..k -> Nat] : InOrder(k, r, Begin(s, k))
    BY <1>3 DEF Sortable
  <2>2. PICK x \in Nat : x = s[k + 1]
    BY <1>1
  <2>3. x \notin Begin(s, k)
    <3>1. \A i \in 1..k : i \in 1..n /\ k + 1 \in 1..n /\ i # k + 1
      OBVIOUS
    <3> QED
      BY <1>1, <2>2, <3>1 DEF Once, Begin
  <2>4. Begin(s, k + 1) = Begin(s, k) \cup {x}
    <3>1. \A j : j \in 1..(k + 1) <=> j \in 1..k \/ j = k + 1
      OBVIOUS
    <3> QED
      BY <2>2, <3>1 DEF Begin
  <2>5. \E t \in [1..(k + 1) -> Nat] : InOrder(k + 1, t, Begin(s, k) \cup {x})
    BY <2>0, <2>1, <2>2, <2>3, Inserted
  <2>6. Sortable(s, k + 1)
    BY <2>4, <2>5 DEF Sortable
  <2> QED
    BY <2>6
<1>4. n \in T
  <2>1. \A k \in 0..(n - 1) : k \in T => k + 1 \in T
    BY <1>3
  <2> HIDE DEF T
  <2>2. \A k \in 0..n : k \in T
    BY <1>2, <2>1, UpTo
  <2> QED
    BY <2>2
<1> QED
  BY <1>1, <1>4

\* What is written of a tag is what was measured of it, in order.
LEMMA SortedAre ==
  ASSUME NEW s \in Seq(Names), Once(s)
  PROVE  /\ Survey!Sorted(s) \in Seq(Names) /\ Len(Survey!Sorted(s)) = Len(s)
         /\ Elements(Survey!Sorted(s)) = Elements(s)
         /\ \A i, j \in 1..Len(s) : i < j => Survey!Sorted(s)[i] < Survey!Sorted(s)[j]
<1>1. PICK n \in Nat : n = Len(s)
  OBVIOUS
<1>2. /\ \A i \in 1..n : s[i] \in Names /\ s[i] \in Nat
      /\ s \in Seq(Nat) /\ Elements(s) \subseteq Names
  <2>0. Names \subseteq Nat
    BY GettersKnown
  <2>1. ASSUME NEW i \in 1..n PROVE s[i] \in Names /\ s[i] \in Nat
    <3>1. s[i] \in Names
      BY <1>1
    <3> QED
      BY <2>0, <3>1
  <2>2. s \in [1..n -> Nat]
    BY <1>1, <2>1
  <2> QED
    BY <1>1, <2>1, <2>2 DEF Elements
<1>3. PICK r \in [1..n -> Nat] : InOrder(n, r, Elements(s))
  <2>1. Sortable(s, n)
    BY <1>1, <1>2, SortedExists
  <2>2. Begin(s, n) = Elements(s)
    BY <1>1 DEF Begin, Elements
  <2> QED
    BY <2>1, <2>2 DEF Sortable
<1> DEFINE Ordered(q) == /\ Survey!ToSet(q) = Survey!ToSet(s)
                         /\ \A i, j \in 1..Len(s) : i < j => q[i] < q[j]
<1>4. \A q \in [1..n -> Nat] : Survey!ToSet(q) = {q[i] : i \in 1..n}
  BY DEF Survey!ToSet
<1>5. Survey!ToSet(s) = Elements(s)
  BY DEF Survey!ToSet, Elements
<1>6. r \in [1..Len(s) -> Survey!ToSet(s)]
  BY <1>1, <1>3, <1>5 DEF InOrder
<1>7. Ordered(r)
  BY <1>1, <1>3, <1>4, <1>5 DEF InOrder
<1>8. PICK q : q = CHOOSE p \in [1..Len(s) -> Survey!ToSet(s)] : Ordered(p)
  OBVIOUS
<1>9. Survey!Sorted(s) = q
  BY <1>8 DEF Survey!Sorted
<1> HIDE DEF Ordered
<1>10. q \in [1..Len(s) -> Survey!ToSet(s)] /\ Ordered(q)
  BY <1>6, <1>7, <1>8
<1>11. q \in [1..n -> Names] /\ q \in [1..n -> Nat]
  BY <1>1, <1>2, <1>5, <1>10, GettersKnown
<1>12. q \in Seq(Names) /\ Len(q) = n
  BY <1>11
<1>13. Elements(q) = Elements(s) /\ \A i, j \in 1..n : i < j => q[i] < q[j]
  BY <1>1, <1>4, <1>5, <1>10, <1>11, <1>12 DEF Ordered, Elements
<1> QED
  BY <1>1, <1>9, <1>12, <1>13

-----------------------------------------------------------------------------
(* -doc. *)

\* The sequences of -doc, in the terms above.
LEMMA SetOf ==
  ASSUME NEW S, NEW s \in Seq(S)
  PROVE  /\ Survey!ToSet(s) = Elements(s)
         /\ Survey!IsInjective(s) <=> Once(s)
         /\ Elements(s) \subseteq S
BY DEF Survey!ToSet, Survey!IsInjective, Elements, Once

\* The first of a sequence, and the others.
LEMMA HeadAndTail ==
  ASSUME NEW S, NEW s \in Seq(S), s # <<>>
  PROVE  /\ Head(s) \in S /\ Tail(s) \in Seq(S)
         /\ Elements(s) = {Head(s)} \cup Elements(Tail(s))
<1>1. PICK n \in Nat : n = Len(s) /\ n > 0
  OBVIOUS
<1>2. /\ Head(s) = s[1] /\ Len(Tail(s)) = n - 1
      /\ \A i \in 1..(n - 1) : Tail(s)[i] = s[i + 1]
  BY <1>1
<1>3. Head(s) \in S /\ Tail(s) \in Seq(S)
  BY <1>1
<1>4. ASSUME NEW i \in 1..n, i # 1
      PROVE  \E k \in 1..(n - 1) : s[i] = Tail(s)[k]
  <2>1. PICK k \in 1..(n - 1) : i = k + 1
    BY <1>4
  <2> QED
    BY <1>2, <2>1
<1>5. 1 \in 1..n /\ \A i \in 1..(n - 1) : i + 1 \in 1..n
  BY <1>1
<1>6. Elements(s) = {Head(s)} \cup Elements(Tail(s))
  <2>1. ASSUME NEW x \in Elements(s) PROVE x \in {Head(s)} \cup Elements(Tail(s))
    <3>1. PICK i \in 1..n : x = s[i]
      BY <1>1 DEF Elements
    <3> QED
      BY <1>2, <1>4, <3>1 DEF Elements
  <2>2. ASSUME NEW x \in {Head(s)} \cup Elements(Tail(s)) PROVE x \in Elements(s)
    <3>1. CASE x = Head(s)
      BY <1>1, <1>2, <1>5, <3>1 DEF Elements
    <3>2. CASE x \in Elements(Tail(s))
      <4>1. PICK i \in 1..(n - 1) : x = Tail(s)[i]
        BY <1>2, <3>2 DEF Elements
      <4> QED
        BY <1>1, <1>2, <1>5, <4>1 DEF Elements
    <3> QED
      BY <2>2, <3>1, <3>2
  <2> QED
    BY <2>1, <2>2
<1> QED
  BY <1>3, <1>6

\* Two lists of names that have none in common, one behind the other.
LEMMA Joined ==
  ASSUME NEW s \in Seq(Names), NEW u \in Seq(Names), Once(s), Once(u),
         \A g \in Elements(u) : g \notin Elements(s)
  PROVE  /\ s \o u \in Seq(Names)
         /\ Elements(s \o u) = Elements(s) \cup Elements(u)
         /\ Once(s \o u)
<1>1. PICK n \in Nat, m \in Nat : n = Len(s) /\ m = Len(u)
  OBVIOUS
<1> DEFINE j == s \o u
<1>2. /\ j \in Seq(Names) /\ Len(j) = n + m
      /\ \A i \in 1..n : j[i] = s[i]
      /\ \A i \in 1..m : j[n + i] = u[i]
  BY <1>1
<1> HIDE DEF j
<1>3. \A i \in 1..(n + m) : i \in 1..n \/ (i > n /\ i - n \in 1..m)
  OBVIOUS
<1>4. \A i \in 1..n : s[i] \in Elements(s)
  BY <1>1 DEF Elements
<1>5. \A i \in 1..m : u[i] \in Elements(u)
  BY <1>1 DEF Elements
<1>6. \A i \in 1..(n + m) : i > n => j[i] = u[i - n]
  <2>1. ASSUME NEW i \in 1..(n + m), i > n PROVE j[i] = u[i - n]
    <3>1. PICK k \in 1..m : k = i - n /\ i = n + k
      BY <1>3, <2>1
    <3> QED
      BY <1>2, <3>1
  <2> QED
    BY <2>1
<1>7. Elements(j) = Elements(s) \cup Elements(u)
  <2>1. ASSUME NEW x \in Elements(j) PROVE x \in Elements(s) \cup Elements(u)
    <3>1. PICK i \in 1..(n + m) : x = j[i]
      BY <1>2 DEF Elements
    <3> QED
      BY <1>2, <1>3, <1>4, <1>5, <1>6, <3>1
  <2>2. ASSUME NEW x \in Elements(s) PROVE x \in Elements(j)
    <3>1. PICK i \in 1..n : x = s[i]
      BY <1>1 DEF Elements
    <3>2. i \in 1..(n + m) /\ j[i] = x
      BY <1>2, <3>1
    <3> QED
      BY <1>2, <3>2 DEF Elements
  <2>3. ASSUME NEW x \in Elements(u) PROVE x \in Elements(j)
    <3>1. PICK i \in 1..m : x = u[i]
      BY <1>1 DEF Elements
    <3>2. n + i \in 1..(n + m) /\ j[n + i] = x
      BY <1>2, <3>1
    <3> QED
      BY <1>2, <3>2 DEF Elements
  <2> QED
    BY <2>1, <2>2, <2>3
<1>8. Once(j)
  <2>1. SUFFICES ASSUME NEW a \in 1..(n + m), NEW b \in 1..(n + m), j[a] = j[b]
                 PROVE  a = b
    BY <1>2 DEF Once
  <2>2. CASE a \in 1..n /\ b \in 1..n
    BY <1>1, <1>2, <2>1, <2>2 DEF Once
  <2>3. CASE a > n /\ b > n
    <3>1. a - n \in 1..m /\ b - n \in 1..m /\ u[a - n] = u[b - n]
      BY <1>3, <1>6, <2>1, <2>3
    <3>2. a - n = b - n
      BY <1>1, <3>1 DEF Once
    <3> QED
      BY <3>2
  <2>4. CASE a \in 1..n /\ b > n
    <3>1. b - n \in 1..m /\ j[b] = u[b - n]
      BY <1>3, <1>6, <2>4
    <3>2. j[a] = s[a]
      BY <1>2, <2>4
    <3>3. j[a] \in Elements(s) /\ j[b] \in Elements(u)
      BY <1>4, <1>5, <2>4, <3>1, <3>2
    <3> QED
      BY <2>1, <3>3
  <2>5. CASE a > n /\ b \in 1..n
    <3>1. a - n \in 1..m /\ j[a] = u[a - n]
      BY <1>3, <1>6, <2>5
    <3>2. j[b] = s[b]
      BY <1>2, <2>5
    <3>3. j[b] \in Elements(s) /\ j[a] \in Elements(u)
      BY <1>4, <1>5, <2>5, <3>1, <3>2
    <3> QED
      BY <2>1, <3>3
  <2> QED
    BY <1>3, <2>2, <2>3, <2>4, <2>5
<1> QED
  BY <1>2, <1>7, <1>8 DEF j

\* What one symbol adds to the names of its tag.
LEMMA Added ==
  ASSUME NEW found \in Seq(Names), NEW answers \in SUBSET Names, Once(found)
  PROVE  /\ found \o Survey!NewFor(found, answers) \in Seq(Names)
         /\ Elements(found \o Survey!NewFor(found, answers)) =
              Elements(found) \cup answers
         /\ Once(found \o Survey!NewFor(found, answers))
<1>1. PICK u \in Seq(Names) :
        /\ u = Survey!NewFor(found, answers)
        /\ Elements(u) = NewOf(found, answers) /\ Once(u)
  BY NewAre
<1>2. \A g \in Elements(u) : g \notin Elements(found)
  BY <1>1 DEF NewOf
<1>3. Elements(found) \cup Elements(u) = Elements(found) \cup answers
  BY <1>1 DEF NewOf
<1> QED
  BY <1>1, <1>2, <1>3, Joined

\* The symbols of some files.
Of(F)   == UNION {Survey!ToSet(Symbols[f]) : f \in F}
hasList == docConfig \in Existing
InList  == IF hasList THEN Elements(Listed) \cup {Self} ELSE {Self}
FileNames == Elements(Listed) \cup {Self}

Heard(t) == UNION {s.answers : s \in {h \in handed : h.tag = t}}

SurveyTypes ==
  /\ docAt \in {"idle", "files", "symbols", "write", "done", "crashed"}
  /\ files \in Seq(FileNames)
  /\ left \in Seq(Survey!Symbol)
  /\ measured \in [Survey!Tags -> Seq(Names)]
  /\ handed \subseteq Survey!Symbol
  /\ fault \in BOOLEAN

MeasuredInv ==
  \A t \in Survey!Tags : Elements(measured[t]) = Heard(t) /\ Once(measured[t])

\* Nothing that was not seen is passed over, unless something fails.
SeenInv ==
  /\ docAt = "idle" => handed = {}
  /\ docAt \in {"idle", "files", "write", "done"} => left = <<>>
  /\ docAt \in {"write", "done"} => files = <<>>
  /\ docAt \in {"files", "symbols", "write", "done"} /\ ~fault =>
       handed \cup Elements(left) \cup Of(Elements(files)) = Of(InList)

\* The lines of out.txt; only the last may be less than its tag was heard to
\* answer, and not while they are being written.
LinesInv ==
  /\ outTxt \in Seq(Seq(Names)) /\ Len(outTxt) <= MaxTag + 1
  /\ \A i \in 1..Len(outTxt) :
       /\ Survey!Increasing(outTxt[i]) /\ Elements(outTxt[i]) \subseteq Heard(i - 1)
       /\ i < Len(outTxt) \/ docAt = "write" \/ ~fault =>
            Elements(outTxt[i]) = Heard(i - 1)

\* Where out.txt is what it was, and where it holds lines.
OutInv ==
  /\ docAt \notin {"write", "done"} => outTxt = Older
  /\ docAt = "write" => hasList /\ LinesInv
  /\ docAt = "done" => outTxt = Older \/ LinesInv
  /\ docAt = "done" /\ hasList /\ ~fault => LinesInv /\ Len(outTxt) = MaxTag + 1

SurveyInv == /\ SurveyTypes /\ MeasuredInv /\ SeenInv /\ OutInv
             /\ phase = "begin" => docAt = "idle"

\* What is assumed of the list and of the files.
LEMMA SurveyConstants ==
  /\ Listed \in Seq(Elements(Listed))
  /\ \A f \in DOMAIN Symbols : Symbols[f] \in Seq(Survey!Symbol)
  /\ Survey!Symbol = [tag : Survey!Tags, answers : SUBSET Names]
  /\ 0 \in Survey!Tags
<1>1. /\ Survey!ToSet(Listed) = Elements(Listed)
      /\ Survey!ToSet(Getters) = Elements(Getters)
  <2>1. Listed \in Seq(Survey!ToSet(Listed)) /\ Getters \in Seq(Nat)
    BY SurveyAssumption DEF Survey!ConstantsOK
  <2> QED
    BY <2>1 DEF Survey!ToSet, Elements
<1>2. Survey!Symbol = [tag : Survey!Tags, answers : SUBSET Names]
  BY <1>1 DEF Survey!Symbol, Names
<1>3. /\ Listed \in Seq(Survey!ToSet(Listed))
      /\ \A f \in DOMAIN Symbols : Symbols[f] \in Seq(Survey!Symbol)
  BY SurveyAssumption DEF Survey!ConstantsOK
<1>4. 0 \in Survey!Tags
  BY GettersKnown
<1> QED
  BY <1>1, <1>2, <1>3, <1>4

\* At first no file was seen.
LEMMA SurveyStarts ==
  ASSUME Init
  PROVE  SurveyInv
<1>1. /\ docAt = "idle" /\ files = <<>> /\ left = <<>> /\ outTxt = Older /\ handed = {}
      /\ fault = FALSE /\ measured = [t \in Survey!Tags |-> <<>>]
  BY DEF Init, Survey!Init
<1>2. \A S : <<>> \in Seq(S)
  OBVIOUS
<1>3. SurveyTypes
  BY <1>1, <1>2 DEF SurveyTypes
<1>4. MeasuredInv
  <2>1. Elements(<<>>) = {} /\ Once(<<>>)
    BY DEF Elements, Once
  <2> QED
    BY <1>1, <2>1 DEF MeasuredInv, Heard
<1> QED
  BY <1>1, <1>3, <1>4 DEF SurveyInv, SeenInv, OutInv

\* element: the names of one symbol are added to those of its tag.
LEMMA MeasureStep ==
  ASSUME SurveyTypes, MeasuredInv, SeenInv, Survey!Measure, hasList' <=> hasList
  PROVE  SurveyTypes' /\ MeasuredInv' /\ SeenInv'
<1>1. docAt = "symbols" /\ left # <<>> /\ left' = Tail(left)
      /\ docAt' = docAt /\ files' = files /\ outTxt' = outTxt
  BY DEF Survey!Measure
<1>2. PICK h : h = Head(left)
  OBVIOUS
<1>3. h \in Survey!Symbol /\ left' \in Seq(Survey!Symbol)
      /\ Elements(left) = {h} \cup Elements(left')
  BY <1>1, <1>2, HeadAndTail DEF SurveyTypes
<1>4. h.tag \in Survey!Tags /\ h.answers \in SUBSET Names
  BY <1>3, SurveyConstants
<1>5. PICK tag \in {h.tag, 0} :
        /\ measured' = [measured EXCEPT ![tag] = @ \o Survey!NewFor(@, h.answers)]
        /\ handed' = handed \cup {[tag |-> tag, answers |-> h.answers]}
        /\ fault' = (fault \/ tag # h.tag)
  BY <1>2 DEF Survey!Measure
<1>6. tag \in Survey!Tags
  BY <1>4, SurveyConstants
<1>7. PICK old \in Seq(Names) :
        old = measured[tag] /\ Once(old) /\ Elements(old) = Heard(tag)
  BY <1>6 DEF SurveyTypes, MeasuredInv
<1>8. PICK all \in Seq(Names) :
        /\ all = old \o Survey!NewFor(old, h.answers)
        /\ Elements(all) = Elements(old) \cup h.answers /\ Once(all)
  BY <1>4, <1>7, Added
<1>9. measured' = [measured EXCEPT ![tag] = all]
  BY <1>5, <1>7, <1>8
<1>10. measured' \in [Survey!Tags -> Seq(Names)] /\ measured'[tag] = all
       /\ \A t \in Survey!Tags \ {tag} : measured'[t] = measured[t]
  BY <1>6, <1>9 DEF SurveyTypes
<1>11. [tag |-> tag, answers |-> h.answers] \in Survey!Symbol
  BY <1>4, <1>6, SurveyConstants
<1>12. SurveyTypes'
  BY <1>1, <1>3, <1>5, <1>10, <1>11 DEF SurveyTypes
<1>13. ASSUME NEW t \in Survey!Tags
       PROVE  Heard(t)' = IF t = tag THEN Heard(t) \cup h.answers ELSE Heard(t)
  <2>0. PICK r : r = [tag |-> tag, answers |-> h.answers]
    OBVIOUS
  <2>1. r.tag = tag /\ r.answers = h.answers
    BY <2>0
  <2>2. handed' = handed \cup {r}
    BY <1>5, <2>0
  <2>3. {s \in handed' : s.tag = t} =
          IF t = tag THEN {s \in handed : s.tag = t} \cup {r}
          ELSE {s \in handed : s.tag = t}
    BY <2>1, <2>2
  <2>4. Heard(t)' = UNION {s.answers : s \in {s \in handed' : s.tag = t}}
    BY DEF Heard
  <2>5. CASE t = tag
    BY <2>1, <2>3, <2>4, <2>5 DEF Heard
  <2>6. CASE t # tag
    BY <2>3, <2>4, <2>6 DEF Heard
  <2> QED
    BY <2>5, <2>6
<1>14. MeasuredInv'
  <2>1. ASSUME NEW t \in Survey!Tags
        PROVE  Elements(measured'[t]) = Heard(t)' /\ Once(measured'[t])
    <3>1. CASE t = tag
      BY <1>7, <1>8, <1>10, <1>13, <3>1
    <3>2. CASE t # tag
      BY <1>10, <1>13, <3>2 DEF MeasuredInv
    <3> QED
      BY <3>1, <3>2
  <2> QED
    BY <2>1 DEF MeasuredInv
<1>15. SeenInv'
  <2>2. ASSUME ~fault' PROVE handed' \cup Elements(left') = handed \cup Elements(left)
                             /\ ~fault
    <3>1. tag = h.tag /\ ~fault
      BY <1>5, <2>2
    <3>2. [tag |-> tag, answers |-> h.answers] = h
      BY <1>3, <3>1, SurveyConstants
    <3> QED
      BY <1>3, <1>5, <3>1, <3>2
  <2>3. InList' = InList
    BY DEF InList
  <2> QED
    BY <1>1, <2>2, <2>3 DEF SeenInv
<1> QED
  BY <1>12, <1>14, <1>15

\* The other steps of Document.
LEMMA SurveySteps ==
  ASSUME SurveyTypes, MeasuredInv, SeenInv, Survey!Next, hasList' <=> hasList
  PROVE  SurveyTypes' /\ MeasuredInv' /\ SeenInv'
<1>1. CASE Survey!Measure
  BY <1>1, MeasureStep
<1>2. ASSUME handed' = handed, measured' = measured
      PROVE  MeasuredInv'
  BY <1>2 DEF MeasuredInv, Heard
<1>3. InList' = InList
  BY DEF InList
<1>4. CASE Survey!ReadList
  <2>1. /\ docAt = "idle" /\ docAt' = "files"
        /\ files' = Append(IF hasList THEN Listed ELSE <<>>, Self)
        /\ UNCHANGED <<left, measured, outTxt, handed, fault>>
    BY <1>4 DEF Survey!ReadList, hasList
  <2>2. files' \in Seq(FileNames) /\ Elements(files') = InList
    <3>1. PICK s \in Seq(FileNames) :
            s = (IF hasList THEN Listed ELSE <<>>)
            /\ Elements(s) = IF hasList THEN Elements(Listed) ELSE {}
      <4>1. Listed \in Seq(FileNames)
        <5>1. \A i \in 1..Len(Listed) : Listed[i] \in FileNames
          BY DEF Elements, FileNames
        <5> QED
          BY <5>1, SurveyConstants
      <4>2. Elements(<<>>) = {} /\ <<>> \in Seq(FileNames)
        BY DEF Elements
      <4> QED
        BY <4>1, <4>2
    <3>2. Self \in FileNames
      BY DEF FileNames
    <3>3. Elements(Append(s, Self)) = Elements(s) \cup {Self}
      <4>1. PICK n \in Nat : n = Len(s)
        OBVIOUS
      <4>2. /\ Len(Append(s, Self)) = n + 1 /\ Append(s, Self)[n + 1] = Self
            /\ \A i \in 1..n : Append(s, Self)[i] = s[i]
        BY <3>2, <4>1
      <4>3. \A i : i \in 1..(n + 1) <=> i \in 1..n \/ i = n + 1
        OBVIOUS
      <4> QED
        BY <4>1, <4>2, <4>3 DEF Elements
    <3>4. files' = Append(s, Self)
      BY <2>1, <3>1
    <3>5. Append(s, Self) \in Seq(FileNames)
      BY <3>1, <3>2
    <3>6. Elements(s) \cup {Self} = InList
      BY <3>1 DEF InList
    <3> QED
      BY <3>3, <3>4, <3>5, <3>6
  <2>3. SurveyTypes'
    BY <2>1, <2>2 DEF SurveyTypes
  <2>4. SeenInv'
    <3>1. left = <<>> /\ handed = {} /\ Elements(<<>>) = {}
      BY <2>1 DEF SeenInv, Elements
    <3> QED
      BY <1>3, <2>1, <2>2, <3>1 DEF SeenInv
  <2> QED
    BY <1>2, <2>1, <2>3, <2>4
<1>5. CASE Survey!Load
  <2>1. /\ docAt = "files" /\ docAt' = "symbols" /\ files # <<>>
        /\ Head(files) \in DOMAIN Symbols /\ left' = Symbols[Head(files)]
        /\ files' = Tail(files)
        /\ UNCHANGED <<measured, outTxt, handed, fault>>
    BY <1>5 DEF Survey!Load
  <2>2. files' \in Seq(FileNames)
        /\ Elements(files) = {Head(files)} \cup Elements(files')
    BY <2>1, HeadAndTail DEF SurveyTypes
  <2>3. left' \in Seq(Survey!Symbol)
    BY <2>1, SurveyConstants
  <2>4. SurveyTypes'
    BY <2>1, <2>2, <2>3 DEF SurveyTypes
  <2>5. Of(Elements(files)) = Elements(left') \cup Of(Elements(files'))
    <3>1. Survey!ToSet(Symbols[Head(files)]) = Elements(left')
      BY <2>1, <2>3, SetOf
    <3> QED
      BY <2>2, <3>1 DEF Of
  <2>6. left = <<>> /\ Elements(<<>>) = {}
    BY <2>1 DEF SeenInv, Elements
  <2>7. SeenInv'
    BY <1>3, <2>1, <2>5, <2>6 DEF SeenInv
  <2> QED
    BY <1>2, <2>1, <2>4, <2>7
<1>6. CASE Survey!LoadFails
  <2>1. docAt = "files" /\ docAt' = "crashed" /\ fault' = TRUE
        /\ UNCHANGED <<files, left, measured, outTxt, handed>>
    BY <1>6 DEF Survey!LoadFails
  <2>2. SurveyTypes' /\ SeenInv'
    BY <2>1 DEF SurveyTypes, SeenInv
  <2> QED
    BY <1>2, <2>1, <2>2
<1>7. CASE Survey!EndFile
  <2>1. docAt = "symbols" /\ docAt' = "files" /\ left = <<>>
        /\ UNCHANGED <<files, left, measured, outTxt, handed, fault>>
    BY <1>7 DEF Survey!EndFile
  <2>2. SurveyTypes' /\ SeenInv'
    BY <1>3, <2>1 DEF SurveyTypes, SeenInv
  <2> QED
    BY <1>2, <2>1, <2>2
<1>8. CASE Survey!EnumFails
  <2>1. docAt = "symbols" /\ docAt' = "files" /\ left' = <<>> /\ fault' = TRUE
        /\ UNCHANGED <<files, measured, outTxt, handed>>
    BY <1>8 DEF Survey!EnumFails
  <2>2. SurveyTypes' /\ SeenInv'
    BY <2>1 DEF SurveyTypes, SeenInv
  <2> QED
    BY <1>2, <2>1, <2>2
<1>9. CASE Survey!ReadListFails
  <2>1. /\ docAt = "idle" /\ docAt' = "files" /\ files' = <<Self>> /\ fault' = TRUE
        /\ UNCHANGED <<left, measured, outTxt, handed>>
    BY <1>9 DEF Survey!ReadListFails
  <2>2. <<Self>> \in Seq(FileNames)
    BY DEF FileNames
  <2>3. SurveyTypes' /\ SeenInv'
    BY <2>1, <2>2 DEF SurveyTypes, SeenInv
  <2> QED
    BY <1>2, <2>1, <2>3
<1>10. CASE Survey!OpenOut \/ Survey!OpenOutFails
  <2>1. /\ docAt = "files" /\ docAt' \in {"write", "done"} /\ files = <<>>
        /\ fault' \in BOOLEAN /\ (~fault' => ~fault)
        /\ UNCHANGED <<files, left, measured, handed>>
    BY <1>10 DEF Survey!OpenOut, Survey!OpenOutFails, SurveyTypes
  <2>2. SurveyTypes' /\ SeenInv'
    BY <1>3, <2>1 DEF SurveyTypes, SeenInv
  <2> QED
    BY <1>2, <2>1, <2>2
<1>11. CASE Survey!WriteLine \/ Survey!WriteLineFails \/ Survey!CloseOut
  <2>1. /\ docAt = "write" /\ docAt' \in {"write", "done"}
        /\ fault' \in BOOLEAN /\ (~fault' => ~fault)
        /\ UNCHANGED <<files, left, measured, handed>>
    BY <1>11 DEF Survey!WriteLine, Survey!WriteLineFails, Survey!CloseOut, SurveyTypes
  <2>2. SurveyTypes' /\ SeenInv'
    BY <1>3, <2>1 DEF SurveyTypes, SeenInv
  <2> QED
    BY <1>2, <2>1, <2>2
<1> QED
  BY <1>1, <1>4, <1>5, <1>6, <1>7, <1>8, <1>9, <1>10, <1>11 DEF Survey!Next

\* The line of a tag, and a part of it.
LEMMA LineKnown ==
  ASSUME SurveyTypes, MeasuredInv, NEW t \in Survey!Tags
  PROVE  LET line == Survey!Sorted(measured[t]) IN
         /\ line \in Seq(Names) /\ Elements(line) = Heard(t)
         /\ Survey!Increasing(line)
         /\ \A n \in 0..Len(line) :
              /\ SubSeq(line, 1, n) \in Seq(Names)
              /\ Elements(SubSeq(line, 1, n)) \subseteq Heard(t)
              /\ Survey!Increasing(SubSeq(line, 1, n))
<1>1. PICK m \in Seq(Names) : m = measured[t] /\ Once(m) /\ Elements(m) = Heard(t)
  BY DEF SurveyTypes, MeasuredInv
<1>0. PICK s : s = Survey!Sorted(m)
  OBVIOUS
<1>2. /\ s \in Seq(Names) /\ Len(s) = Len(m) /\ Elements(s) = Elements(m)
      /\ \A i, j \in 1..Len(m) : i < j => s[i] < s[j]
  BY <1>0, <1>1, SortedAre
<1>3. Survey!Increasing(s)
  BY <1>2 DEF Survey!Increasing
<1>4. ASSUME NEW n \in 0..Len(s)
      PROVE  /\ SubSeq(s, 1, n) \in Seq(Names)
             /\ Elements(SubSeq(s, 1, n)) \subseteq Heard(t)
             /\ Survey!Increasing(SubSeq(s, 1, n))
  <2> DEFINE r == SubSeq(s, 1, n)
  <2>1. Len(r) = n /\ (\A i \in 1..n : r[i] = s[i]) /\ r \in Seq(Names)
    <3>1. Len(r) = n
      BY <1>2
    <3>2. \A i \in 1..n : r[i] = s[i]
      BY <1>2
    <3>3. r \in Seq(Names)
      BY <1>2
    <3> QED
      BY <3>1, <3>2, <3>3
  <2> HIDE DEF r
  <2>2. \A i \in 1..n : i \in 1..Len(s)
    OBVIOUS
  <2>5. Elements(r) \subseteq Elements(s)
    BY <2>1, <2>2 DEF Elements
  <2>4. Survey!Increasing(r)
    BY <1>3, <2>1, <2>2 DEF Survey!Increasing
  <2> QED
    BY <1>1, <1>2, <2>1, <2>4, <2>5 DEF r
<1> QED
  BY <1>0, <1>1, <1>2, <1>3, <1>4

\* A line more, all of what its tag answered or the last.
LEMMA LineAdded ==
  ASSUME LinesInv, docAt = "write", Len(outTxt) <= MaxTag, NEW line \in Seq(Names),
         Survey!Increasing(line), Elements(line) \subseteq Heard(Len(outTxt)),
         docAt' = "write" \/ ~fault' => Elements(line) = Heard(Len(outTxt)),
         outTxt' = Append(outTxt, line), handed' = handed
  PROVE  LinesInv'
<1>1. PICK n \in Nat : n = Len(outTxt)
  BY DEF LinesInv
<1>2. /\ outTxt' \in Seq(Seq(Names)) /\ Len(outTxt') = n + 1 /\ outTxt'[n + 1] = line
      /\ \A i \in 1..n : outTxt'[i] = outTxt[i]
  BY <1>1 DEF LinesInv
<1>3. n + 1 <= MaxTag + 1
  BY <1>1, GettersKnown
<1>4. \A t : Heard(t)' = Heard(t)
  BY DEF Heard
<1>9. \A i \in 1..(n + 1) : i \in 1..n \/ i = n + 1
  OBVIOUS
<1>5. ASSUME NEW i \in 1..(n + 1)
      PROVE  /\ Survey!Increasing(outTxt'[i]) /\ Elements(outTxt'[i]) \subseteq Heard(i - 1)
             /\ i < n + 1 \/ docAt' = "write" \/ ~fault' =>
                  Elements(outTxt'[i]) = Heard(i - 1)
  <2>1. CASE i \in 1..n
    BY <1>1, <1>2, <2>1 DEF LinesInv
  <2>2. CASE i = n + 1
    <3>1. i - 1 = n /\ ~(i < n + 1)
      BY <2>2
    <3> QED
      BY <1>1, <1>2, <2>2, <3>1
  <2> QED
    BY <1>9, <2>1, <2>2
<1> QED
  BY <1>2, <1>3, <1>4, <1>5 DEF LinesInv

\* out.txt is touched when all files have been measured, line by line.
LEMMA OutSteps ==
  ASSUME SurveyTypes, MeasuredInv, SeenInv, OutInv, Survey!Next, hasList' <=> hasList
  PROVE  OutInv'
<1>1. CASE docAt \notin {"write", "done"} /\ docAt' \notin {"write", "done"}
           /\ outTxt' = outTxt
  BY <1>1 DEF OutInv
<1>2. CASE \/ Survey!ReadList \/ Survey!ReadListFails \/ Survey!Load \/ Survey!LoadFails
           \/ Survey!Measure \/ Survey!EndFile \/ Survey!EnumFails
  BY <1>1, <1>2 DEF Survey!ReadList, Survey!ReadListFails, Survey!Load,
     Survey!LoadFails, Survey!Measure, Survey!EndFile, Survey!EnumFails
<1>3. CASE Survey!OpenOut
  <2>1. docAt' = "write" /\ outTxt' = <<>> /\ hasList
    BY <1>3 DEF Survey!OpenOut, hasList
  <2>2. LinesInv'
    <3>1. <<>> \in Seq(Seq(Names)) /\ Len(<<>>) = 0 /\ 0 <= MaxTag + 1
          /\ 1..0 = {}
      BY GettersKnown
    <3> QED
      BY <2>1, <3>1 DEF LinesInv
  <2> QED
    BY <2>1, <2>2 DEF OutInv
<1>4. CASE Survey!OpenOutFails
  <2>1. docAt = "files" /\ docAt' = "done" /\ outTxt' = outTxt /\ fault' = (fault \/ hasList)
    BY <1>4 DEF Survey!OpenOutFails, hasList
  <2> QED
    BY <2>1 DEF OutInv
<1>5. ASSUME Survey!WriteLine \/ Survey!WriteLineFails
      PROVE  /\ docAt = "write" /\ hasList /\ LinesInv
             /\ Len(outTxt) <= MaxTag /\ handed' = handed /\ Len(outTxt) \in Survey!Tags
  <2>1. docAt = "write" /\ Len(outTxt) <= MaxTag /\ handed' = handed
    BY <1>5 DEF Survey!WriteLine, Survey!WriteLineFails
  <2>2. LinesInv /\ hasList
    BY <2>1 DEF OutInv
  <2>3. Len(outTxt) \in Nat
    BY <2>2 DEF LinesInv
  <2> QED
    BY <2>1, <2>2, <2>3, GettersKnown
<1>6. CASE Survey!WriteLine
  <2>1. docAt' = docAt /\ fault' = fault /\ outTxt' = Append(outTxt, Survey!Line)
    BY <1>6 DEF Survey!WriteLine
  <2>2. Survey!Line \in Seq(Names) /\ Survey!Increasing(Survey!Line)
        /\ Elements(Survey!Line) = Heard(Len(outTxt))
    BY <1>5, <1>6, LineKnown DEF Survey!Line
  <2>3. LinesInv'
    BY <1>5, <1>6, <2>1, <2>2, LineAdded
  <2> QED
    BY <1>5, <1>6, <2>1, <2>3 DEF OutInv
<1>7. CASE Survey!WriteLineFails
  <2>1. docAt' = "done" /\ fault' = TRUE
        /\ outTxt' \in {outTxt} \cup {Append(outTxt, SubSeq(Survey!Line, 1, n)) :
                                       n \in 0..Len(Survey!Line)}
    BY <1>7 DEF Survey!WriteLineFails
  <2>2. CASE outTxt' = outTxt
    <3>1. \A t : Heard(t)' = Heard(t)
      BY <1>5, <1>7 DEF Heard
    <3>2. LinesInv'
      BY <1>5, <1>7, <2>1, <2>2, <3>1 DEF LinesInv
    <3> QED
      BY <2>1, <3>2 DEF OutInv
  <2>3. CASE \E n \in 0..Len(Survey!Line) :
               outTxt' = Append(outTxt, SubSeq(Survey!Line, 1, n))
    <3>1. PICK n \in 0..Len(Survey!Line) :
            outTxt' = Append(outTxt, SubSeq(Survey!Line, 1, n))
      BY <2>3
    <3>2. PICK part : part = SubSeq(Survey!Line, 1, n)
      OBVIOUS
    <3>3. part \in Seq(Names) /\ Survey!Increasing(part)
          /\ Elements(part) \subseteq Heard(Len(outTxt))
      BY <1>5, <1>7, <3>2, LineKnown DEF Survey!Line
    <3>4. LinesInv'
      BY <1>5, <1>7, <2>1, <3>1, <3>2, <3>3, LineAdded
    <3> QED
      BY <2>1, <3>4 DEF OutInv
  <2> QED
    BY <2>1, <2>2, <2>3
<1>8. CASE Survey!CloseOut
  <2>1. docAt = "write" /\ docAt' = "done" /\ Len(outTxt) > MaxTag /\ hasList /\ LinesInv
        /\ UNCHANGED <<outTxt, handed, fault>>
    BY <1>8 DEF Survey!CloseOut, OutInv
  <2>2. \A t : Heard(t)' = Heard(t)
    BY <2>1 DEF Heard
  <2>3. LinesInv'
    BY <2>1, <2>2 DEF LinesInv
  <2>4. Len(outTxt) \in Nat /\ Len(outTxt) <= MaxTag + 1 /\ MaxTag \in Nat
    BY <2>1, GettersKnown DEF LinesInv
  <2>5. Len(outTxt') = MaxTag + 1
    BY <2>1, <2>4
  <2> QED
    BY <2>1, <2>3, <2>5 DEF OutInv
<1> QED
  BY <1>2, <1>3, <1>4, <1>6, <1>7, <1>8 DEF Survey!Next

\* No step of main that is not one of Document meddles with it.
LEMMA SurveyKept ==
  ASSUME SurveyInv, [Next]_vars
  PROVE  SurveyInv'
<1>1. CASE DocumentStep
  <2>1. /\ phase = "doc" /\ Survey!Next /\ dir' = dir
        /\ phase' = "begin" => phase = "begin"
    BY <1>1 DEF DocumentStep, exit, goto, main
  <2>2. hasList' <=> hasList
    BY <2>1 DEF hasList, docConfig, Up
  <2>3. SurveyTypes' /\ MeasuredInv' /\ SeenInv' /\ OutInv'
    BY <2>1, <2>2, SurveySteps, OutSteps DEF SurveyInv
  <2> QED
    BY <2>1, <2>3 DEF SurveyInv
<1>2. CASE survey' = survey /\ (dir' = dir \/ phase = "begin")
           /\ (phase' = "begin" => phase = "begin")
  <2>1. /\ docAt' = docAt /\ files' = files /\ left' = left /\ measured' = measured
        /\ outTxt' = outTxt /\ handed' = handed /\ fault' = fault
    BY <1>2 DEF survey
  <2>2. SurveyTypes' /\ MeasuredInv'
    BY <2>1 DEF SurveyInv, SurveyTypes, MeasuredInv, Heard
  <2>3. SeenInv' /\ OutInv'
    <3>1. CASE dir' = dir
      <4>1. (hasList' <=> hasList) /\ InList' = InList
        BY <3>1 DEF hasList, docConfig, Up, InList
      <4>2. SeenInv'
        BY <2>1, <4>1 DEF SurveyInv, SeenInv
      <4>3. LinesInv => LinesInv'
        BY <2>1 DEF LinesInv, Heard
      <4>4. OutInv'
        BY <2>1, <4>1, <4>3 DEF SurveyInv, OutInv
      <4> QED
        BY <4>2, <4>4
    <3>2. CASE phase = "begin"
      BY <2>1, <3>2 DEF SurveyInv, SeenInv, OutInv
    <3> QED
      BY <1>2, <3>1, <3>2
  <2> QED
    BY <1>2, <2>1, <2>2, <2>3 DEF SurveyInv
<1>3. CASE ~DocumentStep
  <2> USE DEF goto, exit, main
  <2>1. CASE SetDirectory
    BY <1>2, <2>1 DEF SetDirectory
  <2>2. CASE Document \/ WikiDoc \/ PrintUsage \/ Run \/ Return
    BY <1>2, <2>2 DEF Document, WikiDoc, PrintUsage, Run, Return
  <2>3. CASE Input
    BY <1>2, <2>3 DEF Input, ReadInput, ReadInputFails, InputCrashes
  <2>4. CASE Output
    BY <1>2, <2>4 DEF Output, EngineRefuses, EngineWorks, EngineReturns, EngineKilled,
       ListDrivers, OdbcStep
  <2>5. CASE OtherRun
    BY <1>2, <2>5 DEF OtherRun
  <2>6. CASE UNCHANGED vars
    BY <1>2, <2>6 DEF vars
  <2> QED
    BY <1>3, <2>1, <2>2, <2>3, <2>4, <2>5, <2>6 DEF Next, Step
<1> QED
  BY <1>1, <1>3

\* The invariant of -doc.
LEMMA Surveyed == Spec => []SurveyInv
BY SurveyStarts, SurveyKept, PTL DEF Spec

\* A tag has each getter that answered for one of its symbols once; out.txt is
\* kept until all files have been measured, then what is found in it is true line
\* by line, wherever its writing stops (DIA2Doc.cpp:345-366).
THEOREM SurveyIsComplete == Spec => []SurveyIsWhole
<1>1. SurveyInv => SurveyIsWhole
  <2> SUFFICES ASSUME SurveyInv PROVE SurveyIsWhole
    OBVIOUS
  <2>1. \A t \in Survey!Tags :
          /\ measured[t] \in Seq(Names) /\ Once(measured[t])
          /\ Elements(measured[t]) = Heard(t)
    BY DEF SurveyInv, SurveyTypes, MeasuredInv
  <2>2. Survey!MeasuredIsUnion
    <3>1. \A t \in Survey!Tags : /\ Survey!ToSet(measured[t]) = Elements(measured[t])
                                 /\ Survey!IsInjective(measured[t])
      BY <2>1, SetOf
    <3>2. \A t : Survey!AnswersIn(handed, t) = Heard(t)
      BY DEF Survey!AnswersIn, Heard
    <3> QED
      BY <2>1, <3>1, <3>2 DEF Survey!MeasuredIsUnion
  <2>3. Survey!OutIsWhole
    <3>1. docAt \notin {"write", "done"} => outTxt = Older
      BY DEF SurveyInv, OutInv
    <3>2. LinesInv => /\ outTxt \in Seq(Seq(Names))
                      /\ \A i \in 1..Len(outTxt) :
                           Survey!ToSet(outTxt[i]) = Elements(outTxt[i])
      <4>1. ASSUME LinesInv, NEW i \in 1..Len(outTxt)
            PROVE  Survey!ToSet(outTxt[i]) = Elements(outTxt[i])
        <5>1. outTxt[i] \in Seq(Names)
          BY <4>1 DEF LinesInv
        <5> QED
          BY <5>1, SetOf
      <4> QED
        BY <4>1 DEF LinesInv
    <3>3. LinesInv => Survey!LinesAreTrue
      <4>1. \A t : Survey!AnswersIn(handed, t) = Heard(t)
        BY DEF Survey!AnswersIn, Heard
      <4> QED
        BY <3>2, <4>1 DEF LinesInv, Survey!LinesAreTrue
    <3>4. docAt \in {"write", "done"} =>
            files = <<>> /\ (outTxt = Older \/ Survey!LinesAreTrue)
      BY <3>3 DEF SurveyInv, SeenInv, OutInv
    <3>5. ASSUME docAt = "done", hasList, ~fault
          PROVE  /\ DOMAIN outTxt = 1..(MaxTag + 1)
                 /\ \A t \in Survey!Tags : Survey!ToSet(outTxt[t + 1]) =
                      Survey!AnswersIn(Survey!InFiles, t)
      <4>1. LinesInv /\ Len(outTxt) = MaxTag + 1 /\ left = <<>> /\ files = <<>>
        BY <3>5 DEF SurveyInv, SeenInv, OutInv
      <4>2. DOMAIN outTxt = 1..(MaxTag + 1)
        BY <4>1 DEF LinesInv
      <4>3. handed = Survey!InFiles
        <5>1. Elements(<<>>) = {} /\ Of({}) = {}
          BY DEF Elements, Of
        <5>2. handed \cup Elements(left) \cup Of(Elements(files)) = Of(InList)
          BY <3>5 DEF SurveyInv, SeenInv
        <5>3. Survey!ToSet(Listed) = Elements(Listed)
          BY SurveyConstants, SetOf
        <5> QED
          BY <3>5, <4>1, <5>1, <5>2, <5>3 DEF InList, Of, Survey!InFiles
      <4>4. ASSUME NEW t \in Survey!Tags
            PROVE  Survey!ToSet(outTxt[t + 1]) = Survey!AnswersIn(Survey!InFiles, t)
        <5>1. t + 1 \in 1..Len(outTxt) /\ (t + 1) - 1 = t
          BY <4>1, GettersKnown
        <5>2. Elements(outTxt[t + 1]) = Heard(t)
          BY <3>5, <4>1, <5>1 DEF LinesInv
        <5>3. Survey!AnswersIn(Survey!InFiles, t) = Heard(t)
          BY <4>3 DEF Survey!AnswersIn, Heard
        <5> QED
          BY <3>2, <4>1, <5>1, <5>2, <5>3
      <4> QED
        BY <4>2, <4>4
    <3> QED
      BY <3>1, <3>4, <3>5 DEF Survey!OutIsWhole, hasList
  <2> QED
    BY <2>2, <2>3 DEF SurveyIsWhole
<1> QED
  BY <1>1, Surveyed, PTL

-----------------------------------------------------------------------------
(* Types. *)

\* Where main is, and its output.
MainTypes ==
  /\ place \in Places
  /\ dir \in {place.exe, place.caller}
  /\ phase \in {"begin", "start", "doc", "input", "output", "return", "exit",
                "crashed"}
  /\ data \in {"empty", "part", "whole"}
  /\ status \in Engine!Statuses /\ stored \in Engine!Stored
  /\ code \in {0, 1}
  /\ values \subseteq Odbc!TableSet /\ spoilt \subseteq Odbc!TableSet
  /\ odbcAt \in {"build", "connect", "send", "end"}

\* A step keeps the types of main and of its output.
LEMMA TypesKept ==
  ASSUME MainTypes, OdbcInv, [Next]_vars
  PROVE  MainTypes'
<1> USE DEF MainTypes, goto, exit, main, engines, odbc
<1>1. CASE SetDirectory
  BY <1>1 DEF SetDirectory
<1>2. CASE Document \/ WikiDoc \/ PrintUsage \/ Run \/ Return
  BY <1>2 DEF Document, WikiDoc, PrintUsage, Run, Return
<1>3. CASE DocumentStep
  BY <1>3 DEF DocumentStep
<1>4. CASE Input
  BY <1>4 DEF Input, ReadInput, ReadInputFails, InputCrashes
<1>5. CASE EngineRefuses
  BY <1>5 DEF EngineRefuses, Engine!Refuse, Engine!Statuses
<1>6. CASE EngineWorks
  BY <1>6 DEF EngineWorks, Engine!Work, Engine!Statuses
<1>7. CASE EngineReturns
  BY <1>7 DEF EngineReturns, Engine!Return, Engine!Complain, Engine!Statuses,
     Engine!Stored
<1>8. CASE EngineKilled
  BY <1>8 DEF EngineKilled, Engine!Kill, Engine!Statuses
<1>9. CASE OtherRun
  BY <1>9 DEF OtherRun, Engine!Meddle, Engine!Stored
<1>10. CASE ListDrivers
  BY <1>10 DEF ListDrivers
<1>11. CASE OdbcStep
  <2>1. Odbc!Next /\ status' = status /\ stored' = stored
        /\ place' = place /\ dir' = dir /\ data' = data /\ code' = code
        /\ phase' \in {phase, "return"}
    BY <1>11 DEF OdbcStep
  <2>2. Odbc!Sending => Odbc!on \in Odbc!TableSet
    <3>1. Odbc!Sending => \E k \in 1..Len(Tables) : Odbc!on = Tables[k]
      BY Paired
    <3> QED
      BY <3>1 DEF Odbc!TableSet
  <2>3. /\ values' \subseteq Odbc!TableSet /\ spoilt' \subseteq Odbc!TableSet
        /\ odbcAt' \in {"build", "connect", "send", "end"}
    BY <2>1, <2>2 DEF Odbc!Next, Odbc!Build, Odbc!Connect, Odbc!ConnectFails,
       Odbc!Execute, Odbc!ExecuteFails, Odbc!Disconnect
  <2> QED
    BY <2>1, <2>3
<1>12. CASE UNCHANGED vars
  BY <1>12 DEF vars
<1> QED
  BY <1>1, <1>2, <1>3, <1>4, <1>5, <1>6, <1>7, <1>8, <1>9, <1>10, <1>11, <1>12
  DEF Next, Step, Output

\* Every part of the program stays of its type, whatever the command line, the
\* input and the list of files are (drpdb.cpp:112-188).
THEOREM TypeCorrect == Spec => []TypeOK
<1> DEFINE Inv == MainTypes /\ OdbcInv
<1>1. Init => Inv
  BY OdbcStarts DEF Init, MainTypes, Engine!Init, Engine!Statuses, Engine!Stored,
     Odbc!Init
<1>2. Inv /\ [Next]_vars => Inv'
  BY TypesKept, OdbcKept
<1>3. args \in ArgLists /\ MainInv /\ SurveyInv /\ Inv => TypeOK
  <2> SUFFICES ASSUME args \in ArgLists, MainInv, SurveyInv, Inv PROVE TypeOK
    OBVIOUS
  <2>1. Survey!TypeOK
    <3>1. /\ Survey!ToSet(Getters) = Names
          /\ Survey!ToSet(Listed) = Elements(Listed)
      BY GettersKnown, SurveyConstants, SetOf DEF Names
    <3>2. LinesInv => outTxt \in Survey!Report
      BY <3>1 DEF LinesInv, Survey!Report
    <3>3. (outTxt = Older \/ outTxt \in Survey!Report)
          /\ (docAt = "write" => outTxt \in Survey!Report)
      BY <3>2 DEF SurveyInv, SurveyTypes, OutInv
    <3> QED
      BY <3>1, <3>3 DEF SurveyInv, SurveyTypes, FileNames, Survey!TypeOK
  <2>2. Odbc!TypeOK
    BY DEF MainTypes, OdbcInv, Odbc!TypeOK
  <2>3. {gErr, failed, lost} \subseteq BOOLEAN
    BY DEF MainInv, OutputInv
  <2> QED
    BY <2>1, <2>2, <2>3 DEF MainTypes, TypeOK
<1> QED
  BY <1>1, <1>2, <1>3, ArgsKept, Main, Surveyed, PTL DEF Spec
=============================================================================
