-------------------------- MODULE RecordBuildProofs --------------------------
(***************************************************************************)
(* Theorems about RecordBuild, for every set of constructors whose steps   *)
(* are ordered as ConstructorsAssumption says, however many getters of an  *)
(* element do not answer.                                                  *)
(***************************************************************************)
EXTENDS RecordBuild, TLAPS

-----------------------------------------------------------------------------
(* One step of a constructor. *)

\* The step at hand, in the terms of the assumption.
LEMMA Current ==
  ASSUME make \in Makes, Running, pc \in Nat \ {0}
  PROVE  /\ Disciplined(make) /\ pc \in Positions(make)
         /\ Len(Constructor[make]) \in Nat
         /\ step.op = Op(make, pc) /\ step.v = Var(make, pc) /\ step.f = Col(make, pc)
         /\ step.op \in Ops /\ step.v \in Locals /\ step.f # Junk
         /\ step.as \in {"value", "flag", "not"}
         /\ step.op = "clear" => step.v # "own"
         /\ step.op \in {"ifok", "lookup"} => step.v = "D"
         /\ step.op = "test" =>
              /\ step.v = "B" /\ step.goOn \in BOOLEAN /\ step.g # Junk
              /\ step.f # "target_symbol" /\ step.rest \in Nat
              /\ pc + step.rest <= Len(Constructor[make])
              /\ \A j \in (pc + 1)..(pc + step.rest) :
                   Op(make, j) = "test" /\ Col(make, j) = step.f
<1>1. Disciplined(make)
  BY ConstructorsAssumption
<1>2. StepsKnown(make) /\ CascadesWhole(make)
  BY <1>1 DEF Disciplined
<1>3. Len(Constructor[make]) \in Nat /\ pc \in Positions(make)
  BY <1>2 DEF StepsKnown, Running, Positions
<1>4. step.op = Op(make, pc) /\ step.v = Var(make, pc) /\ step.f = Col(make, pc)
  BY DEF step, Op, Var, Col
<1>5. /\ step.op \in Ops /\ step.v \in Locals /\ step.f # Junk
      /\ step.as \in {"value", "flag", "not"}
      /\ step.op = "clear" => step.v # "own"
      /\ step.op \in {"ifok", "lookup"} => step.v = "D"
  BY <1>2, <1>3, <1>4 DEF StepsKnown, step
<1>6. step.op = "test" =>
        /\ step.v = "B" /\ step.goOn \in BOOLEAN /\ step.g # Junk
        /\ step.f # "target_symbol" /\ step.rest \in Nat
        /\ pc + step.rest <= Len(Constructor[make])
        /\ \A j \in (pc + 1)..(pc + step.rest) :
             Op(make, j) = "test" /\ Col(make, j) = step.f
  BY <1>2, <1>3, <1>4 DEF CascadesWhole, step
<1> QED
  BY <1>1, <1>3, <1>4, <1>5, <1>6

\* Where the row is not assigned, and from where it is.
LeftAlone ==
  /\ row' = row
  /\ \/ step.op \in {"clear", "maybe"}
     \/ step.op \in {"ifok", "lookup"} /\ step.f \in failed'
     \/ step.op = "test" /\ Stale(step.f)
Origin(from) ==
  \/ step.op = "given" /\ from = Given
  \/ step.op = "zero" /\ from = Zero
  \/ step.op \in GetterOps \ {"lookup"} /\ from = step.f
  \/ step.op \in {"text", "maybe"} /\ from = Zero /\ step.f \in failed'
  \/ /\ step.op \in {"take", "fresh", "test", "lookup"}
     /\ from = Unanswered.from /\ step.f \in failed'
     /\ step.op = "test" => Unanswered.on
  \/ /\ step.op = "lookup"
     /\ from = IF local["D"].from = "target" THEN step.f ELSE local["D"].from
RowStep ==
  \/ LeftAlone
  \/ \E from : \E as \in {"value", "flag", "not"} :
       Origin(from) /\ Assign(step.f, from, as)

\* What is in the variable afterwards.
Passed(x) ==
  \/ step.op = "clear" /\ x = From(Zero, FALSE)
  \/ /\ step.op \in {"take", "fresh", "ifok"}
     /\ \E b \in BOOLEAN : x = From(step.f, b)
  \/ step.op = "test" /\ \E b \in BOOLEAN : x = From(step.g, b)
  \/ /\ step.op \in {"take", "fresh", "ifok", "test"}
     /\ x = Unanswered /\ step.f \in failed'
LocalStep ==
  \/ local' = local /\ step.op \in {"given", "zero", "text", "maybe", "lookup"}
  \/ \E x : Passed(x) /\ local' = [local EXCEPT ![step.v] = x]

\* A step passes over tests for its own field at most.
Advance ==
  /\ pc' \in (pc + 1)..(Len(Constructor[make]) + 1)
  /\ \A j \in (pc + 1)..(pc' - 1) :
       step.op = "test" /\ Op(make, j) = "test" /\ Col(make, j) = step.f

Effect ==
  /\ Running /\ make' = make /\ clears' = clears
  /\ Advance /\ RowStep /\ LocalStep
  /\ failed' = failed \/ failed' = failed \cup {step.f}

\* A step that runs on by one advances.
LEMMA NextAdvances ==
  ASSUME make \in Makes, pc \in Nat \ {0}, Running, NextStep
  PROVE  Advance /\ make' = make /\ clears' = clears
<1>1. Len(Constructor[make]) \in Nat /\ pc <= Len(Constructor[make])
  BY Current DEF Running
<1> QED
  BY <1>1 DEF NextStep, Advance

\* Every action has the effect described.
LEMMA StepEffect ==
  ASSUME TypeOK, pc \in Nat \ {0}, Next
  PROVE  Effect
<1> make \in Makes
  BY DEF TypeOK
<1>1. CASE Plain
  <2>1. /\ Running /\ step.op \in {"given", "zero", "clear"}
        /\ failed' = failed /\ NextStep
    BY <1>1 DEF Plain, At
  <2>2. CASE step.op = "given" /\ Assign(step.f, Given, "value") /\ UNCHANGED local
    BY <2>1, <2>2, NextAdvances DEF Effect, RowStep, Origin, LocalStep
  <2>3. CASE step.op = "zero" /\ Assign(step.f, Zero, "value") /\ UNCHANGED local
    BY <2>1, <2>3, NextAdvances DEF Effect, RowStep, Origin, LocalStep
  <2>4. CASE /\ step.op = "clear"
             /\ local' = [local EXCEPT ![step.v] = From(Zero, FALSE)]
             /\ UNCHANGED row
    BY <2>1, <2>4, NextAdvances DEF Effect, RowStep, LeftAlone, LocalStep, Passed
  <2> QED
    BY <1>1, <2>2, <2>3, <2>4 DEF Plain
<1>2. CASE GetAndStore
  <2>1. Running /\ step.op \in {"take", "fresh"} /\ NextStep
    BY <1>2 DEF GetAndStore, At
  <2>2. PICK x \in Answers \cup {Unanswered} : Ask(x) /\ Assign(step.f, x.from, step.as)
    BY <1>2 DEF GetAndStore
  <2>3. step.as \in {"value", "flag", "not"} /\ step.op \in GetterOps
    BY <2>1, Current DEF GetterOps
  <2>4. CASE Answered(x)
    <3>1. /\ failed' = failed /\ local' = [local EXCEPT ![step.v] = x]
          /\ \E b \in BOOLEAN : x = From(step.f, b)
      BY <2>4 DEF Answered, Hold, Answers, Bits
    <3>2. x.from = step.f
      BY <3>1 DEF From
    <3> QED
      BY <2>1, <2>2, <2>3, <3>1, <3>2, NextAdvances
      DEF Effect, RowStep, Origin, LocalStep, Passed
  <2>5. CASE x = Unanswered /\ Hold(x) /\ NotAnswered
    <3>1. failed' = failed \cup {step.f} /\ local' = [local EXCEPT ![step.v] = x]
      BY <2>5 DEF NotAnswered, Hold
    <3> QED
      BY <2>1, <2>2, <2>3, <2>5, <3>1, NextAdvances
      DEF Effect, RowStep, Origin, LocalStep, Passed
  <2> QED
    BY <2>2, <2>4, <2>5 DEF Ask
<1>3. CASE GetIfOk
  <2>1. Running /\ step.op = "ifok" /\ NextStep
    BY <1>3 DEF GetIfOk, At
  <2>2. CASE \E x \in Answers : Answered(x) /\ Assign(step.f, x.from, step.as)
    <3>1. PICK x \in Answers : Answered(x) /\ Assign(step.f, x.from, step.as)
      BY <2>2
    <3>2. /\ failed' = failed /\ local' = [local EXCEPT ![step.v] = x]
          /\ \E b \in BOOLEAN : x = From(step.f, b)
      BY <3>1 DEF Answered, Hold, Answers, Bits
    <3>3. x.from = step.f /\ step.as \in {"value", "flag", "not"}
      BY <2>1, <3>2, Current DEF From
    <3> QED
      BY <2>1, <3>1, <3>2, <3>3, NextAdvances
      DEF Effect, RowStep, Origin, LocalStep, Passed, GetterOps
  <2>3. CASE NotAnswered /\ Hold(Unanswered) /\ UNCHANGED row
    <3>1. /\ failed' = failed \cup {step.f}
          /\ local' = [local EXCEPT ![step.v] = Unanswered]
      BY <2>3 DEF NotAnswered, Hold
    <3> QED
      BY <2>1, <2>3, <3>1, NextAdvances
      DEF Effect, RowStep, LeftAlone, LocalStep, Passed
  <2> QED
    BY <1>3, <2>2, <2>3 DEF GetIfOk
<1>4. CASE GetText
  <2>1. Running /\ step.op = "text" /\ NextStep /\ local' = local
    BY <1>4 DEF GetText, At
  <2>2. CASE Assign(step.f, step.f, "value") /\ UNCHANGED failed
    BY <2>1, <2>2, NextAdvances DEF Effect, RowStep, Origin, LocalStep, GetterOps
  <2>3. CASE NotAnswered /\ Assign(step.f, Zero, "value")
    BY <2>1, <2>3, NextAdvances DEF Effect, RowStep, Origin, LocalStep, NotAnswered
  <2> QED
    BY <1>4, <2>2, <2>3 DEF GetText
<1>5. CASE GetCase
  <2>1. Running /\ step.op = "maybe" /\ NextStep /\ local' = local
    BY <1>5 DEF GetCase, At
  <2>2. CASE Assign(step.f, step.f, "value") /\ UNCHANGED failed
    BY <2>1, <2>2, NextAdvances DEF Effect, RowStep, Origin, LocalStep, GetterOps
  <2>3. CASE UNCHANGED <<row, failed>>
    BY <2>1, <2>3, NextAdvances DEF Effect, RowStep, LeftAlone, LocalStep
  <2>4. CASE NotAnswered /\ Assign(step.f, Zero, "value")
    BY <2>1, <2>4, NextAdvances DEF Effect, RowStep, Origin, LocalStep, NotAnswered
  <2> QED
    BY <1>5, <2>2, <2>3, <2>4 DEF GetCase
<1>6. CASE Test
  <2>1. Running /\ step.op = "test" /\ make' = make /\ clears' = clears
    BY <1>6 DEF Test, At
  <2>2. PICK x \in {From(step.g, b) : b \in BOOLEAN} \cup {Unanswered} :
          /\ local' = [local EXCEPT !["B"] = x]
          /\ \/ x.from = step.g /\ UNCHANGED failed
             \/ x = Unanswered /\ NotAnswered
          /\ IF Stale(step.f) THEN UNCHANGED row
             ELSE Assign(step.f, IF x.on /\ x.from # step.g THEN x.from ELSE step.f,
                         "value")
          /\ pc' = IF x.on = step.goOn THEN pc + 1 ELSE pc + 1 + step.rest
    BY <1>6 DEF Test
  <2>3. /\ step.v = "B" /\ step.rest \in Nat /\ Len(Constructor[make]) \in Nat
        /\ pc + step.rest <= Len(Constructor[make])
        /\ \A j \in (pc + 1)..(pc + step.rest) :
             Op(make, j) = "test" /\ Col(make, j) = step.f
    BY <2>1, Current
  <2>4. Advance
    <3>1. pc' = pc + 1 \/ pc' = pc + 1 + step.rest
      BY <2>2
    <3>2. PICK r \in Nat : r = step.rest
      BY <2>3
    <3>3. pc <= Len(Constructor[make])
      BY <2>1 DEF Running
    <3> QED
      BY <2>1, <2>3, <3>1, <3>2, <3>3 DEF Advance
  <2>5. CASE x.from = step.g /\ UNCHANGED failed
    <3>1. local["B"] \in [from : Sources, on : BOOLEAN]
      BY DEF TypeOK, Locals
    <3>2. \/ x \in {From(step.g, b) : b \in BOOLEAN}
          \/ x = From(Zero, FALSE) \/ x = local["B"]
      BY <2>1, <2>2, <2>3 DEF Unanswered, Ready
    <3>3. \E b \in BOOLEAN : x = From(step.g, b)
      <4>1. CASE x \in {From(step.g, b) : b \in BOOLEAN}
        BY <4>1
      <4>2. CASE x = From(Zero, FALSE)
        <5>1. step.g = Zero
          BY <4>2, <2>5 DEF From
        <5> QED
          BY <4>2, <5>1
      <4>3. CASE x = local["B"]
        <5>1. x = From(step.g, x.on) /\ x.on \in BOOLEAN
          BY <3>1, <4>3, <2>5 DEF From
        <5> QED
          BY <5>1
      <4> QED
        BY <3>2, <4>1, <4>2, <4>3
    <3> QED
      BY <2>1, <2>2, <2>3, <2>4, <2>5, <3>3
      DEF Effect, RowStep, LeftAlone, Origin, LocalStep, Passed, GetterOps
  <2>6. CASE x = Unanswered /\ NotAnswered
    BY <2>1, <2>2, <2>3, <2>4, <2>6
    DEF Effect, RowStep, LeftAlone, Origin, LocalStep, Passed, GetterOps, NotAnswered
  <2> QED
    BY <2>2, <2>5, <2>6
<1>7. CASE LookupTarget
  <2>1. Running /\ step.op = "lookup" /\ NextStep /\ local' = local
    BY <1>7 DEF LookupTarget, At
  <2>2. CASE /\ Assign(step.f, IF local["D"].from = "target" THEN step.f
                                ELSE local["D"].from, "value")
             /\ UNCHANGED failed
    BY <2>1, <2>2, NextAdvances DEF Effect, RowStep, Origin, LocalStep
  <2>3. CASE NotAnswered /\ UNCHANGED row
    BY <2>1, <2>3, NextAdvances DEF Effect, RowStep, LeftAlone, LocalStep, NotAnswered
  <2>4. CASE NotAnswered /\ Assign(step.f, Unanswered.from, "value")
    BY <2>1, <2>4, NextAdvances DEF Effect, RowStep, Origin, LocalStep, NotAnswered
  <2> QED
    BY <1>7, <2>2, <2>3, <2>4 DEF LookupTarget
<1> QED
  BY <1>1, <1>2, <1>3, <1>4, <1>5, <1>6, <1>7 DEF Next

\* What a getter without an answer leaves is known.
LEMMA Left ==
  ASSUME TypeOK, Running, pc \in Nat \ {0}
  PROVE  /\ Unanswered \in [from : Sources, on : BOOLEAN]
         /\ clears => Unanswered.from = Zero
         /\ step.op = "fresh" => Unanswered.from = Zero
         /\ step.op # "fresh" /\ step.v # "own" =>
              Unanswered.from \in {Zero, local[step.v].from}
<1>1. step.v \in Locals /\ clears \in BOOLEAN
  BY Current DEF TypeOK
<1>2. local[step.v] \in [from : Sources, on : BOOLEAN]
  BY <1>1 DEF TypeOK
<1>3. From(Zero, FALSE) \in [from : Sources, on : BOOLEAN]
  BY DEF From, Sources
<1>4. From(Junk, FALSE) \in [from : Sources, on : BOOLEAN]
  BY DEF From, Sources
<1>5. From(Zero, FALSE).from = Zero
  BY DEF From
<1>6. /\ Ready \in [from : Sources, on : BOOLEAN]
      /\ step.op = "fresh" => Ready.from = Zero
      /\ step.op # "fresh" /\ step.v # "own" => Ready = local[step.v]
  <2>1. CASE step.op = "fresh"
    BY <2>1, <1>3, <1>5 DEF Ready
  <2>2. CASE step.op # "fresh" /\ step.v = "own"
    BY <2>2, <1>4 DEF Ready
  <2>3. CASE step.op # "fresh" /\ step.v # "own"
    BY <2>3, <1>2 DEF Ready
  <2> QED
    BY <2>1, <2>2, <2>3
<1> QED
  BY <1>1, <1>3, <1>5, <1>6 DEF Unanswered

-----------------------------------------------------------------------------
(* Types. *)

\* The names of a step are among the sources.
LEMMA InSources ==
  ASSUME make \in Makes, Running, pc \in Nat \ {0}
  PROVE  /\ step.f \in AllFields /\ step.f \in Sources
         /\ step.op = "test" => step.g \in Sources
<1>1. pc \in 1..Len(Constructor[make])
  BY Current DEF Positions
<1>2. step.f \in {Constructor[make][i].f : i \in 1..Len(Constructor[make])}
  BY <1>1 DEF step
<1>3. step.op = "test" =>
        step.g \in {Constructor[make][i].g : i \in
          {j \in 1..Len(Constructor[make]) : Constructor[make][j].op = "test"}}
  BY <1>1 DEF step
<1>4. step.f \in AllFields
  BY <1>2 DEF AllFields
<1>5. step.op = "test" => step.g \in AllGetters
  BY <1>3 DEF AllGetters
<1> QED
  BY <1>4, <1>5 DEF Sources

\* A step keeps the types, and has the effect described.
LEMMA TypeStep ==
  ASSUME TypeOK, Next
  PROVE  TypeOK' /\ Effect
<1>0. make \in Makes /\ Len(Constructor[make]) \in Nat /\ pc \in Nat \ {0}
  <2>1. make \in Makes /\ pc \in 1..(Len(Constructor[make]) + 1)
    BY DEF TypeOK
  <2>2. Len(Constructor[make]) \in Nat
    BY <2>1, ConstructorsAssumption DEF Disciplined, StepsKnown
  <2> QED
    BY <2>1, <2>2
<1>1. Effect
  BY <1>0, StepEffect
<1>2. Running
  BY <1>1 DEF Effect
<1>3. pc' \in 1..(Len(Constructor[make]) + 1)
  BY <1>0, <1>1 DEF Effect, Advance
<1>4. failed' \subseteq AllFields
  BY <1>0, <1>1, <1>2, InSources DEF Effect, TypeOK
<1>5. Unanswered \in [from : Sources, on : BOOLEAN] /\ step.f \in Sources
  BY <1>0, <1>2, Left, InSources
<1>6. local' \in [Locals -> [from : Sources, on : BOOLEAN]]
  <2>1. ASSUME NEW x, Passed(x) PROVE x \in [from : Sources, on : BOOLEAN]
    <3>1. step.op = "test" => step.g \in Sources
      BY <1>0, <1>2, InSources
    <3>2. Zero \in Sources
      BY DEF Sources
    <3>3. \A y \in Sources : \A b \in BOOLEAN :
            From(y, b) \in [from : Sources, on : BOOLEAN]
      BY DEF From
    <3>4. CASE x = From(Zero, FALSE)
      BY <3>2, <3>3, <3>4
    <3>5. CASE x = Unanswered
      BY <1>5, <3>5
    <3>6. CASE \E b \in BOOLEAN : x = From(step.f, b)
      BY <1>5, <3>3, <3>6
    <3>7. CASE step.op = "test" /\ \E b \in BOOLEAN : x = From(step.g, b)
      BY <3>1, <3>3, <3>7
    <3> QED
      BY <2>1, <3>4, <3>5, <3>6, <3>7 DEF Passed
  <2> QED
    BY <1>1, <2>1 DEF Effect, LocalStep, TypeOK
<1>7. \A f \in DOMAIN row' :
        row'[f].from \in Sources /\ row'[f].as \in {"value", "flag", "not"}
  <2>1. CASE LeftAlone
    BY <2>1 DEF LeftAlone, TypeOK
  <2>2. ASSUME NEW from, NEW as \in {"value", "flag", "not"}, Origin(from),
               Assign(step.f, from, as)
        PROVE  \A f \in DOMAIN row' :
                 row'[f].from \in Sources /\ row'[f].as \in {"value", "flag", "not"}
    <3>1. local["D"].from \in Sources
      BY DEF TypeOK, Locals
    <3>2. Zero \in Sources /\ Given \in Sources
      BY DEF Sources
    <3>3. from \in Sources
      BY <1>5, <2>2, <3>1, <3>2 DEF Origin
    <3> QED
      BY <2>2, <3>3 DEF Assign, TypeOK
  <2> QED
    BY <1>1, <2>1, <2>2 DEF Effect, RowStep
<1> QED
  BY <1>0, <1>1, <1>3, <1>4, <1>6, <1>7 DEF Effect, TypeOK

\* The types hold at first.
LEMMA TypeInit == Init => TypeOK
<1> SUFFICES ASSUME Init PROVE TypeOK
  OBVIOUS
<1>1. make \in Makes /\ clears \in BOOLEAN /\ failed = {} /\ pc = 1
  BY DEF Init
<1>2. Len(Constructor[make]) \in Nat
  BY <1>1, ConstructorsAssumption DEF Disciplined, StepsKnown
<1>3. local \in [Locals -> [from : Sources, on : BOOLEAN]]
  <2>1. Junk \in Sources
    BY DEF Sources
  <2>2. PICK b \in BOOLEAN : local = [v \in Locals |-> From(Junk, v = "B" /\ b)]
    BY DEF Init
  <2>3. \A v \in Locals : From(Junk, v = "B" /\ b) \in [from : Sources, on : BOOLEAN]
    BY <2>1 DEF From
  <2> QED
    BY <2>2, <2>3
<1>4. \A f \in DOMAIN row :
        row[f].from \in Sources /\ row[f].as \in {"value", "flag", "not"}
  BY DEF Init, Blank, Sources
<1> QED
  BY <1>1, <1>2, <1>3, <1>4 DEF TypeOK

\* A row, the variables, the position and the failures of a constructor are of
\* their types at every step (DIA2Input.cpp:11-1219).
THEOREM TypeCorrect == Spec => []TypeOK
<1>1. TypeOK /\ [Next]_vars => TypeOK'
  <2>1. ASSUME TypeOK, UNCHANGED vars PROVE TypeOK'
    BY <2>1 DEF TypeOK, vars
  <2> QED
    BY <2>1, TypeStep
<1> QED
  BY TypeInit, <1>1, PTL DEF Spec

-----------------------------------------------------------------------------
(* The answers. *)

\* The positions before the step and after it.
LEMMA Moved ==
  ASSUME make \in Makes, pc \in Nat \ {0}, Effect
  PROVE  /\ Disciplined(make) /\ pc \in Positions(make)
         /\ pc' \in Nat /\ pc < pc' /\ pc' - 1 \in Positions(make)
         /\ \A j \in 1..(pc' - 1) :
              j \in Positions(make) /\ (j < pc \/ j = pc \/ j \in (pc + 1)..(pc' - 1))
         /\ 1..(pc - 1) \subseteq 1..(pc' - 1) /\ pc \in 1..(pc' - 1)
<1>1. /\ Disciplined(make) /\ pc \in Positions(make) /\ Len(Constructor[make]) \in Nat
      /\ pc' \in (pc + 1)..(Len(Constructor[make]) + 1)
  BY Current DEF Effect, Advance
<1>2. ASSUME NEW n \in Nat \ {0}, NEW q \in Nat, NEW m \in Nat, n < q, q <= m + 1
      PROVE  /\ \A j \in 1..(q - 1) :
                  j \in 1..m /\ (j < n \/ j = n \/ j \in (n + 1)..(q - 1))
             /\ 1..(n - 1) \subseteq 1..(q - 1) /\ n \in 1..(q - 1) /\ q - 1 \in 1..m
  BY <1>2
<1>3. pc' \in Nat /\ pc < pc' /\ pc' <= Len(Constructor[make]) + 1
  BY <1>1
<1> QED
  BY <1>1, <1>2, <1>3 DEF Positions

\* The questions asked so far, as positions.
LEMMA AskedAre ==
  \A f : f \in Asked <=>
    \E j \in 1..(pc - 1) : Op(make, j) \in GetterOps /\ Col(make, j) = f
BY DEF Asked, Op, Col

\* A getter adds its field to those asked for.
LEMMA AskedNow ==
  ASSUME make \in Makes, pc \in Nat \ {0}, Effect
  PROVE  Asked' = IF step.op \in GetterOps THEN Asked \cup {step.f} ELSE Asked
<1>1. make' = make /\ step.op = Op(make, pc) /\ step.f = Col(make, pc)
  BY Current DEF Effect
<1>2. \A j \in (pc + 1)..(pc' - 1) :
        /\ step.op = "test" /\ step.op \in GetterOps
        /\ Op(make, j) \in GetterOps /\ Col(make, j) = step.f
  BY DEF Effect, Advance, GetterOps
<1>3. Asked' = {Constructor[make][i].f : i \in
                 {j \in 1..(pc' - 1) : Constructor[make][j].op \in GetterOps}}
  BY <1>1 DEF Asked
<1>4. \A f : f \in Asked' <=>
        \E j \in 1..(pc' - 1) : Op(make, j) \in GetterOps /\ Col(make, j) = f
  BY <1>3 DEF Op, Col
<1>5. ASSUME NEW f
      PROVE f \in Asked' <=> (f \in Asked \/ (step.op \in GetterOps /\ f = step.f))
  <2>1. ASSUME f \in Asked' PROVE f \in Asked \/ (step.op \in GetterOps /\ f = step.f)
    <3>1. PICK j \in 1..(pc' - 1) : Op(make, j) \in GetterOps /\ Col(make, j) = f
      BY <1>4, <2>1
    <3>2. j < pc \/ j = pc \/ j \in (pc + 1)..(pc' - 1)
      BY Moved
    <3>3. CASE j < pc
      <4>1. j \in 1..(pc - 1)
        BY <3>3, Moved
      <4> QED
        BY <3>1, <4>1, AskedAre
    <3>4. CASE j = pc
      BY <1>1, <3>1, <3>4
    <3>5. CASE j \in (pc + 1)..(pc' - 1)
      BY <1>2, <3>1, <3>5
    <3> QED
      BY <3>2, <3>3, <3>4, <3>5
  <2>2. ASSUME f \in Asked PROVE f \in Asked'
    BY <1>4, <2>2, AskedAre, Moved
  <2>3. ASSUME step.op \in GetterOps, f = step.f PROVE f \in Asked'
    BY <1>1, <1>4, <2>3, Moved
  <2> QED
    BY <2>1, <2>2, <2>3
<1> QED
  BY <1>5

\* A field that is in the row was assigned by a step before, or by memset.
Assigned ==
  make \notin {"Compiland", "AppendDetails"} =>
    \A f \in DOMAIN row : \E j \in 1..(pc - 1) : Col(make, j) = f

\* The lookup of a thunk finds the target's answer in D, or the target failed.
TargetHeld(i) ==
  \/ local["D"].from = "target"
  \/ "target" \in failed /\ (clears => local["D"].from = Zero)
LookInv ==
  \A i \in Positions(make) :
    Op(make, i) = "lookup" /\ pc \in {i - 1, i} => TargetHeld(i)

\* A field is what its getter answered, or was not asked for yet and holds its
\* default, or its getter failed.
OwnField(f) ==
  IF f \in Asked THEN row[f].from = f \/ (f = "target_symbol" /\ "target" \in failed)
  ELSE row[f].from \in {f, Zero, Given}
OwnInv == \A f \in DOMAIN row \ failed : OwnField(f)

\* A step assigns the field it is for.
LEMMA AssignedStep ==
  ASSUME make \in Makes, pc \in Nat \ {0}, Effect, Assigned
  PROVE  Assigned'
<1>1. make' = make /\ step.f = Col(make, pc)
  BY Current DEF Effect
<1>2. DOMAIN row' \subseteq DOMAIN row \cup {step.f}
  BY DEF Effect, RowStep, LeftAlone, Assign
<1>3. \A j : Col(make, j)' = Col(make, j)
  BY <1>1 DEF Col
<1> QED
  BY <1>1, <1>2, <1>3, Moved DEF Assigned

\* Nothing comes between the target and its lookup.
LEMMA LookStep ==
  ASSUME TypeOK, pc \in Nat \ {0}, Effect, LookInv
  PROVE  LookInv'
<1>0. make \in Makes /\ make' = make /\ Disciplined(make) /\ Running /\ clears' = clears
  BY Moved DEF TypeOK, Effect
<1>1. SUFFICES ASSUME NEW i \in Positions(make), Op(make, i) = "lookup",
                      pc' \in {i - 1, i}
               PROVE  TargetHeld(i)'
  BY <1>0 DEF LookInv, Positions, Op
<1>2. /\ i \in Nat /\ i > 2 /\ Op(make, i - 1) = "zero"
      /\ Op(make, i - 2) = "take" /\ Var(make, i - 2) = "D"
      /\ Col(make, i - 2) = "target"
  BY <1>0, <1>1 DEF Disciplined, LookupsFollow, Positions
<1>3. \A j \in (pc + 1)..(pc' - 1) : Op(make, j) = "test"
  BY DEF Effect, Advance
<1>4. pc' = pc + 1
  <2>1. Op(make, pc' - 1) # "test"
    BY <1>1, <1>2
  <2> QED
    BY <1>3, <2>1, <1>0, Moved
<1>5. /\ step.op = Op(make, pc) /\ step.v = Var(make, pc) /\ step.f = Col(make, pc)
      /\ failed \subseteq failed'
  BY <1>0, Current DEF Effect
<1>6. CASE pc' = i - 1
  <2>1. step.op = "take" /\ step.v = "D" /\ step.f = "target"
    BY <1>2, <1>4, <1>5, <1>6
  <2>2. PICK x : Passed(x) /\ local' = [local EXCEPT ![step.v] = x]
    BY <2>1 DEF Effect, LocalStep
  <2>3. local'["D"] = x
    BY <2>1, <2>2 DEF TypeOK, Locals
  <2>4. x.from = "target" \/ (x = Unanswered /\ "target" \in failed')
    BY <2>1, <2>2 DEF Passed, From
  <2> QED
    BY <1>0, <2>3, <2>4, Left DEF TargetHeld
<1>7. CASE pc' = i
  <2>1. step.op = "zero"
    BY <1>2, <1>4, <1>5, <1>7
  <2>2. local' = local
    BY <2>1 DEF Effect, LocalStep, Passed
  <2>3. TargetHeld(i)
    BY <1>1, <1>4, <1>7 DEF LookInv
  <2> QED
    BY <1>0, <1>5, <2>2, <2>3 DEF TargetHeld
<1> QED
  BY <1>1, <1>6, <1>7

\* A step disturbs no other field, and its own only if its getter fails.
LEMMA OwnStep ==
  ASSUME TypeOK, pc \in Nat \ {0}, Effect, LookInv, Assigned, OwnInv
  PROVE  OwnInv'
<1>0. make \in Makes /\ make' = make /\ Disciplined(make) /\ Running
      /\ pc \in Positions(make)
  BY Moved DEF TypeOK, Effect
<1>1. /\ step.op = Op(make, pc) /\ step.v = Var(make, pc) /\ step.f = Col(make, pc)
      /\ step.op \in Ops /\ failed' \in {failed, failed \cup {step.f}}
      /\ step.op = "test" => step.f # "target_symbol"
      /\ step.op = "lookup" => step.f = "target_symbol" /\ step.v = "D"
  BY <1>0, Current DEF Effect, Disciplined, LookupsFollow
<1>2. Asked' = IF step.op \in GetterOps THEN Asked \cup {step.f} ELSE Asked
  BY <1>0, AskedNow
<1>3. ASSUME NEW f \in DOMAIN row', f \notin failed', f # step.f
      PROVE  OwnField(f)'
  <2>1. f \in DOMAIN row /\ row'[f] = row[f]
    BY <1>3 DEF Effect, RowStep, LeftAlone, Assign
  <2>2. OwnField(f)
    BY <1>1, <1>3, <2>1 DEF OwnInv
  <2>3. f \in Asked' <=> f \in Asked
    BY <1>2, <1>3
  <2> QED
    BY <1>1, <2>1, <2>2, <2>3 DEF OwnField
<1>4. ASSUME NEW f \in DOMAIN row', f \notin failed', f = step.f
      PROVE  OwnField(f)'
  <2>0. f \notin failed /\ failed \subseteq failed'
    BY <1>1, <1>4
  <2>1. ASSUME NEW i \in 1..(pc - 1), Col(make, i) = f
        PROVE  /\ Op(make, i) \in GetterOps => step.op \notin {"given", "zero"}
               /\ step.op # "maybe"
    <3>1. i \in Positions(make) /\ i < pc
      BY <1>0 DEF Positions
    <3> QED
      BY <1>0, <1>1, <1>4, <2>1, <3>1 DEF Disciplined, DefaultsFirst
  <2>2. CASE step.op = "clear"
    <3>1. row' = row /\ Asked' = Asked /\ OwnField(f)
      BY <1>2, <1>4, <2>0, <2>2
      DEF Effect, RowStep, LeftAlone, Origin, GetterOps, OwnInv
    <3> QED
      BY <2>0, <3>1 DEF OwnField
  <2>3. CASE step.op \in {"given", "zero"}
    <3>1. row'[f].from \in {Given, Zero}
      <4>1. PICK from : \E as \in {"value", "flag", "not"} :
              Origin(from) /\ Assign(step.f, from, as)
        BY <2>3 DEF Effect, RowStep, LeftAlone
      <4>2. from \in {Given, Zero}
        BY <2>3, <4>1 DEF Origin, GetterOps
      <4> QED
        BY <1>4, <4>1, <4>2 DEF Assign
    <3>2. f \notin Asked /\ Asked' = Asked
      BY <1>2, <2>1, <2>3, AskedAre DEF GetterOps
    <3> QED
      BY <3>1, <3>2 DEF OwnField
  <2>4. CASE step.op \in GetterOps
    <3>1. f \in Asked'
      BY <1>2, <1>4, <2>4
    <3>2. ASSUME LeftAlone
          PROVE  row'[f].from = f
      <4>1. row' = row /\ f \in DOMAIN row
        BY <3>2 DEF LeftAlone
      <4>2. step.op \in {"maybe", "test"}
        BY <1>4, <2>4, <3>2 DEF LeftAlone, GetterOps
      <4>3. CASE step.op = "maybe"
        <5>1. make \notin {"Compiland", "AppendDetails"}
          BY <1>0, <1>1, <4>3 DEF Disciplined, NoMemset
        <5> QED
          BY <2>1, <4>1, <4>3, <5>1 DEF Assigned
      <4>4. CASE step.op = "test"
        <5>1. Stale(f) /\ f # "target_symbol"
          BY <1>1, <1>4, <3>2, <4>4 DEF LeftAlone
        <5> QED
          BY <2>0, <4>1, <5>1 DEF OwnInv, OwnField, Stale
      <4> QED
        BY <4>2, <4>3, <4>4
    <3>3. ASSUME NEW from, NEW as, Origin(from), Assign(step.f, from, as)
          PROVE  row'[f].from = f \/ (f = "target_symbol" /\ "target" \in failed')
      <4>1. row'[f].from = from
        BY <1>4, <3>3 DEF Assign
      <4>2. CASE step.op = "lookup" /\ local["D"].from # "target"
        <5>1. TargetHeld(pc)
          BY <1>0, <1>1, <4>2 DEF LookInv
        <5> QED
          BY <1>1, <1>4, <2>0, <4>2, <5>1 DEF TargetHeld
      <4>3. CASE step.op # "lookup" \/ local["D"].from = "target"
        <5>1. from = step.f
          BY <1>4, <2>4, <3>3, <4>3 DEF Origin, GetterOps
        <5> QED
          BY <1>4, <4>1, <5>1
      <4> QED
        BY <4>2, <4>3
    <3>4. row'[f].from = f \/ (f = "target_symbol" /\ "target" \in failed')
      BY <3>2, <3>3 DEF Effect, RowStep
    <3> QED
      BY <3>1, <3>4 DEF OwnField
  <2> QED
    BY <1>1, <2>2, <2>3, <2>4 DEF Ops
<1>5. \A f \in DOMAIN row' \ failed' : OwnField(f)'
  BY <1>3, <1>4
<1> QED
  BY <1>5 DEF OwnInv

\* No field was asked for at first.
LEMMA OwnInit == Init => Assigned /\ LookInv /\ OwnInv
<1> SUFFICES ASSUME Init PROVE Assigned /\ LookInv /\ OwnInv
  OBVIOUS
<1>1. make \in Makes /\ pc = 1 /\ row = Blank(make)
  BY DEF Init
<1>2. Assigned
  BY <1>1 DEF Assigned, Blank
<1>3. LookInv
  <2>1. \A i \in Positions(make) : Op(make, i) = "lookup" => i > 2 /\ i \in Nat
    BY <1>1, ConstructorsAssumption DEF Disciplined, LookupsFollow, Positions
  <2> QED
    BY <1>1, <2>1 DEF LookInv
<1>4. \A f : f \notin Asked
  BY <1>1, AskedAre
<1>5. \A f \in DOMAIN row : row[f].from = Zero
  BY <1>1 DEF Blank
<1> QED
  BY <1>2, <1>3, <1>4, <1>5 DEF OwnInv, OwnField

\* A stutter keeps what is known of the answers.
LEMMA Kept ==
  ASSUME Assigned, LookInv, OwnInv, UNCHANGED vars
  PROVE  Assigned' /\ LookInv' /\ OwnInv'
<1>1. Assigned'
  BY DEF Assigned, vars, Col
<1>2. LookInv'
  BY DEF LookInv, TargetHeld, vars, Positions, Op
<1>3. OwnInv'
  BY DEF OwnInv, OwnField, Asked, vars
<1> QED
  BY <1>1, <1>2, <1>3

\* A getter that does not answer damages the field it was called for and no
\* other, although all answers pass through the same few variables; only a
\* thunk's target symbol needs two of them (DIA2Input.cpp:11-1219).
THEOREM AnswersReach == Spec => []AnswersReachTheirField
<1> DEFINE Inv == TypeOK /\ Assigned /\ LookInv /\ OwnInv
<1>1. Init => Inv
  BY TypeInit, OwnInit
<1>2. Inv /\ [Next]_vars => Inv'
  <2>1. ASSUME Inv, Next PROVE Inv'
    <3>1. TypeOK' /\ Effect
      BY <2>1, TypeStep
    <3>2. make \in Makes /\ pc \in Nat \ {0}
      BY <2>1 DEF TypeOK
    <3> QED
      BY <2>1, <3>1, <3>2, AssignedStep, LookStep, OwnStep
  <2>2. ASSUME Inv, UNCHANGED vars PROVE Inv'
    <3>1. TypeOK'
      BY <2>2 DEF TypeOK, vars
    <3>2. Assigned' /\ LookInv' /\ OwnInv'
      BY <2>2, Kept
    <3> QED
      BY <3>1, <3>2
  <2> QED
    BY <2>1, <2>2
<1>3. Inv => AnswersReachTheirField
  BY DEF OwnInv, OwnField, AnswersReachTheirField
<1> QED
  BY <1>1, <1>2, <1>3, PTL DEF Spec

-----------------------------------------------------------------------------
(* Where the values of a row come from. *)

\* What is stored where a getter did not answer.
LEMMA StoredFrom ==
  ASSUME TypeOK, Running, pc \in Nat \ {0}, NEW from, Origin(from)
  PROVE  \/ from \in {step.f, Zero, Given}
         \/ step.op \in {"take", "fresh", "test"} /\ from = Unanswered.from
         \/ step.op = "lookup" /\ from \in {Unanswered.from, local["D"].from}
BY DEF Origin, GetterOps

\* A cleared variable holds zero, until a getter is given it; one that was ever
\* reset never holds junk again.
ClearedInv == \A v \in {"D", "B"} : Cleared(make, v, pc) => local[v].from = Zero
ResetInv   == \A v \in {"D", "B"} : Reset(make, v, pc) => local[v].from # Junk

\* A cleared variable stays so until it is used.
LEMMA ClearedStep ==
  ASSUME TypeOK, pc \in Nat \ {0}, Effect, ClearedInv
  PROVE  ClearedInv'
<1>0. make \in Makes /\ make' = make /\ Running
  BY DEF TypeOK, Effect
<1>1. step.op = Op(make, pc) /\ step.v = Var(make, pc) /\ step.v \in Locals
  BY <1>0, Current
<1>2. SUFFICES ASSUME NEW v \in {"D", "B"}, Cleared(make, v, pc')
               PROVE  local'[v].from = Zero
  BY <1>0 DEF ClearedInv, Cleared, Op, Var
<1>3. PICK j \in 1..(pc' - 1) :
        /\ Op(make, j) = "clear" /\ Var(make, j) = v
        /\ \A k \in (j + 1)..(pc' - 1) :
             Op(make, k) \notin GetterOps \/ Var(make, k) # v
  BY <1>2 DEF Cleared
<1>4. ASSUME NEW x, Passed(x), local' = [local EXCEPT ![step.v] = x]
      PROVE  /\ step.v = v => local'[v] = x
             /\ step.v # v => local'[v] = local[v]
  BY <1>1, <1>2, <1>4 DEF TypeOK, Locals
<1>5. CASE j < pc
  <2>1. pc \in (j + 1)..(pc' - 1) /\ j \in 1..(pc - 1)
        /\ (j + 1)..(pc - 1) \subseteq (j + 1)..(pc' - 1)
    BY <1>0, <1>5, Moved
  <2>2. Cleared(make, v, pc)
    BY <1>3, <2>1 DEF Cleared
  <2>3. local[v].from = Zero
    BY <2>2 DEF ClearedInv
  <2>4. step.op \notin GetterOps \/ step.v # v
    BY <1>1, <1>3, <2>1
  <2>5. ASSUME NEW x, Passed(x), step.v = v PROVE x.from = Zero
    BY <2>4, <2>5 DEF Passed, From, GetterOps
  <2> QED
    BY <1>4, <2>3, <2>5 DEF Effect, LocalStep
<1>6. CASE j = pc
  <2>1. step.op = "clear" /\ step.v = v
    BY <1>1, <1>3, <1>6
  <2>2. PICK x : Passed(x) /\ local' = [local EXCEPT ![step.v] = x]
    BY <2>1 DEF Effect, LocalStep
  <2>3. x.from = Zero
    BY <2>1, <2>2 DEF Passed, From
  <2> QED
    BY <1>4, <2>1, <2>2, <2>3
<1>7. CASE j \in (pc + 1)..(pc' - 1)
  BY <1>3, <1>7 DEF Effect, Advance
<1> QED
  BY <1>0, <1>5, <1>6, <1>7, Moved

\* A variable that was reset is never junk again.
LEMMA ResetStep ==
  ASSUME TypeOK, pc \in Nat \ {0}, Effect, ResetInv
  PROVE  ResetInv'
<1>0. make \in Makes /\ make' = make /\ Running
  BY DEF TypeOK, Effect
<1>1. step.op = Op(make, pc) /\ step.v = Var(make, pc) /\ step.v \in Locals
      /\ step.f # Junk /\ (step.op = "test" => step.g # Junk)
  BY <1>0, Current
<1>2. SUFFICES ASSUME NEW v \in {"D", "B"}, Reset(make, v, pc')
               PROVE  local'[v].from # Junk
  BY <1>0 DEF ResetInv, Reset, Op, Var
<1>3. PICK j \in 1..(pc' - 1) : Op(make, j) \in {"clear", "fresh"} /\ Var(make, j) = v
  BY <1>2 DEF Reset
<1>4. ASSUME NEW x, Passed(x), local' = [local EXCEPT ![step.v] = x]
      PROVE  /\ step.v = v => local'[v] = x
             /\ step.v # v => local'[v] = local[v]
  BY <1>1, <1>2, <1>4 DEF TypeOK, Locals
<1>5. ASSUME NEW x, Passed(x), step.v = v, step.op # "fresh" => local[v].from # Junk
      PROVE  x.from # Junk
  <2>1. Unanswered.from # Junk
    BY <1>0, <1>2, <1>5, Left DEF Zero, Junk
  <2>2. /\ \A b : From(Zero, b).from # Junk /\ From(step.f, b).from # Junk
        /\ step.op = "test" => \A b : From(step.g, b).from # Junk
    BY <1>1 DEF From, Zero, Junk
  <2> QED
    BY <1>5, <2>1, <2>2 DEF Passed
<1>6. CASE j < pc
  <2>1. j \in 1..(pc - 1)
    BY <1>0, <1>6, Moved
  <2>2. local[v].from # Junk
    BY <1>3, <2>1 DEF Reset, ResetInv
  <2> QED
    BY <1>4, <1>5, <2>2 DEF Effect, LocalStep
<1>7. CASE j = pc
  <2>1. step.op \in {"clear", "fresh"} /\ step.v = v
    BY <1>1, <1>3, <1>7
  <2>2. PICK x : Passed(x) /\ local' = [local EXCEPT ![step.v] = x]
    BY <2>1 DEF Effect, LocalStep
  <2>3. step.op = "clear" => x.from = Zero
    BY <2>2 DEF Passed, From
  <2> QED
    BY <1>4, <1>5, <2>1, <2>2, <2>3 DEF Zero, Junk
<1>8. CASE j \in (pc + 1)..(pc' - 1)
  BY <1>3, <1>8 DEF Effect, Advance
<1> QED
  BY <1>0, <1>6, <1>7, <1>8, Moved

\* A step assigns its own field only.
LEMMA RowsKept ==
  ASSUME Effect, NEW f \in DOMAIN row'
  PROVE  \/ f \in DOMAIN row /\ row'[f] = row[f]
         \/ f = step.f /\ \E from : Origin(from) /\ row'[f].from = from
<1>1. CASE LeftAlone
  BY <1>1 DEF LeftAlone
<1>2. CASE \E from : \E as \in {"value", "flag", "not"} :
             Origin(from) /\ Assign(step.f, from, as)
  <2>1. PICK from : \E as \in {"value", "flag", "not"} :
               Origin(from) /\ Assign(step.f, from, as)
    BY <1>2
  <2>2. f = step.f => row'[f].from = from
    BY <2>1 DEF Assign
  <2>3. f # step.f => f \in DOMAIN row /\ row'[f] = row[f]
    BY <2>1 DEF Assign
  <2> QED
    BY <2>1, <2>2, <2>3
<1> QED
  BY <1>1, <1>2 DEF Effect, RowStep

\* A step stores a value of a known origin.
LEMMA OriginStep ==
  ASSUME TypeOK, pc \in Nat \ {0}, Effect, ClearedInv, ResetInv, LookInv,
         ValuesOfKnownOrigin
  PROVE  ValuesOfKnownOrigin'
<1>0. make \in Makes /\ make' = make /\ Running /\ clears' = clears
      /\ Disciplined(make) /\ pc \in Positions(make)
  BY Moved DEF TypeOK, Effect
<1>1. step.op = Op(make, pc) /\ step.v = Var(make, pc) /\ step.v \in Locals
      /\ step.f # Junk /\ (step.op = "lookup" => step.v = "D")
  BY <1>0, Current
<1>2. Zero # Junk /\ Given # Junk
  BY DEF Zero, Given, Junk
<1>3. ASSUME make \in FreshMakes
      PROVE  \A f \in DOMAIN row' : row'[f].from \in {f, Zero, Given}
  <2>1. ASSUME NEW from, Origin(from) PROVE from \in {step.f, Zero, Given}
    <3>1. EveryGetterFresh(make)
      BY <1>0, <1>3 DEF Disciplined
    <3>2. step.op \in GetterOps \ {"text", "fresh"} =>
            step.op = "take" /\ step.v # "own" /\ Cleared(make, step.v, pc)
      BY <1>0, <1>1, <3>1 DEF EveryGetterFresh
    <3>3. step.op = "take" => Unanswered.from = Zero
      BY <1>0, <1>1, <3>2, Left DEF ClearedInv, Locals, GetterOps
    <3> QED
      BY <1>0, <2>1, <3>2, <3>3, StoredFrom, Left DEF GetterOps
  <2> QED
    BY <1>3, <2>1, RowsKept DEF ValuesOfKnownOrigin, FreshRows
<1>4. ASSUME make \in InitialisingMakes
      PROVE  \A f \in DOMAIN row' : row'[f].from # Junk
  <2>1. ASSUME NEW from, Origin(from) PROVE from # Junk
    <3>1. EveryVariableReset(make)
      BY <1>0, <1>4 DEF Disciplined
    <3>2. step.op \in GetterOps \ {"text", "fresh", "maybe"} =>
            step.v # "own" /\ Reset(make, step.v, pc)
      BY <1>0, <1>1, <3>1 DEF EveryVariableReset
    <3>3. step.op \in {"take", "test", "lookup"} =>
            local[step.v].from # Junk /\ step.v # "own" /\ step.op # "fresh"
      BY <1>1, <3>2 DEF ResetInv, Locals, GetterOps
    <3>4. step.op \in {"take", "test", "lookup", "fresh"} => Unanswered.from # Junk
      BY <1>0, <1>2, <3>3, Left
    <3> QED
      BY <1>0, <1>1, <1>2, <2>1, <3>3, <3>4, StoredFrom
  <2> QED
    BY <1>4, <2>1, RowsKept DEF ValuesOfKnownOrigin, NoJunk
<1>5. ASSUME clears
      PROVE  \A f \in DOMAIN row' : row'[f].from \in {f, Zero, Given}
  <2>1. ASSUME NEW from, Origin(from) PROVE from \in {step.f, Zero, Given}
    <3>1. Unanswered.from = Zero
      BY <1>0, <1>5, Left
    <3>2. step.op = "lookup" => TargetHeld(pc)
      BY <1>0, <1>1 DEF LookInv
    <3> QED
      BY <1>5, <2>1, <3>1, <3>2 DEF Origin, TargetHeld, GetterOps
  <2> QED
    BY <1>5, <2>1, RowsKept DEF ValuesOfKnownOrigin, OwnOrZero
<1> QED
  BY <1>0, <1>3, <1>4, <1>5 DEF ValuesOfKnownOrigin, FreshRows, NoJunk, OwnOrZero

\* At first nothing is reset, and what is assigned is zero.
LEMMA OriginInit == Init => ClearedInv /\ ResetInv /\ ValuesOfKnownOrigin
<1> SUFFICES ASSUME Init PROVE ClearedInv /\ ResetInv /\ ValuesOfKnownOrigin
  OBVIOUS
<1>1. pc = 1
  BY DEF Init
<1>2. \A f \in DOMAIN row : row[f].from = Zero
  BY DEF Init, Blank
<1> QED
  BY <1>1, <1>2
  DEF ClearedInv, Cleared, ResetInv, Reset, ValuesOfKnownOrigin, FreshRows, NoJunk,
      OwnOrZero, Zero, Junk

\* A constructor that resets its variables before every getter stores no answer
\* to another question, one that gives each a value stores nothing that was
\* never initialised, and where getters clear their argument nobody does
\* (DIA2Input.cpp:11-1219).
THEOREM OriginsKnown == Spec => []ValuesOfKnownOrigin
<1> DEFINE Inv == TypeOK /\ Assigned /\ LookInv /\ OwnInv /\ ClearedInv /\ ResetInv
                  /\ ValuesOfKnownOrigin
<1>1. Init => Inv
  BY TypeInit, OwnInit, OriginInit
<1>2. Inv /\ [Next]_vars => Inv'
  <2>1. ASSUME Inv, Next PROVE Inv'
    <3>1. TypeOK' /\ Effect
      BY <2>1, TypeStep
    <3>2. make \in Makes /\ pc \in Nat \ {0}
      BY <2>1 DEF TypeOK
    <3> QED
      BY <2>1, <3>1, <3>2, AssignedStep, LookStep, OwnStep, ClearedStep, ResetStep,
         OriginStep
  <2>2. ASSUME Inv, UNCHANGED vars PROVE Inv'
    <3>1. TypeOK'
      BY <2>2 DEF TypeOK, vars
    <3>2. Assigned' /\ LookInv' /\ OwnInv'
      BY <2>2, Kept
    <3>3. ClearedInv' /\ ResetInv'
      BY <2>2 DEF ClearedInv, Cleared, ResetInv, Reset, vars, Op, Var
    <3>4. ValuesOfKnownOrigin'
      BY <2>2 DEF ValuesOfKnownOrigin, FreshRows, NoJunk, OwnOrZero, vars
    <3> QED
      BY <3>1, <3>2, <3>3, <3>4
  <2> QED
    BY <2>1, <2>2
<1> QED
  BY <1>1, <1>2, PTL DEF Spec

-----------------------------------------------------------------------------
(* The gaps of a row. *)

\* The steps passed that surely assign have assigned, and memset has.
SureInv ==
  /\ \A j \in 1..(pc - 1) : Op(make, j) \in SureOps => Col(make, j) \in DOMAIN row
  /\ make \in {"Compiland", "AppendDetails"} => Columns(make) \subseteq DOMAIN row

\* A sure step assigns its field.
LEMMA SureStep ==
  ASSUME make \in Makes, pc \in Nat \ {0}, Effect, SureInv
  PROVE  SureInv'
<1>1. /\ make' = make /\ step.op = Op(make, pc) /\ step.f = Col(make, pc)
  BY Current DEF Effect
<1>2. DOMAIN row \subseteq DOMAIN row'
  BY DEF Effect, RowStep, LeftAlone, Assign
<1>3. step.op \in SureOps => step.f \in DOMAIN row'
  BY DEF Effect, RowStep, LeftAlone, Assign, SureOps, Stale
<1>4. ASSUME NEW j \in 1..(pc' - 1), Op(make, j) \in SureOps
      PROVE  Col(make, j) \in DOMAIN row'
  <2>1. CASE j < pc
    <3>1. j \in 1..(pc - 1)
      BY <2>1, Moved
    <3> QED
      BY <1>2, <1>4, <3>1 DEF SureInv
  <2>2. CASE j = pc
    BY <1>1, <1>3, <1>4, <2>2
  <2>3. CASE j \in (pc + 1)..(pc' - 1)
    BY <1>1, <1>3, <2>3 DEF Effect, Advance, SureOps
  <2> QED
    BY <2>1, <2>2, <2>3, Moved
<1> QED
  BY <1>1, <1>2, <1>4 DEF SureInv, Op, Col

\* What is not assigned in a finished row.
NotAssigned == Columns(make) \ DOMAIN row

\* A column that is missing in a finished row is one that no statement of its
\* constructor assigns on every path: neither a cascade that is left early nor
\* getters without an answer lose another (PDBReflection.inl;
\* DIA2Input.cpp:11-1219).
THEOREM OnlyUnsureColumnsAreLost ==
  Spec => [](done => /\ \A i \in Positions(make) :
                          Op(make, i) \in SureOps => Col(make, i) \notin NotAssigned
                     /\ make \in {"Compiland", "AppendDetails"} => NotAssigned = {})
<1> DEFINE Inv == TypeOK /\ SureInv
<1>1. Init => Inv
  BY TypeInit DEF Init, SureInv, Blank
<1>2. Inv /\ [Next]_vars => Inv'
  <2>1. ASSUME Inv, Next PROVE Inv'
    <3>1. TypeOK' /\ Effect
      BY <2>1, TypeStep
    <3>2. make \in Makes /\ pc \in Nat \ {0}
      BY <2>1 DEF TypeOK
    <3> QED
      BY <2>1, <3>1, <3>2, SureStep
  <2>2. ASSUME Inv, UNCHANGED vars PROVE Inv'
    BY <2>2 DEF TypeOK, SureInv, vars, Op, Col
  <2> QED
    BY <2>1, <2>2
<1>3. ASSUME Inv, done
      PROVE  /\ \A i \in Positions(make) :
                  Op(make, i) \in SureOps => Col(make, i) \notin NotAssigned
             /\ make \in {"Compiland", "AppendDetails"} => NotAssigned = {}
  <2>1. Disciplined(make) /\ Len(Constructor[make]) \in Nat
        /\ pc = Len(Constructor[make]) + 1
    BY <1>3, ConstructorsAssumption DEF TypeOK, Disciplined, StepsKnown, done, Running
  <2>2. \A i \in Positions(make) : i \in 1..(pc - 1)
    BY <2>1 DEF Positions
  <2> QED
    BY <1>3, <2>2 DEF SureInv, NotAssigned
<1> QED
  BY <1>1, <1>2, <1>3, PTL DEF Spec
=============================================================================
