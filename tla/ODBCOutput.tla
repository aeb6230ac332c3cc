------------------------------ MODULE ODBCOutput ------------------------------
(***************************************************************************)
(* The odbc output engine (ODBCOutput.cpp), which calls itself incomplete: *)
(* it lists a DROP and a CREATE for each table, writes the files of values *)
(* to the current directory, and sends the commands.  No LOAD is listed,   *)
(* and no call's failure is looked at beyond leaving out what depends on   *)
(* it.                                                                     *)
(***************************************************************************)
EXTENDS Integers, Sequences, FiniteSets

CONSTANTS
  Tables,   \* the tables of PDBReflection.inl, in order
  Absent, Empty, Older   \* a table that is not there, has no rows, has old rows

TableSet == {Tables[i] : i \in 1..Len(Tables)}

\* What is assumed of the constants.
ConstantsOK ==
  /\ Tables \in Seq(TableSet)
  /\ \A i, j \in 1..Len(Tables) : Tables[i] = Tables[j] => i = j
  /\ Absent # Empty /\ Absent # Older /\ Empty # Older

VARIABLES
  connection,   \* whether -connect was given
  at,           \* where Send is
  pc,           \* commands that are over
  values,       \* the tables whose values were written
  table,        \* the database
  spoilt        \* history: the tables one of whose commands was not carried out

vars == <<at, pc, values, table, spoilt>>

Init ==
  /\ at = "build"
  /\ pc = 0
  /\ values = {}
  /\ \E v \in {Absent, Older} : table = [t \in TableSet |-> v]
  /\ spoilt = {}

\* The files are written one after the other; one that does not open is not.
Build ==
  /\ at = "build"
  /\ \E written \in SUBSET TableSet : values' = written
  /\ at' = IF connection THEN "connect" ELSE "end"
  /\ UNCHANGED <<pc, table, spoilt>>

Connect ==
  /\ at = "connect"
  /\ at' = "send"
  /\ UNCHANGED <<pc, values, table, spoilt>>

\* SQLDriverConnect, or the allocation of what it needs, fails.
ConnectFails ==
  /\ at = "connect"
  /\ at' = "end"
  /\ UNCHANGED <<pc, values, table, spoilt>>

\* UploadCommands: DROP and CREATE in turn.
on     == Tables[(pc \div 2) + 1]
isDrop == pc % 2 = 0

Sending == at = "send" /\ pc < 2 * Len(Tables)

\* A CREATE is refused where the table is still there.
Execute ==
  /\ Sending
  /\ isDrop \/ table[on] = Absent
  /\ table' = [table EXCEPT ![on] = IF isDrop THEN Absent ELSE Empty]
  /\ pc' = pc + 1
  /\ UNCHANGED <<at, values, spoilt>>

\* Mutated ExecuteFails: a failure leaves the loop, as in the mysql engine.
ExecuteFailsAndEnds ==
  /\ Sending
  /\ spoilt' = spoilt \cup {on}
  /\ at' = "end"
  /\ UNCHANGED <<pc, values, table>>

\* The statement is not allocated, prepared or executed, or it is refused: on
\* to the next one.
ExecuteFails ==
  /\ Sending
  /\ spoilt' = spoilt \cup {on}
  /\ pc' = pc + 1
  /\ UNCHANGED <<at, values, table>>

Disconnect ==
  /\ at = "send"
  /\ pc = 2 * Len(Tables)
  /\ at' = "end"
  /\ UNCHANGED <<pc, values, table, spoilt>>

Next ==
  \/ Build \/ Connect \/ ConnectFails
  \/ Execute \/ ExecuteFails \/ Disconnect

-----------------------------------------------------------------------------
(* Properties. *)

TypeOK ==
  /\ at \in {"build", "connect", "send", "end"}
  /\ pc \in 0..(2 * Len(Tables))
  /\ values \subseteq TableSet
  /\ table \in [TableSet -> {Absent, Empty, Older}]
  /\ spoilt \subseteq TableSet

\* A command that fails costs its own table only, where the mysql engine stops:
\* once commands were sent, every other table was dropped and created, and was
\* not filled, whatever became of the rest.
OthersUnharmed ==
  at = "end" /\ pc > 0 => \A t \in TableSet \ spoilt : table[t] = Empty
=============================================================================
