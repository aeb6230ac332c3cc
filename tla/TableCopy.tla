------------------------------ MODULE TableCopy ------------------------------
(***************************************************************************)
(* What an input engine promises, whatever the order of the tables, the    *)
(* size of the batches and the calls that fail: each table of the result   *)
(* is at any time a prefix of what the file holds, it only grows, and it   *)
(* is the whole once the engine has returned and nothing failed.           *)
(***************************************************************************)
EXTENDS Naturals, Sequences

CONSTANT Names   \* the tables

VARIABLES
  source,   \* what the file holds: a sequence of rows for every table
  table,    \* what the result holds
  ended,    \* the engine returned, or the process crashed
  failed    \* something failed on the way

vars == <<source, table, ended, failed>>

Init ==
  /\ table = [n \in Names |-> <<>>]
  /\ ended = FALSE
  /\ failed = FALSE

\* The next row of one table; the call behind it may have failed in part.
Copy(n) ==
  /\ ~ended
  /\ Len(table[n]) < Len(source[n])
  /\ table' = [table EXCEPT ![n] = Append(@, source[n][Len(@) + 1])]
  /\ failed' \in {failed, TRUE}
  /\ UNCHANGED <<source, ended>>

Fail ==
  /\ ~ended
  /\ failed' = TRUE
  /\ ended' \in BOOLEAN
  /\ UNCHANGED <<source, table>>

End ==
  /\ ~ended
  /\ failed \/ table = source
  /\ ended' = TRUE
  /\ UNCHANGED <<source, table, failed>>

Next == (\E n \in Names : Copy(n)) \/ Fail \/ End

Spec == Init /\ [][Next]_vars
=============================================================================
