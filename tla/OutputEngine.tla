----------------------------- MODULE OutputEngine -----------------------------
(***************************************************************************)
(* What main may count on when it calls OutputEngine::output (drpdb.h):    *)
(* the engine refuses its options and touches nothing, or it works on the  *)
(* output and returns.  Unless something failed, it complains only when it *)
(* refuses, and it returns without complaint only when all was written.    *)
(***************************************************************************)
VARIABLES
  status,   \* what became of the call
  stored,   \* what the output holds
  gErr,     \* whether the engine complained (threw, or called set_error)
  failed    \* something outside the engine failed or interfered

vars == <<status, stored, gErr, failed>>

Statuses == {"ready", "working", "returned", "killed"}
Stored   == {"asBefore", "mixed", "written"}

Init ==
  /\ status = "ready"
  /\ stored = "asBefore"
  /\ gErr = FALSE
  /\ failed \in BOOLEAN

Refuse ==
  /\ status = "ready"
  /\ status' = "returned"
  /\ gErr' = TRUE
  /\ UNCHANGED <<stored, failed>>

Work ==
  /\ status \in {"ready", "working"}
  /\ status' = "working"
  /\ stored' \in Stored
  /\ failed' \in {failed, TRUE}
  /\ UNCHANGED gErr

Return ==
  /\ status = "working"
  /\ stored = "written" \/ failed
  /\ status' = "returned"
  /\ UNCHANGED <<stored, gErr, failed>>

Complain ==
  /\ status = "working"
  /\ status' = "returned"
  /\ gErr' = TRUE
  /\ failed' = TRUE
  /\ stored' \in Stored

Kill ==
  /\ status = "working"
  /\ status' = "killed"
  /\ failed' = TRUE
  /\ stored' \in Stored
  /\ UNCHANGED gErr

\* Another run works on the same output.
Meddle ==
  /\ failed' = TRUE
  /\ stored' \in Stored
  /\ UNCHANGED <<status, gErr>>

Next == Refuse \/ Work \/ Return \/ Complain \/ Kill \/ Meddle

Spec == Init /\ [][Next]_vars
=============================================================================
