---------------------------- MODULE MCMySQLOutput ----------------------------
(***************************************************************************)
(* Two or three runs of the mysql engine, one after the other or together. *)
(***************************************************************************)
EXTENDS MySQLOutput, TLC

CONSTANTS r1, r2, p1, t1, t2, d1, d2, db1, db2

MCRuns  == {r1, r2}
MCDirs  == {d1, d2}
MCDbs   == {db1, db2}
NoNames == <<>>
OneProcedure == <<p1>>
OneTable     == <<t1>>
TwoTables    == <<t1, t2>>

First == [dir |-> d1, sep |-> TRUE, db |-> db1, valid |-> TRUE]

\* The other run: the same again, with a directory or a database of its own,
\* or without -host.
Others == {First, [First EXCEPT !.dir = d2], [First EXCEPT !.db = db2],
           [First EXCEPT !.valid = FALSE]}

MCSettings == {(r1 :> First @@ r2 :> s) : s \in Others}

\* -tempdir without a separator at its end, as describe() shows it.
BareSettings == {[r \in Runs |-> [First EXCEPT !.sep = FALSE]]}
=============================================================================
