---------------------------- MODULE MCRecordBuild ----------------------------
(***************************************************************************)
(* The constructors for TLC: all of them, or those that a run is about.    *)
(***************************************************************************)
EXTENDS RecordBuild

AllMakes == DOMAIN Constructor
=============================================================================
