------------------------------ MODULE MCSched ------------------------------
(***************************************************************************)
(* Values for the constants of Sched.  The process table is shrunk to 2..4 *)
(* entries so that it fills up within a run; the kill arguments are a      *)
(* protected task, the idle task, PIDs that exist and one that never will. *)
(***************************************************************************)
EXTENDS Sched

PromptOps == {"run", "kill"}
AllOps    == {"run", "kill", "schedule"}

PromptPids    == {1, 3, 4, 5, 9}
TypeAheadPids == {2, 3, 4, 5}
=============================================================================
