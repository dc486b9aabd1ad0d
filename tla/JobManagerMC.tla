---------------------------- MODULE JobManagerMC ----------------------------
(***************************************************************************)
(* The job manager alone, with one caller that may invoke a job twice.     *)
(***************************************************************************)
EXTENDS JobManager

\* The job depends on nothing.
NoDeps == [k \in Keys |-> {}]
=============================================================================
