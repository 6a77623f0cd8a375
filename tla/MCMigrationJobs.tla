--------------------------- MODULE MCMigrationJobs ---------------------------
(***************************************************************************)
(* MigrationJobs on small instances for TLC.  Job keys and worker          *)
(* incarnations are interchangeable in the safety runs.                    *)
(***************************************************************************)
EXTENDS MigrationJobs, TLC

=============================================================================
