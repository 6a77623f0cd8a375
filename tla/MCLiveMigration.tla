--------------------------- MODULE MCLiveMigration ---------------------------
(***************************************************************************)
(* LiveMigration on small instances for TLC.                               *)
(***************************************************************************)
EXTENDS LiveMigration, TLC

=============================================================================
