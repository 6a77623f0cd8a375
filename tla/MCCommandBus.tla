---------------------------- MODULE MCCommandBus ----------------------------
(***************************************************************************)
(* CommandBus on small instances for TLC.                                  *)
(***************************************************************************)
EXTENDS CommandBus, TLC

=============================================================================
