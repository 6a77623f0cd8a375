-------------------------- MODULE MCCommandConsumer --------------------------
(***************************************************************************)
(* CommandConsumer on small instances for TLC.  Worker incarnations are    *)
(* interchangeable in the safety run.                                      *)
(***************************************************************************)
EXTENDS CommandConsumer, TLC

Symmetry == Permutations(Workers)
=============================================================================
