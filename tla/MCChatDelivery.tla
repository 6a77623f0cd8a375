--------------------------- MODULE MCChatDelivery ---------------------------
(***************************************************************************)
(* ChatDelivery on small instances for TLC.                                *)
(***************************************************************************)
EXTENDS ChatDelivery, TLC

Symmetry == Permutations(Backfills) \cup Permutations(Replays)
=============================================================================
