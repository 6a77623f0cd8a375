--------------------------- MODULE MCJobAdmission ---------------------------
(***************************************************************************)
(* JobAdmission on small instances for TLC.                                *)
(***************************************************************************)
EXTENDS JobAdmission, TLC

Symmetry == Permutations(Chats) \cup Permutations(Requests)
=============================================================================
