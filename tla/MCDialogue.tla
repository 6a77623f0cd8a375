----------------------------- MODULE MCDialogue -----------------------------
(***************************************************************************)
(* Dialogue on small instances for TLC.                                    *)
(***************************************************************************)
EXTENDS Dialogue, TLC

AllOrNothing == {{}, {"range", "access", "topics"}}

AnyRecord == {NoRecord, Unreadable, 0}

Symmetry == Permutations(Callers) \cup Permutations(Operators)
=============================================================================
