------------------------- MODULE ChatDeliveryProofs -------------------------
(***************************************************************************)
(* Proofs about ChatDelivery, for every history, every number of           *)
(* executions and every bound on faults.                                   *)
(***************************************************************************)
EXTENDS ChatDelivery, TLAPS

-----------------------------------------------------------------------------
(* Types.                                                                  *)

\* The strengthening of TypeOK: an execution that is not between two messages has
\* a message in hand, and only a backfill claims and saves the checkpoint.
PhaseInv ==
  \A x \in Executors :
     /\ execution[x].phase \notin {"idle", "next"} => At(x) \in Messages
     /\ execution[x].phase \in {"claim", "reclaim", "save"} => x \in Backfills

TypeInv == TypeOK /\ PhaseInv

LEMMA RowTypes ==
  /\ NoRow \in MessageRow
  /\ ClaimedRow \in MessageRow
  /\ \A r \in MessageRow :
        /\ ImportedRow(r) \in MessageRow
        /\ \A code \in MessageError : /\ AmbiguousRow(r, code) \in MessageRow
                                      /\ FailedRow(r, code) \in MessageRow
  BY DEF MessageRow, MessageStatus, MessageError, NoRow, ClaimedRow, ImportedRow,
         AmbiguousRow, FailedRow

\* x goes on to a new state, and the others keep theirs, except that what they read
\* of a row may have ceased to be current.
Moves(x) ==
  /\ execution' \in [Executors -> Execution]
  /\ \A y \in Executors \ {x} :
        /\ execution'[y].phase = execution[y].phase
        /\ execution'[y].at = execution[y].at
        /\ execution'[y].reuse = execution[y].reuse
        /\ execution'[y].seen = execution[y].seen
        /\ execution'[y].current => execution[y].current

\* x writes r to the row of its message.
Writes(x, r) ==
  /\ Moves(x)
  /\ row' \in [Messages -> MessageRow]
  /\ \A m \in Messages : row'[m] = IF m = At(x) THEN r ELSE row[m]
  /\ \A y \in Executors \ {x} : At(y) = At(x) => ~execution'[y].current

LEMMA BecomesMoves ==
  ASSUME TypeInv, NEW x \in Executors, NEW e \in Execution, Becomes(x, e)
  PROVE  Moves(x) /\ execution'[x] = e
  BY DEF TypeInv, TypeOK, Becomes, Moves

LEMMA WriteMoves ==
  ASSUME TypeInv, NEW x \in Executors, NEW e \in Execution, NEW r \in MessageRow,
         Write(x, r, e)
  PROVE  Writes(x, r) /\ execution'[x] = e
  <1> USE DEF TypeInv, TypeOK
  <1>1. \A y \in Executors : [execution[y] EXCEPT !.current = FALSE] \in Execution
    BY DEF Execution
  <1>2. execution' \in [Executors -> Execution]
    BY <1>1 DEF Write
  <1>3. \A y \in Executors \ {x} :
           \/ execution'[y] = execution[y] /\ At(y) # At(x)
           \/ execution'[y] = [execution[y] EXCEPT !.current = FALSE]
    BY DEF Write
  <1>4. execution'[x] = e
    BY DEF Write
  <1>5. \A y \in Executors \ {x} : At(y) = At(x) => ~execution'[y].current
    <2>1. \A y \in Executors \ {x} :
             At(y) = At(x) => execution'[y] = [execution[y] EXCEPT !.current = FALSE]
      BY DEF Write
    <2> QED
      BY <2>1 DEF Execution
  <1>6. Moves(x)
    BY <1>2, <1>3 DEF Moves, Execution
  <1> QED
    BY <1>4, <1>5, <1>6 DEF Write, Writes

-----------------------------------------------------------------------------
(* What each action does to the execution that takes it and to the row of  *)
(* its message, field by field.                                            *)

\* After the step x is in phase p with message m in hand.
Comes(x, p, m) == execution'[x].phase = p /\ execution'[x].at = m

\* After the step x has no message that it could deliver or pass.
Rests(x) == Moves(x) /\ execution'[x].phase \in {"idle", "next"}

LEMMA NewExecutions ==
  /\ IdleExecution \in Execution
  /\ \A x \in Executors : TypeInv => TakesNext(x) \in Execution /\ TakesNext(x).phase = "next"
  /\ IdleExecution.phase = "idle"
  <1>1. IdleExecution \in Execution /\ IdleExecution.phase = "idle"
    BY RowTypes, DeliveryAssumption DEF IdleExecution, Execution, Phase, Attachment
  <1>2. ASSUME NEW x \in Executors, TypeInv
        PROVE  TakesNext(x) \in Execution /\ TakesNext(x).phase = "next"
    BY <1>1, <1>2 DEF TakesNext, TypeInv, TypeOK, Execution, Phase
  <1> QED
    BY <1>1, <1>2

\* Steps after which x rests.
LEMMA RestEffects ==
  ASSUME TypeInv, NEW x \in Executors,
         \/ StartBackfill(x) \/ FinishBackfill(x) \/ StartReplay(x) \/ FinishReplay(x)
         \/ SaveCheckpoint(x) \/ Die(x)
  PROVE  Rests(x)
  <1>1. CASE StartBackfill(x)
    <2> DEFINE e == [IdleExecution EXCEPT !.phase = "next", !.at = checkpoint]
    <2>1. e \in Execution /\ e.phase = "next"
      BY NewExecutions DEF TypeInv, TypeOK, Execution, Phase
    <2>2. Becomes(x, e)
      BY <1>1 DEF StartBackfill
    <2> HIDE DEF e
    <2> QED
      BY <2>1, <2>2, BecomesMoves DEF Rests
  <1>2. CASE StartReplay(x)
    <2> DEFINE e == [IdleExecution EXCEPT !.phase = "next",
                       !.todo = {m \in Messages : row[m].status = "failed"}]
    <2>1. e \in Execution /\ e.phase = "next"
      BY NewExecutions DEF Execution, Phase
    <2>2. Becomes(x, e)
      BY <1>2 DEF StartReplay
    <2> HIDE DEF e
    <2> QED
      BY <2>1, <2>2, BecomesMoves DEF Rests
  <1>3. CASE SaveCheckpoint(x)
    <2> DEFINE e == [execution[x] EXCEPT !.phase = "next", !.current = FALSE]
    <2>1. e \in Execution /\ e.phase = "next"
      BY DEF TypeInv, TypeOK, Execution, Phase
    <2>2. Becomes(x, e)
      BY <1>3 DEF SaveCheckpoint
    <2> HIDE DEF e
    <2> QED
      BY <2>1, <2>2, BecomesMoves DEF Rests
  <1>4. CASE FinishBackfill(x) \/ FinishReplay(x) \/ Die(x)
    <2>1. Becomes(x, IdleExecution)
      BY <1>4 DEF FinishBackfill, FinishReplay, Die, Ends
    <2> QED
      BY <2>1, NewExecutions, BecomesMoves DEF Rests
  <1> QED
    BY <1>1, <1>2, <1>3, <1>4

LEMMA NextMessageEffect ==
  ASSUME TypeInv, NEW x \in Executors, NextMessage(x)
  PROVE  /\ Moves(x)
         /\ At(x) + 1 \in Messages
         /\ Comes(x, IF At(x) + 1 \in Skipped THEN "save" ELSE "claim", At(x) + 1)
  <1> DEFINE p == IF At(x) + 1 \in Skipped THEN "save" ELSE "claim"
             n == At(x) + 1
             e == [execution[x] EXCEPT !.at = n, !.phase = p]
  <1>1. n \in Messages /\ n \in 0 .. LastMessage
    <2>1. At(x) \in 0 .. LastMessage /\ At(x) < LastMessage
      BY DEF TypeInv, TypeOK, Execution, NextMessage, At
    <2> QED
      BY <2>1, DeliveryAssumption DEF Messages
  <1>2. p \in Phase
    BY DEF Phase
  <1>3. Becomes(x, e)
    BY DEF NextMessage, At
  <1> HIDE DEF p, n
  <1>4. e \in Execution /\ e.at = n /\ e.phase = p
    BY <1>1, <1>2 DEF TypeInv, TypeOK, Execution
  <1> HIDE DEF e
  <1>5. Moves(x) /\ Comes(x, p, n)
    BY <1>3, <1>4, BecomesMoves DEF Comes
  <1> QED
    BY <1>1, <1>5 DEF p, n

LEMMA GoToEffect ==
  ASSUME TypeInv, NEW x \in Executors, NEW p \in Phase, GoTo(x, p)
  PROVE  /\ Moves(x) /\ Comes(x, p, At(x))
         /\ execution'[x].reuse = execution[x].reuse
  <1> DEFINE e == [execution[x] EXCEPT !.phase = p]
  <1>1. e \in Execution /\ e.phase = p /\ e.at = At(x) /\ e.reuse = execution[x].reuse
    BY DEF TypeInv, TypeOK, Execution, At
  <1>2. Becomes(x, e)
    BY DEF GoTo
  <1> HIDE DEF e
  <1> QED
    BY <1>1, <1>2, BecomesMoves DEF Comes

LEMMA ClaimEffect ==
  ASSUME TypeInv, NEW x \in Executors, Claim(x)
  PROVE  /\ x \in Backfills /\ At(x) \in Messages
         /\ \/ /\ row[At(x)].status = "absent"
               /\ Writes(x, ClaimedRow)
               /\ Comes(x, "send", At(x)) /\ ~execution'[x].reuse
            \/ /\ Reclaimable(row[At(x)])
               /\ row' = row /\ Moves(x)
               /\ Comes(x, "reclaim", At(x)) /\ execution'[x].seen = row[At(x)]
            \/ /\ SettledRow(row[At(x)])
               /\ row' = row /\ Moves(x)
               /\ Comes(x, "save", At(x))
            \/ row' = row /\ Rests(x)
  <1>1. /\ x \in Backfills /\ At(x) \in Messages
        /\ row[At(x)] \in MessageRow
        /\ execution[x] \in Execution
    BY DEF Claim, TypeInv, TypeOK, PhaseInv, InPhase
  <1>2. CASE row[At(x)].status = "absent" /\
             Write(x, ClaimedRow, [execution[x] EXCEPT !.phase = "send", !.reuse = FALSE])
    <2> DEFINE e == [execution[x] EXCEPT !.phase = "send", !.reuse = FALSE]
    <2>1. e \in Execution /\ e.phase = "send" /\ e.at = At(x) /\ ~e.reuse
      BY <1>1 DEF Execution, Phase, At
    <2>2. Write(x, ClaimedRow, e)
      BY <1>2
    <2> HIDE DEF e
    <2> QED
      BY <1>1, <1>2, <2>1, <2>2, RowTypes, WriteMoves DEF Comes
  <1>3. CASE /\ Reclaimable(row[At(x)]) /\ row' = row
             /\ Becomes(x, [execution[x] EXCEPT !.phase = "reclaim", !.seen = row[At(x)],
                                                !.current = TRUE])
    <2> DEFINE e == [execution[x] EXCEPT !.phase = "reclaim", !.seen = row[At(x)],
                                         !.current = TRUE]
    <2>1. e \in Execution /\ e.phase = "reclaim" /\ e.at = At(x) /\ e.seen = row[At(x)]
      BY <1>1 DEF Execution, Phase, At
    <2>2. Becomes(x, e)
      BY <1>3
    <2> HIDE DEF e
    <2> QED
      BY <1>1, <1>3, <2>1, <2>2, BecomesMoves DEF Comes
  <1>4. CASE /\ SettledRow(row[At(x)]) /\ row' = row
             /\ Becomes(x, [execution[x] EXCEPT !.phase = "save", !.current = TRUE])
    <2> DEFINE e == [execution[x] EXCEPT !.phase = "save", !.current = TRUE]
    <2>1. e \in Execution /\ e.phase = "save" /\ e.at = At(x)
      BY <1>1 DEF Execution, Phase, At
    <2>2. Becomes(x, e)
      BY <1>4
    <2> HIDE DEF e
    <2> QED
      BY <1>1, <1>4, <2>1, <2>2, BecomesMoves DEF Comes
  <1>5. CASE Becomes(x, IdleExecution) /\ row' = row
    BY <1>1, <1>5, NewExecutions, BecomesMoves DEF Rests
  <1> QED
    BY <1>1, <1>2, <1>3, <1>4, <1>5 DEF Claim, Ends

LEMMA ReclaimEffect ==
  ASSUME TypeInv, NEW x \in Executors, Reclaim(x)
  PROVE  /\ x \in Backfills /\ At(x) \in Messages
         /\ \/ /\ MayReclaim(execution[x])
               /\ Writes(x, ClaimedRow)
               /\ Comes(x, "send", At(x)) /\ ~execution'[x].reuse
               /\ DoubtIf(x, TakenRegardless(x))
            \/ row' = row /\ Rests(x) /\ doubtful' = doubtful
  <1>1. x \in Backfills /\ At(x) \in Messages /\ execution[x] \in Execution
    BY DEF Reclaim, TypeInv, TypeOK, PhaseInv, InPhase
  <1>2. CASE /\ MayReclaim(execution[x])
             /\ Write(x, ClaimedRow, [execution[x] EXCEPT !.phase = "send", !.reuse = FALSE,
                                                          !.seen = NoRow, !.current = FALSE])
             /\ DoubtIf(x, TakenRegardless(x))
    <2> DEFINE e == [execution[x] EXCEPT !.phase = "send", !.reuse = FALSE,
                                         !.seen = NoRow, !.current = FALSE]
    <2>1. e \in Execution /\ e.phase = "send" /\ e.at = At(x) /\ ~e.reuse
      BY <1>1, RowTypes DEF Execution, Phase, At
    <2>2. Write(x, ClaimedRow, e)
      BY <1>2
    <2> HIDE DEF e
    <2> QED
      BY <1>1, <1>2, <2>1, <2>2, RowTypes, WriteMoves DEF Comes
  <1>3. CASE Becomes(x, IdleExecution) /\ row' = row /\ doubtful' = doubtful
    BY <1>1, <1>3, NewExecutions, BecomesMoves DEF Rests
  <1> QED
    BY <1>1, <1>2, <1>3 DEF Reclaim, Ends

LEMMA TakeFailedEffect ==
  ASSUME TypeInv, NEW y \in Executors, TakeFailed(y)
  PROVE  /\ y \in Replays
         /\ \/ \E m \in Messages :
                  /\ row[m].status = "failed"
                  /\ Moves(y) /\ Comes(y, "send", m)
                  /\ execution'[y].reuse = row[m].sync
                  /\ doubtful' = IF \E x \in Executors : AtWork(x, m)
                                 THEN doubtful \cup {m} ELSE doubtful
            \/ Rests(y) /\ doubtful' = doubtful
  <1>1. PICK m \in execution[y].todo :
          LET e == [execution[y] EXCEPT !.todo = @ \ {m}]
          IN  IF row[m].status = "failed"
              THEN /\ Becomes(y, [e EXCEPT !.phase = "send", !.at = m,
                                           !.reuse = PrimarySent(row[m])])
                   /\ doubtful' = IF \E x \in Executors : AtWork(x, m)
                                  THEN doubtful \cup {m} ELSE doubtful
              ELSE Becomes(y, e) /\ UNCHANGED doubtful
    BY DEF TakeFailed
  <1>2. /\ y \in Replays /\ execution[y].phase = "next"
        /\ m \in Messages /\ m \in 0 .. LastMessage
        /\ row[m] \in MessageRow
        /\ execution[y] \in Execution
    BY DeliveryAssumption DEF TakeFailed, TypeInv, TypeOK, Execution, InPhase, Messages
  <1> DEFINE left == execution[y].todo \ {m}
             e == [execution[y] EXCEPT !.todo = left]
  <1>3. left \in SUBSET Messages
    BY <1>2 DEF Execution
  <1>4. CASE row[m].status = "failed"
    <2> DEFINE sync == row[m].sync
               d == [[execution[y] EXCEPT !.todo = left]
                       EXCEPT !.phase = "send", !.at = m, !.reuse = sync]
    <2>1. Becomes(y, d)
      BY <1>1, <1>4 DEF PrimarySent
    <2>2. sync \in BOOLEAN
      BY <1>2 DEF MessageRow
    <2> HIDE DEF left, sync
    <2>3. d \in Execution /\ d.phase = "send" /\ d.at = m /\ d.reuse = sync
      BY <1>2, <1>3, <2>2 DEF Execution, Phase
    <2> HIDE DEF d
    <2>4. Moves(y) /\ Comes(y, "send", m) /\ execution'[y].reuse = row[m].sync
      BY <2>1, <2>3, BecomesMoves DEF Comes, sync
    <2> QED
      BY <1>1, <1>2, <1>4, <2>4
  <1>5. CASE row[m].status # "failed"
    <2>1. Becomes(y, e) /\ doubtful' = doubtful
      BY <1>1, <1>5
    <2> HIDE DEF left
    <2>2. e \in Execution /\ e.phase = "next"
      BY <1>2, <1>3 DEF Execution
    <2> HIDE DEF e
    <2> QED
      BY <1>2, <2>1, <2>2, BecomesMoves DEF Rests
  <1> QED
    BY <1>4, <1>5

\* After a result that lets the execution go on.
LEMMA SettledMoves ==
  ASSUME TypeInv, NEW x \in Executors, At(x) \in Messages, NEW f \in BOOLEAN
  PROVE  /\ Settled(x, f) \in Execution
         /\ \/ /\ x \in Backfills
               /\ Settled(x, f).phase = "save" /\ Settled(x, f).at = At(x)
            \/ Settled(x, f).phase = "next"
         /\ Unsettled(x) \in Execution
         /\ Unsettled(x).phase \in {"idle", "next"}
  <1>1. execution[x] \in Execution
    BY DEF TypeInv, TypeOK
  <1>2. CASE x \in Backfills
    <2> DEFINE g == execution[x].failed \/ f
    <2>1. g \in BOOLEAN
      OBVIOUS
    <2>2. Settled(x, f) =
            [execution[x] EXCEPT !.phase = "save", !.failed = g, !.current = TRUE,
                                 !.reuse = FALSE, !.outcome = "ok"]
      BY <1>2 DEF Settled
    <2> HIDE DEF g
    <2> QED
      BY <1>1, <1>2, <2>1, <2>2, NewExecutions
         DEF Execution, Phase, Attachment, At, Unsettled
  <1>3. CASE x \notin Backfills
    BY <1>3, NewExecutions DEF Settled, Unsettled
  <1> QED
    BY <1>2, <1>3

\* The marks.
LEMMA MarkEffects ==
  ASSUME TypeInv, NEW x \in Executors
  PROVE  /\ MarkImported(x) =>
              /\ execution[x].phase = "imported"
              /\ Writes(x, ImportedRow(row[At(x)]))
              /\ \/ x \in Backfills /\ Comes(x, "save", At(x))
                 \/ Comes(x, "incomplete", At(x))
                 \/ Comes(x, "attachment_unclear", At(x))
                 \/ Rests(x)
         /\ MarkFailed(x) =>
              \E code \in {"error", "attachment_incomplete"} :
                 /\ execution[x].phase \in {"failing", "incomplete"}
                 /\ Writes(x, FailedRow(row[At(x)], code))
                 /\ \/ x \in Backfills /\ Comes(x, "save", At(x))
                    \/ Rests(x)
         /\ MarkAmbiguous(x) =>
              \E code \in {"unclear", "attachment_unclear"} :
                 /\ execution[x].phase = code
                 /\ Writes(x, AmbiguousRow(row[At(x)], code))
                 /\ Rests(x)
         /\ MarkCancelled(x) =>
              /\ execution[x].phase = "cancelled"
              /\ Writes(x, FailedRow(row[At(x)], "cancelled"))
              /\ Rests(x)
  <1>0. execution[x] \in Execution /\ row \in [Messages -> MessageRow]
    BY DEF TypeInv, TypeOK
  <1>1. ASSUME MarkImported(x)
        PROVE  /\ execution[x].phase = "imported"
               /\ Writes(x, ImportedRow(row[At(x)]))
               /\ \/ x \in Backfills /\ Comes(x, "save", At(x))
                  \/ Comes(x, "incomplete", At(x))
                  \/ Comes(x, "attachment_unclear", At(x))
                  \/ Rests(x)
    <2>1. execution[x].phase = "imported" /\ At(x) \in Messages
      BY <1>1 DEF MarkImported, InPhase, TypeInv, PhaseInv
    <2>2. ImportedRow(row[At(x)]) \in MessageRow
      BY <1>0, <2>1, RowTypes
    <2>3. CASE execution[x].outcome = "ok"
      <3>1. Write(x, ImportedRow(row[At(x)]), Settled(x, FALSE))
        BY <1>1, <2>3 DEF MarkImported
      <3>2. Settled(x, FALSE) \in Execution
        BY <2>1, SettledMoves
      <3>3. Writes(x, ImportedRow(row[At(x)])) /\ execution'[x] = Settled(x, FALSE)
        BY <2>2, <3>1, <3>2, WriteMoves
      <3> QED
        BY <2>1, <3>3, SettledMoves DEF Writes, Comes, Rests
    <2>4. ASSUME NEW p \in {"incomplete", "attachment_unclear"},
                 Write(x, ImportedRow(row[At(x)]),
                       [execution[x] EXCEPT !.phase = p, !.outcome = "ok"])
          PROVE  Writes(x, ImportedRow(row[At(x)])) /\ Comes(x, p, At(x))
      <3> DEFINE e == [execution[x] EXCEPT !.phase = p, !.outcome = "ok"]
      <3>1. e \in Execution /\ e.phase = p /\ e.at = At(x)
        BY <1>0 DEF Execution, Phase, Attachment, At
      <3>2. Write(x, ImportedRow(row[At(x)]), e)
        BY <2>4
      <3> HIDE DEF e
      <3> QED
        BY <2>2, <3>1, <3>2, WriteMoves DEF Comes
    <2>5. execution[x].outcome \in Attachment
      BY <1>0 DEF Execution
    <2> QED
      BY <1>1, <2>1, <2>3, <2>4, <2>5 DEF MarkImported, Attachment
  <1>2. ASSUME MarkFailed(x)
        PROVE  \E code \in {"error", "attachment_incomplete"} :
                 /\ execution[x].phase \in {"failing", "incomplete"}
                 /\ Writes(x, FailedRow(row[At(x)], code))
                 /\ \/ x \in Backfills /\ Comes(x, "save", At(x))
                    \/ Rests(x)
    <2>1. execution[x].phase \in {"failing", "incomplete"} /\ At(x) \in Messages
      BY <1>2 DEF MarkFailed, TypeInv, PhaseInv
    <2>2. PICK code \in {"error", "attachment_incomplete"} :
            Write(x, FailedRow(row[At(x)], code), Settled(x, TRUE))
      BY <1>2 DEF MarkFailed
    <2>3. FailedRow(row[At(x)], code) \in MessageRow
      BY <1>0, <2>1, RowTypes DEF MessageError
    <2>4. Settled(x, TRUE) \in Execution
      BY <2>1, SettledMoves
    <2>5. Writes(x, FailedRow(row[At(x)], code)) /\ execution'[x] = Settled(x, TRUE)
      BY <2>2, <2>3, <2>4, WriteMoves
    <2> QED
      BY <2>1, <2>5, SettledMoves DEF Writes, Comes, Rests
  <1>3. ASSUME MarkAmbiguous(x)
        PROVE  \E code \in {"unclear", "attachment_unclear"} :
                 /\ execution[x].phase = code
                 /\ Writes(x, AmbiguousRow(row[At(x)], code))
                 /\ Rests(x)
    <2> DEFINE code == execution[x].phase
    <2>1. code \in {"unclear", "attachment_unclear"} /\ At(x) \in Messages
      BY <1>3 DEF MarkAmbiguous, TypeInv, PhaseInv
    <2>2. Write(x, AmbiguousRow(row[At(x)], code), Unsettled(x))
      BY <1>3 DEF MarkAmbiguous
    <2>3. AmbiguousRow(row[At(x)], code) \in MessageRow
      BY <1>0, <2>1, RowTypes DEF MessageError
    <2>4. Unsettled(x) \in Execution /\ Unsettled(x).phase \in {"idle", "next"}
      BY <2>1, SettledMoves
    <2>5. Writes(x, AmbiguousRow(row[At(x)], code)) /\ execution'[x] = Unsettled(x)
      BY <2>2, <2>3, <2>4, WriteMoves
    <2> QED
      BY <2>1, <2>4, <2>5 DEF Writes, Rests
  <1>4. ASSUME MarkCancelled(x)
        PROVE  /\ execution[x].phase = "cancelled"
               /\ Writes(x, FailedRow(row[At(x)], "cancelled"))
               /\ Rests(x)
    <2>1. execution[x].phase = "cancelled" /\ At(x) \in Messages
      BY <1>4 DEF MarkCancelled, InPhase, TypeInv, PhaseInv
    <2>2. FailedRow(row[At(x)], "cancelled") \in MessageRow
      BY <1>0, <2>1, RowTypes DEF MessageError
    <2>3. Writes(x, FailedRow(row[At(x)], "cancelled")) /\ execution'[x] = IdleExecution
      BY <1>4, <2>2, NewExecutions, WriteMoves DEF MarkCancelled
    <2> QED
      BY <2>1, <2>3, NewExecutions DEF Writes, Rests
  <1> QED
    BY <1>1, <1>2, <1>3, <1>4

\* The steps inside deliver.
LEMMA DeliverEffects ==
  ASSUME TypeInv, NEW x \in Executors, NEW p,
         \/ SendAnswered(x) /\ p = "sent"
         \/ SendRefused(x) /\ p = "failing"
         \/ (SendUnanswered(x) \/ AttachmentBlocks(x)) /\ p = "unclear"
         \/ DeliverReturns(x) /\ p = "imported"
         \/ Cancel(x) /\ p = "cancelled"
  PROVE  /\ Moves(x) /\ Comes(x, p, At(x)) /\ execution'[x].reuse = execution[x].reuse
         /\ execution[x].phase \in {"send", "sent"} /\ At(x) \in Messages
  <1>1. execution[x].phase \in {"send", "sent"} /\ At(x) \in Messages
    BY DEF TypeInv, PhaseInv, SendAnswered, SendRefused, SendUnanswered, AttachmentBlocks,
           DeliverReturns, Cancel, InDeliver, InPhase
  <1>2. CASE p # "imported"
    <2>1. GoTo(x, p) /\ p \in Phase
      BY <1>2 DEF SendAnswered, SendRefused, SendUnanswered, AttachmentBlocks, Cancel, Phase
    <2> QED
      BY <1>1, <2>1, GoToEffect
  <1>3. CASE p = "imported"
    <2>1. PICK outcome \in Attachment :
            Becomes(x, [execution[x] EXCEPT !.phase = "imported", !.outcome = outcome])
      BY <1>3 DEF DeliverReturns, Attachment
    <2> DEFINE e == [execution[x] EXCEPT !.phase = "imported", !.outcome = outcome]
    <2>2. /\ e \in Execution /\ e.phase = "imported" /\ e.at = At(x)
          /\ e.reuse = execution[x].reuse
      BY DEF TypeInv, TypeOK, Execution, Phase, At
    <2>3. Becomes(x, e)
      BY <2>1
    <2> HIDE DEF e
    <2> QED
      BY <1>1, <1>3, <2>2, <2>3, BecomesMoves DEF Comes
  <1> QED
    BY <1>2, <1>3

-----------------------------------------------------------------------------
(* Type correctness.                                                       *)

LEMMA TypeInvInit == Init => TypeInv
  <1> SUFFICES ASSUME Init PROVE TypeInv
    OBVIOUS
  <1>1. 0 \in 0 .. LastMessage /\ 0 \in 0 .. MaxFaults
    BY DeliveryAssumption
  <1>2. \A x \in Executors : execution[x] = IdleExecution
    BY DEF Init
  <1>3. PhaseInv
    BY <1>2, NewExecutions DEF PhaseInv
  <1>4. TypeOK
    BY <1>1, NewExecutions, RowTypes DEF Init, TypeOK
  <1> QED
    BY <1>3, <1>4 DEF TypeInv

\* The counters and the flags.
LEMMA OtherTypesStep ==
  ASSUME TypeInv, [Next]_vars
  PROVE  /\ copies' \in [Messages -> Nat]
         /\ checkpoint' \in 0 .. LastMessage
         /\ completed' \in BOOLEAN
         /\ doubtful' \subseteq Messages
         /\ faults' \in 0 .. MaxFaults
  <1> DEFINE Typed == /\ copies' \in [Messages -> Nat]
                      /\ checkpoint' \in 0 .. LastMessage
                      /\ completed' \in BOOLEAN
                      /\ doubtful' \subseteq Messages
                      /\ faults' \in 0 .. MaxFaults
  <1> USE DeliveryAssumption DEF TypeInv, TypeOK
  <1>1. \A kind : Fault(kind) => faults' \in 0 .. MaxFaults
    BY DEF Fault
  <1>2. \A x \in Executors : /\ At(x) \in 0 .. LastMessage
                             /\ execution[x].phase \notin {"idle", "next"} => At(x) \in Messages
    BY DEF PhaseInv, Execution, At
  <1>3. ASSUME NEW x \in Executors,
               \/ StartBackfill(x) \/ NextMessage(x) \/ Claim(x) \/ Reclaim(x)
               \/ SaveCheckpoint(x) \/ FinishBackfill(x)
        PROVE  Typed
    BY <1>2, <1>3 DEF StartBackfill, NextMessage, Claim, Reclaim, SaveCheckpoint,
                      FinishBackfill, DoubtIf, InPhase
  <1>4. ASSUME NEW x \in Executors, StartReplay(x) \/ TakeFailed(x) \/ FinishReplay(x)
        PROVE  Typed
    <2>1. CASE TakeFailed(x)
      <3>1. doubtful' \subseteq Messages
        BY <2>1, TakeFailedEffect
      <3> QED
        BY <2>1, <3>1 DEF TakeFailed
    <2> QED
      BY <1>4, <2>1 DEF StartReplay, FinishReplay
  <1>5. ASSUME NEW x \in Executors,
               \/ SendAnswered(x) \/ PartArrives(x) \/ SendRefused(x) \/ SendUnanswered(x)
               \/ AttachmentBlocks(x) \/ DeliverReturns(x) \/ Cancel(x) \/ Die(x)
        PROVE  Typed
    <2>1. \A m \in Messages : Arrives(m) => copies' \in [Messages -> Nat]
      BY DEF Arrives
    <2> QED
      BY <1>1, <1>2, <1>5, <2>1
         DEF SendAnswered, PartArrives, SendRefused, SendUnanswered, AttachmentBlocks,
             DeliverReturns, Cancel, Die, DoubtIf, InPhase, InDeliver, SentUnrecorded
  <1>6. ASSUME NEW x \in Executors,
               MarkImported(x) \/ MarkFailed(x) \/ MarkAmbiguous(x) \/ MarkCancelled(x)
        PROVE  Typed
    BY <1>6 DEF MarkImported, MarkFailed, MarkAmbiguous, MarkCancelled
  <1>7. ASSUME NEW m \in Messages, GrowsStale(m) \/ Outlasted(m)
        PROVE  Typed
    BY <1>1, <1>7 DEF GrowsStale, Outlasted
  <1>8. ASSUME UNCHANGED vars PROVE Typed
    BY <1>8 DEF vars
  <1> HIDE DEF Typed, TypeInv, TypeOK
  <1>9. Typed
    BY <1>3, <1>4, <1>5, <1>6, <1>7, <1>8
       DEF Next, BackfillStep, ReplayStep, DeliveryStep, FaultStep, Executors, vars
  <1> QED
    BY <1>9 DEF Typed

\* The kinds of step: x rests, is inside deliver, or writes a result; or x reads on,
\* claims, takes over or takes a failed message; or a part of a message arrives, or a
\* row ages, while no execution moves.
Quiet(x) ==
  /\ Rests(x) /\ row' = row /\ copies' = copies
  /\ SentUnrecorded(x) => At(x) \in doubtful'

Delivering(x) ==
  \/ SendAnswered(x) \/ SendRefused(x) \/ SendUnanswered(x)
  \/ AttachmentBlocks(x) \/ DeliverReturns(x) \/ Cancel(x)

Marking(x) == MarkImported(x) \/ MarkFailed(x) \/ MarkAmbiguous(x) \/ MarkCancelled(x)

Aging(m) == GrowsStale(m) \/ Outlasted(m)

LEMMA Kinds ==
  ASSUME TypeInv, [Next]_vars
  PROVE  \/ UNCHANGED vars
         \/ \E x \in Executors : PartArrives(x)
         \/ \E m \in Messages : Aging(m)
         \/ \E x \in Executors :
               \/ Quiet(x) \/ Delivering(x) \/ Marking(x)
               \/ NextMessage(x) \/ Claim(x) \/ Reclaim(x) \/ TakeFailed(x)
  <1>1. ASSUME NEW x \in Executors,
               \/ StartBackfill(x) \/ FinishBackfill(x) \/ StartReplay(x) \/ FinishReplay(x)
               \/ SaveCheckpoint(x) \/ Die(x)
        PROVE  Quiet(x)
    BY <1>1, RestEffects DEF Quiet, StartBackfill, FinishBackfill, StartReplay,
       FinishReplay, SaveCheckpoint, Die, SentUnrecorded, InPhase, DoubtIf
  <1> QED
    BY <1>1 DEF Next, BackfillStep, ReplayStep, DeliveryStep, FaultStep, Executors,
                Delivering, Marking, Aging

LEMMA TypeInvStep == TypeInv /\ [Next]_vars => TypeInv'
  <1> SUFFICES ASSUME TypeInv, [Next]_vars PROVE TypeInv'
    OBVIOUS
  <1> DEFINE Typed == row' \in [Messages -> MessageRow]
                      /\ execution' \in [Executors -> Execution] /\ PhaseInv'
  <1>1. ASSUME NEW x \in Executors, Moves(x),
               execution'[x].phase \notin {"idle", "next"} => execution'[x].at \in Messages,
               execution'[x].phase \in {"claim", "reclaim", "save"} => x \in Backfills
        PROVE  execution' \in [Executors -> Execution] /\ PhaseInv'
    BY <1>1 DEF Moves, TypeInv, PhaseInv, At
  <1>2. row \in [Messages -> MessageRow]
    BY DEF TypeInv, TypeOK
  <1>3. ASSUME NEW x \in Executors, Quiet(x) PROVE Typed
    BY <1>1, <1>2, <1>3 DEF Quiet, Rests
  <1>4. ASSUME NEW x \in Executors, NextMessage(x) PROVE Typed
    BY <1>1, <1>2, <1>4, NextMessageEffect DEF Comes, NextMessage
  <1>5. ASSUME NEW x \in Executors, Claim(x) PROVE Typed
    BY <1>1, <1>2, <1>5, ClaimEffect DEF Comes, Rests, Writes
  <1>6. ASSUME NEW x \in Executors, Reclaim(x) PROVE Typed
    BY <1>1, <1>2, <1>6, ReclaimEffect DEF Comes, Rests, Writes
  <1>7. ASSUME NEW x \in Executors, TakeFailed(x) PROVE Typed
    <2>1. row' = row
      BY <1>7 DEF TakeFailed
    <2> QED
      BY <1>1, <1>2, <1>7, <2>1, TakeFailedEffect DEF Comes, Rests
  <1>8. ASSUME NEW x \in Executors, Delivering(x) PROVE Typed
    <2>1. row' = row
      BY <1>8 DEF Delivering, SendAnswered, SendRefused, SendUnanswered, AttachmentBlocks,
                  DeliverReturns, Cancel
    <2>2. PICK p \in {"sent", "failing", "unclear", "imported", "cancelled"} :
            Moves(x) /\ Comes(x, p, At(x)) /\ At(x) \in Messages
      BY <1>8, DeliverEffects DEF Delivering
    <2> QED
      BY <1>1, <1>2, <2>1, <2>2 DEF Comes
  <1>9. ASSUME NEW x \in Executors, Marking(x) PROVE Typed
    <2>1. At(x) \in Messages
      BY <1>9 DEF Marking, MarkImported, MarkFailed, MarkAmbiguous, MarkCancelled, InPhase,
                  TypeInv, PhaseInv
    <2>2. /\ row' \in [Messages -> MessageRow] /\ Moves(x)
          /\ \/ x \in Backfills /\ Comes(x, "save", At(x))
             \/ Comes(x, "incomplete", At(x))
             \/ Comes(x, "attachment_unclear", At(x))
             \/ Rests(x)
      BY <1>9, MarkEffects DEF Marking, Writes
    <2> QED
      BY <1>1, <2>1, <2>2 DEF Comes, Rests
  <1>10. ASSUME NEW m \in Messages, Aging(m) PROVE Typed
    <2>1. row' = [row EXCEPT ![m].fresh = FALSE] /\ execution' = execution
      BY <1>10 DEF Aging, GrowsStale, Outlasted, Aged
    <2>2. row' \in [Messages -> MessageRow]
      BY <1>2, <2>1 DEF MessageRow
    <2> QED
      BY <2>1, <2>2 DEF TypeInv, TypeOK, PhaseInv, At
  <1>11. ASSUME UNCHANGED <<row, execution>> PROVE Typed
    BY <1>2, <1>11 DEF TypeInv, TypeOK, PhaseInv, At
  <1> HIDE DEF Typed
  <1>12. Typed
    <2>1. ASSUME NEW x \in Executors,
                 \/ Quiet(x) \/ Delivering(x) \/ Marking(x)
                 \/ NextMessage(x) \/ Claim(x) \/ Reclaim(x) \/ TakeFailed(x)
          PROVE  Typed
      BY <1>3, <1>4, <1>5, <1>6, <1>7, <1>8, <1>9, <2>1
    <2> QED
      BY <1>10, <1>11, <2>1, Kinds DEF vars, PartArrives
  <1> QED
    BY <1>12, OtherTypesStep DEF Typed, TypeInv, TypeOK

\* The registry, the checkpoint and the executions keep their shape.
THEOREM DeliveryTypeCorrect == Spec => []TypeOK
  <1>1. TypeInv => TypeOK
    BY DEF TypeInv
  <1> QED
    BY TypeInvInit, TypeInvStep, <1>1, PTL DEF Spec

-----------------------------------------------------------------------------
(* The registry does not claim more than happened.                         *)

\* x knows of the message in hand that it is in the chat.
KnowsSent(x) ==
  \/ execution[x].phase \in {"sent", "imported", "incomplete", "attachment_unclear"}
  \/ InPhase(x, "send") /\ execution[x].reuse

\* The strengthening: what an execution knows is true as well.
CopyInv ==
  /\ ImportedIsInChat
  /\ \A x \in Executors : KnowsSent(x) => copies[At(x)] > 0

LEMMA CopyInvInit == Init => CopyInv
  BY DEF Init, CopyInv, ImportedIsInChat, KnowsSent, IdleExecution, NoRow, InPhase

\* Nothing is taken back from the chat.
LEMMA CopiesGrow ==
  ASSUME TypeInv, [Next]_vars
  PROVE  \A m \in Messages : copies'[m] >= copies[m]
  <1>1. copies \in [Messages -> Nat]
    BY DEF TypeInv, TypeOK
  <1>2. copies' = copies \/ \E m \in Messages : copies' = [copies EXCEPT ![m] = @ + 1]
    <2>1. ASSUME NEW x \in Executors, SendAnswered(x) \/ PartArrives(x) \/ SendUnanswered(x)
          PROVE  copies' = copies \/ (Arrives(At(x)) /\ At(x) \in Messages)
      BY <2>1 DEF SendAnswered, PartArrives, SendUnanswered, InPhase, TypeInv, PhaseInv
    <2> QED
      BY <2>1 DEF Arrives, Next, vars, BackfillStep, ReplayStep, DeliveryStep, FaultStep,
         StartBackfill, NextMessage, Claim, Reclaim, SaveCheckpoint, FinishBackfill,
         StartReplay, TakeFailed, FinishReplay, SendRefused, AttachmentBlocks,
         DeliverReturns, MarkImported, MarkFailed, MarkAmbiguous, MarkCancelled,
         Cancel, Die, GrowsStale, Outlasted
  <1> QED
    BY <1>1, <1>2

LEMMA CopyInvStep == TypeInv /\ CopyInv /\ [Next]_vars => CopyInv'
  <1> SUFFICES ASSUME TypeInv, CopyInv, [Next]_vars PROVE CopyInv'
    OBVIOUS
  <1>1. \A m \in Messages : copies'[m] >= copies[m] /\ copies[m] \in Nat /\ copies'[m] \in Nat
    BY CopiesGrow, OtherTypesStep DEF TypeInv, TypeOK
  <1>2. \A x \in Executors : KnowsSent(x) => At(x) \in Messages
    BY DEF KnowsSent, InPhase, TypeInv, PhaseInv
  <1>3. ASSUME NEW x \in Executors, Moves(x), ImportedIsInChat',
               KnowsSent(x)' => copies'[At(x)'] > 0
        PROVE  CopyInv'
    <2>1. ASSUME NEW y \in Executors \ {x}, KnowsSent(y)' PROVE copies'[At(y)'] > 0
      <3>1. KnowsSent(y) /\ At(y)' = At(y)
        BY <1>3, <2>1 DEF Moves, KnowsSent, InPhase, At
      <3> QED
        BY <1>1, <1>2, <3>1 DEF CopyInv
    <2> QED
      BY <1>3, <2>1 DEF CopyInv
  <1>4. ASSUME row' = row PROVE ImportedIsInChat'
    BY <1>1, <1>4 DEF CopyInv, ImportedIsInChat
  <1>5. ASSUME NEW x \in Executors, NEW r, Writes(x, r),
               r.status = "imported" \/ r.sync => copies[At(x)] > 0
        PROVE  ImportedIsInChat'
    BY <1>1, <1>5 DEF CopyInv, ImportedIsInChat, Writes
  <1>6. ASSUME NEW x \in Executors, Quiet(x) PROVE CopyInv'
    BY <1>3, <1>4, <1>6 DEF Quiet, Rests, KnowsSent, InPhase
  <1>7. ASSUME NEW x \in Executors, NextMessage(x) PROVE CopyInv'
    <2>1. row' = row
      BY <1>7 DEF NextMessage
    <2> QED
      BY <1>3, <1>4, <1>7, <2>1, NextMessageEffect DEF Comes, KnowsSent, InPhase
  <1>8. ASSUME NEW x \in Executors, NEW p, row' = row, Moves(x), Comes(x, p, At(x)),
               p \in {"reclaim", "save", "failing", "unclear", "cancelled"}
        PROVE  CopyInv'
    BY <1>3, <1>4, <1>8 DEF Comes, KnowsSent, InPhase
  <1>9. ASSUME NEW x \in Executors, Writes(x, ClaimedRow), Comes(x, "send", At(x)),
               ~execution'[x].reuse
        PROVE  CopyInv'
    BY <1>3, <1>5, <1>9 DEF ClaimedRow, Writes, Comes, KnowsSent, InPhase
  <1>10. ASSUME NEW x \in Executors, row' = row, Rests(x) PROVE CopyInv'
    BY <1>3, <1>4, <1>10 DEF Rests, KnowsSent, InPhase
  <1>11. ASSUME NEW x \in Executors, Claim(x) PROVE CopyInv'
    BY <1>8, <1>9, <1>10, <1>11, ClaimEffect
  <1>12. ASSUME NEW x \in Executors, Reclaim(x) PROVE CopyInv'
    BY <1>9, <1>10, <1>12, ReclaimEffect
  <1>13. ASSUME NEW x \in Executors, TakeFailed(x) PROVE CopyInv'
    <2>1. row' = row
      BY <1>13 DEF TakeFailed
    <2>2. ASSUME NEW m \in Messages, Moves(x), Comes(x, "send", m),
                 execution'[x].reuse = row[m].sync
          PROVE  CopyInv'
      <3>1. row[m].sync => copies'[m] > 0
        BY <1>1 DEF CopyInv, ImportedIsInChat
      <3> QED
        BY <1>3, <1>4, <2>1, <2>2, <3>1 DEF Comes, KnowsSent, InPhase, At
    <2> QED
      BY <1>10, <1>13, <2>1, <2>2, TakeFailedEffect
  <1>14. ASSUME NEW x \in Executors, Delivering(x) PROVE CopyInv'
    <2>1. row' = row /\ ImportedIsInChat'
      BY <1>4, <1>14 DEF Delivering, SendAnswered, SendRefused, SendUnanswered,
                         AttachmentBlocks, DeliverReturns, Cancel
    <2>2. CASE SendAnswered(x)
      <3>1. /\ Moves(x) /\ Comes(x, "sent", At(x)) /\ At(x) \in Messages
            /\ execution[x].phase = "send"
        BY <2>2, DeliverEffects DEF SendAnswered, InPhase
      <3>2. copies'[At(x)] > 0
        <4>1. CASE execution[x].reuse
          BY <1>1, <3>1, <4>1 DEF CopyInv, KnowsSent, InPhase
        <4>2. CASE ~execution[x].reuse
          <5>1. copies' = [copies EXCEPT ![At(x)] = @ + 1]
            BY <2>2, <4>2 DEF SendAnswered, Arrives
          <5> QED
            BY <1>1, <3>1, <5>1 DEF TypeInv, TypeOK
        <4> QED
          BY <4>1, <4>2
      <3> QED
        BY <1>3, <2>1, <3>1, <3>2 DEF Comes, At
    <2>3. CASE DeliverReturns(x)
      <3>1. /\ Moves(x) /\ Comes(x, "imported", At(x)) /\ At(x) \in Messages
            /\ KnowsSent(x)
        BY <2>3, DeliverEffects DEF DeliverReturns, InPhase, KnowsSent
      <3> QED
        BY <1>1, <1>3, <2>1, <3>1 DEF Comes, At, CopyInv
    <2>4. CASE SendRefused(x) \/ SendUnanswered(x) \/ AttachmentBlocks(x) \/ Cancel(x)
      BY <1>8, <2>1, <2>4, DeliverEffects
    <2> QED
      BY <1>14, <2>2, <2>3, <2>4 DEF Delivering
  <1>15. ASSUME NEW x \in Executors, Marking(x) PROVE CopyInv'
    <2>1. At(x) \in Messages
      BY <1>15 DEF Marking, MarkImported, MarkFailed, MarkAmbiguous, MarkCancelled,
                   InPhase, TypeInv, PhaseInv
    <2>2. row[At(x)].sync => copies[At(x)] > 0
      BY <2>1 DEF CopyInv, ImportedIsInChat
    <2>3. row[At(x)] \in MessageRow
      BY <2>1 DEF TypeInv, TypeOK
    <2>4. CASE MarkImported(x)
      <3>1. copies[At(x)] > 0
        BY <2>4, MarkEffects DEF CopyInv, KnowsSent
      <3>2. Writes(x, ImportedRow(row[At(x)])) /\ Moves(x)
        BY <2>4, MarkEffects DEF Writes
      <3>3. ImportedIsInChat'
        BY <1>5, <3>1, <3>2
      <3>4. execution'[x].at = At(x) \/ Rests(x)
        BY <2>4, MarkEffects DEF Comes
      <3> QED
        BY <1>1, <1>3, <2>1, <3>1, <3>2, <3>3, <3>4 DEF Rests, KnowsSent, InPhase, At
    <2>5. ASSUME NEW r, Writes(x, r), r.sync = row[At(x)].sync, r.status # "imported",
                 Comes(x, "save", At(x)) \/ Rests(x)
          PROVE  CopyInv'
      <3>1. ImportedIsInChat' /\ Moves(x)
        BY <1>5, <2>2, <2>5 DEF Writes
      <3> QED
        BY <1>3, <2>5, <3>1 DEF Comes, Rests, KnowsSent, InPhase
    <2>6. \A code : /\ FailedRow(row[At(x)], code).sync = row[At(x)].sync
                    /\ FailedRow(row[At(x)], code).status # "imported"
                    /\ AmbiguousRow(row[At(x)], code).sync = row[At(x)].sync
                    /\ AmbiguousRow(row[At(x)], code).status # "imported"
      BY <2>3 DEF MessageRow, FailedRow, AmbiguousRow
    <2>7. CASE MarkFailed(x) \/ MarkAmbiguous(x) \/ MarkCancelled(x)
      BY <2>5, <2>6, <2>7, MarkEffects
    <2> QED
      BY <1>15, <2>4, <2>7 DEF Marking
  <1>16. ASSUME NEW m \in Messages, Aging(m) PROVE CopyInv'
    <2>1. /\ row' = [row EXCEPT ![m].fresh = FALSE]
          /\ execution' = execution /\ copies' = copies
      BY <1>16 DEF Aging, GrowsStale, Outlasted, Aged
    <2>2. \A n \in Messages : row'[n].status = row[n].status /\ row'[n].sync = row[n].sync
      BY <2>1 DEF TypeInv, TypeOK, MessageRow
    <2> QED
      BY <2>1, <2>2 DEF CopyInv, ImportedIsInChat, KnowsSent, InPhase, At
  <1>17. CASE UNCHANGED vars
    BY <1>17 DEF vars, CopyInv, ImportedIsInChat, KnowsSent, InPhase, At
  <1>18. ASSUME NEW x \in Executors, PartArrives(x) PROVE CopyInv'
    <2>1. UNCHANGED <<row, execution>>
      BY <1>18 DEF PartArrives
    <2> QED
      BY <1>1, <1>2, <2>1 DEF CopyInv, ImportedIsInChat, KnowsSent, InPhase, At
  <1> QED
    <2>1. ASSUME NEW x \in Executors,
                 \/ Quiet(x) \/ Delivering(x) \/ Marking(x)
                 \/ NextMessage(x) \/ Claim(x) \/ Reclaim(x) \/ TakeFailed(x)
          PROVE  CopyInv'
      BY <1>6, <1>7, <1>11, <1>12, <1>13, <1>14, <1>15, <2>1
    <2> QED
      BY <1>16, <1>17, <1>18, <2>1, Kinds

\* A message that the registry calls imported, or of which it knows the target, is in
\* the chat, whatever overlaps, is cut off or is started again.
THEOREM ImportedMessagesAreInChat == Spec => []ImportedIsInChat
  <1>1. CopyInv => ImportedIsInChat
    BY DEF CopyInv
  <1> QED
    BY TypeInvInit, TypeInvStep, CopyInvInit, CopyInvStep, <1>1, PTL DEF Spec

-----------------------------------------------------------------------------
(* The checkpoint passes only what is settled.                             *)

\* The strengthening: it holds from the time the execution decides to pass the
\* message until the row is written by another.
PassInv ==
  \A x \in Backfills :
     InPhase(x, "save") /\ execution[x].current =>
       At(x) \in Skipped \/ SettledRow(row[At(x)])

LEMMA PassInvInit == Init => PassInv
  BY DEF Init, PassInv, Executors, IdleExecution, InPhase

LEMMA PassInvStep == TypeInv /\ PassInv /\ [Next]_vars => PassInv'
  <1> SUFFICES ASSUME TypeInv, PassInv, [Next]_vars PROVE PassInv'
    OBVIOUS
  <1>1. row \in [Messages -> MessageRow] /\ Backfills \subseteq Executors
    BY DEF TypeInv, TypeOK, Executors
  <1>2. ASSUME NEW x \in Executors, Moves(x),
               \A y \in Executors \ {x} :
                  execution'[y].phase = "save" /\ execution'[y].current =>
                    row'[At(y)] = row[At(y)],
               execution'[x].phase = "save" =>
                 execution'[x].at \in Skipped \/ SettledRow(row'[execution'[x].at])
        PROVE  PassInv'
    BY <1>1, <1>2 DEF Moves, PassInv, InPhase, At
  <1>3. ASSUME NEW x \in Executors, row' = row, Moves(x),
               execution'[x].phase = "save" =>
                 execution'[x].at \in Skipped \/ SettledRow(row[execution'[x].at])
        PROVE  PassInv'
    BY <1>2, <1>3
  <1>4. ASSUME NEW x \in Executors, NEW r, Writes(x, r),
               execution'[x].phase = "save" =>
                 execution'[x].at = At(x) /\ At(x) \in Messages /\ SettledRow(r)
        PROVE  PassInv'
    <2>1. \A y \in Executors \ {x} :
             execution'[y].phase = "save" /\ execution'[y].current =>
               row'[At(y)] = row[At(y)]
      BY <1>4 DEF Writes, Moves, TypeInv, PhaseInv
    <2> QED
      BY <1>2, <1>4, <2>1 DEF Writes
  <1>5. ASSUME NEW x \in Executors, Quiet(x) PROVE PassInv'
    BY <1>3, <1>5 DEF Quiet, Rests
  <1>6. ASSUME NEW x \in Executors, NextMessage(x) PROVE PassInv'
    <2>1. row' = row
      BY <1>6 DEF NextMessage
    <2> QED
      BY <1>3, <1>6, <2>1, NextMessageEffect DEF Comes
  <1>7. ASSUME NEW x \in Executors, Claim(x) PROVE PassInv'
    BY <1>3, <1>4, <1>7, ClaimEffect DEF Comes, Rests
  <1>8. ASSUME NEW x \in Executors, Reclaim(x) PROVE PassInv'
    BY <1>3, <1>4, <1>8, ReclaimEffect DEF Comes, Rests
  <1>9. ASSUME NEW x \in Executors, TakeFailed(x) PROVE PassInv'
    <2>1. row' = row
      BY <1>9 DEF TakeFailed
    <2> QED
      BY <1>3, <1>9, <2>1, TakeFailedEffect DEF Comes, Rests
  <1>10. ASSUME NEW x \in Executors, Delivering(x) PROVE PassInv'
    <2>1. row' = row
      BY <1>10 DEF Delivering, SendAnswered, SendRefused, SendUnanswered,
                   AttachmentBlocks, DeliverReturns, Cancel
    <2>2. PICK p \in {"sent", "failing", "unclear", "imported", "cancelled"} :
            Moves(x) /\ Comes(x, p, At(x))
      BY <1>10, DeliverEffects DEF Delivering
    <2> QED
      BY <1>3, <2>1, <2>2 DEF Comes
  <1>11. ASSUME NEW x \in Executors, Marking(x) PROVE PassInv'
    <2>1. At(x) \in Messages
      BY <1>11 DEF Marking, MarkImported, MarkFailed, MarkAmbiguous, MarkCancelled,
                   InPhase, TypeInv, PhaseInv
    <2>2. \A code : /\ SettledRow(ImportedRow(row[At(x)]))
                    /\ SettledRow(FailedRow(row[At(x)], code))
      BY <1>1, <2>1 DEF SettledRow, ImportedRow, FailedRow, MessageRow
    <2> QED
      BY <1>4, <1>11, <2>1, <2>2, MarkEffects DEF Marking, Comes, Rests
  <1>12. ASSUME NEW m \in Messages, Aging(m) PROVE PassInv'
    <2>1. row' = [row EXCEPT ![m].fresh = FALSE] /\ execution' = execution
      BY <1>12 DEF Aging, GrowsStale, Outlasted, Aged
    <2>2. \A n \in Messages : row'[n].status = row[n].status
      BY <1>1, <2>1 DEF MessageRow
    <2>3. \A x \in Backfills : InPhase(x, "save") => At(x) \in Messages
      BY <1>1 DEF InPhase, TypeInv, PhaseInv
    <2> QED
      BY <2>1, <2>2, <2>3 DEF PassInv, SettledRow, InPhase, At
  <1>13. CASE UNCHANGED <<row, execution>>
    BY <1>13 DEF PassInv, InPhase, At
  <1> QED
    <2>1. ASSUME NEW x \in Executors,
                 \/ Quiet(x) \/ Delivering(x) \/ Marking(x)
                 \/ NextMessage(x) \/ Claim(x) \/ Reclaim(x) \/ TakeFailed(x)
          PROVE  PassInv'
      BY <1>5, <1>6, <1>7, <1>8, <1>9, <1>10, <1>11, <2>1
    <2> QED
      BY <1>12, <1>13, <2>1, Kinds DEF vars, PartArrives

\* A backfill saves its checkpoint only over what is outside the dialog or settled.
THEOREM CheckpointPassesOnlySettled == Spec => PassesOnlySettled
  <1>1. TypeInv /\ PassInv /\ [Next]_vars =>
          \A x \in Backfills :
             InPhase(x, "save") /\ checkpoint' = At(x) /\ execution[x].current =>
               At(x) \in Skipped \/ SettledRow(row[At(x)])
    BY DEF PassInv
  <1> QED
    BY TypeInvInit, TypeInvStep, PassInvInit, PassInvStep, <1>1, PTL
       DEF Spec, PassesOnlySettled

-----------------------------------------------------------------------------
(* A message is sent once.                                                 *)

\* x has the message in hand until the last of its marks is written.
Holds(x, m) ==
  /\ At(x) = m
  /\ execution[x].phase \in {"send", "sent", "imported", "unclear", "failing", "cancelled",
                             "incomplete", "attachment_unclear"}

\* What a row tells by its status.
RowShape(r) ==
  /\ r.status \in {"absent", "processing"} => ~r.sync
  /\ r.status = "imported" => r.sync
  /\ r.fresh => r.status \in {"processing", "ambiguous"}
  /\ RetryableCancel(r) => ~r.sync

\* The row of a message that x has in hand.
HeldRow(x, m) ==
  /\ execution[x].phase \in {"incomplete", "attachment_unclear"} => row[m].status = "imported"
  /\ AtWork(x, m) /\ x \in Backfills =>
       row[m].status = "processing" /\ row[m].fresh /\ ~execution[x].reuse
  /\ AtWork(x, m) /\ x \in Replays =>
       /\ row[m].status = "failed"
       /\ execution[x].reuse <=> row[m].sync
       /\ InPhase(x, "cancelled") => ~execution[x].reuse

\* x has read a row to take it over.
ReadRow(x, m) ==
  At(x) = m /\ InPhase(x, "reclaim") =>
    /\ Reclaimable(execution[x].seen)
    /\ execution[x].current => row[m] = execution[x].seen

\* x has sent the message and has not recorded it.
SentHere(x, m) == At(x) = m /\ SentUnrecorded(x)

\* The strengthening, for a message that is not doubtful: one execution has it in
\* hand; the row shows that it has; what was read to be taken over is there or known
\* to be outdated; and a copy in the chat is recorded in the row or is known to the
\* execution that sent it.
OnceInv(m) ==
  /\ RowShape(row[m])
  /\ \A x \in Executors : Holds(x, m) => HeldRow(x, m)
  /\ \A x, y \in Executors : Holds(x, m) /\ Holds(y, m) => x = y
  /\ \A x \in Executors : ReadRow(x, m)
  /\ copies[m] <= 1
  /\ copies[m] = 1 => row[m].sync \/ \E x \in Executors : SentHere(x, m)

SendInv == \A m \in Messages \ doubtful : OnceInv(m)

LEMMA SendInvInit == Init => SendInv
  BY DEF Init, SendInv, OnceInv, RowShape, NoRow, RetryableCancel, Holds, HeldRow, ReadRow,
         IdleExecution, InPhase

\* Doubt about a message is never forgotten.
LEMMA DoubtGrows == ASSUME [Next]_vars PROVE doubtful \subseteq doubtful'
  BY DEF Next, vars, BackfillStep, ReplayStep, DeliveryStep, FaultStep, DoubtIf,
         StartBackfill, NextMessage, Claim, Reclaim, SaveCheckpoint, FinishBackfill,
         StartReplay, TakeFailed, FinishReplay, SendAnswered, PartArrives, SendRefused,
         SendUnanswered, AttachmentBlocks, DeliverReturns, MarkImported, MarkFailed,
         MarkAmbiguous, MarkCancelled, Cancel, Die, GrowsStale, Outlasted

\* Nobody has the message in hand but, before or after the step, x.
LEMMA OneHolder ==
  ASSUME TypeInv, NEW x \in Executors, NEW m \in Messages, Moves(x), OnceInv(m),
         \A y \in Executors \ {x} : ~Holds(y, m),
         row'[m] = row[m] \/ \A y \in Executors \ {x} : At(y) = m => ~execution'[y].current,
         RowShape(row'[m]),
         Holds(x, m)' => HeldRow(x, m)',
         ReadRow(x, m)',
         copies'[m] <= 1,
         copies'[m] = 1 => row'[m].sync \/ SentHere(x, m)'
  PROVE  OnceInv(m)'
  <1>1. \A y \in Executors \ {x} : ~Holds(y, m)'
    BY DEF Moves, Holds, At
  <1>2. \A y \in Executors \ {x} : ReadRow(y, m)'
    BY DEF Moves, OnceInv, ReadRow, InPhase, At
  <1> QED
    BY <1>1, <1>2 DEF OnceInv

\* A step of x that does not concern the message.
LEMMA Elsewhere ==
  ASSUME TypeInv, NEW x \in Executors, NEW m \in Messages, Moves(x), OnceInv(m),
         row'[m] = row[m], copies'[m] = copies[m],
         ~Holds(x, m), ~Holds(x, m)', ReadRow(x, m)'
  PROVE  OnceInv(m)'
  <1>1. \A y \in Executors : Holds(y, m)' <=> Holds(y, m)
    BY DEF Moves, Holds, At
  <1>2. \A y \in Executors \ {x} : HeldRow(y, m)' <=> HeldRow(y, m)
    BY DEF Moves, HeldRow, AtWork, InPhase, At
  <1>3. \A y \in Executors : ReadRow(y, m)'
    BY DEF Moves, OnceInv, ReadRow, InPhase, At
  <1>4. \A y \in Executors \ {x} : SentHere(y, m) => SentHere(y, m)'
    BY DEF Moves, SentHere, SentUnrecorded, InPhase, At
  <1>5. ~SentHere(x, m)
    BY DEF SentHere, SentUnrecorded, Holds, InPhase
  <1> QED
    BY <1>1, <1>2, <1>3, <1>4, <1>5 DEF OnceInv

\* The message that a step of x is about, for the steps that keep it in hand.
LEMMA HeldByOne ==
  ASSUME TypeInv, NEW x \in Executors, NEW m \in Messages, OnceInv(m), Holds(x, m)
  PROVE  /\ \A y \in Executors \ {x} : ~Holds(y, m)
         /\ row[m] \in MessageRow
         /\ copies[m] = 1 => row[m].sync \/ SentUnrecorded(x)
  <1>1. \A y \in Executors : SentHere(y, m) => Holds(y, m)
    BY DEF SentHere, SentUnrecorded, Holds, InPhase
  <1> QED
    BY <1>1 DEF OnceInv, TypeInv, TypeOK, SentHere

LEMMA OnceQuiet ==
  ASSUME TypeInv, NEW x \in Executors, NEW m \in Messages \ doubtful', OnceInv(m), Quiet(x)
  PROVE  OnceInv(m)'
  <1>0. Moves(x) /\ row' = row /\ copies' = copies /\ execution'[x].phase \in {"idle", "next"}
    BY DEF Quiet, Rests
  <1>1. ~Holds(x, m)' /\ ReadRow(x, m)'
    BY <1>0 DEF Holds, ReadRow, InPhase
  <1>2. CASE ~Holds(x, m)
    BY <1>0, <1>1, <1>2, Elsewhere
  <1>3. CASE Holds(x, m)
    <2>1. ~SentUnrecorded(x)
      BY <1>3 DEF Quiet, Holds
    <2>2. copies[m] = 1 => row[m].sync
      BY <1>3, <2>1, HeldByOne
    <2> QED
      BY <1>0, <1>1, <1>3, <2>2, HeldByOne, OneHolder DEF OnceInv
  <1> QED
    BY <1>2, <1>3

LEMMA OnceRead ==
  ASSUME TypeInv, NEW x \in Executors, NEW m \in Messages, OnceInv(m), NextMessage(x)
  PROVE  OnceInv(m)'
  <1>1. /\ Moves(x) /\ row' = row /\ copies' = copies
        /\ execution[x].phase = "next" /\ execution'[x].phase \in {"save", "claim"}
    BY NextMessageEffect DEF NextMessage, Comes, InPhase
  <1>2. ~Holds(x, m) /\ ~Holds(x, m)' /\ ReadRow(x, m)'
    BY <1>1 DEF Holds, ReadRow, InPhase
  <1> QED
    BY <1>1, <1>2, Elsewhere

\* A row that is claimed for the first time, or that can be taken over, is in
\* nobody's hand, unless it is of a cancelled delivery that is being replayed.
LEMMA FreeRow ==
  ASSUME TypeInv, NEW m \in Messages, OnceInv(m),
         row[m].status = "absent" \/ Reclaimable(row[m]),
         RetryableCancel(row[m]) => \A y \in Replays : ~AtWork(y, m)
  PROVE  /\ \A y \in Executors : ~Holds(y, m)
         /\ copies[m] # 1
  <1>1. row[m] \in MessageRow
    BY DEF TypeInv, TypeOK
  <1>2. ~row[m].sync /\ row[m].status # "imported"
    BY <1>1 DEF OnceInv, RowShape, Reclaimable, Stale, RetryableAmbiguous, RetryableCancel
  <1>3. ~(row[m].status = "processing" /\ row[m].fresh)
    BY DEF Reclaimable, Stale, RetryableAmbiguous, RetryableCancel
  <1>4. row[m].status = "failed" => RetryableCancel(row[m])
    BY DEF Reclaimable, Stale, RetryableAmbiguous
  <1>5. ASSUME NEW y \in Executors, Holds(y, m) PROVE FALSE
    <2>1. HeldRow(y, m)
      BY <1>5 DEF OnceInv
    <2>2. AtWork(y, m)
      BY <1>2, <1>5, <2>1 DEF HeldRow, Holds, AtWork
    <2>3. y \notin Backfills
      BY <1>3, <2>1, <2>2 DEF HeldRow
    <2>4. y \in Replays /\ row[m].status = "failed"
      BY <2>1, <2>2, <2>3 DEF HeldRow, Executors
    <2> QED
      BY <1>4, <2>2, <2>4
  <1>6. \A y \in Executors : SentHere(y, m) => Holds(y, m)
    BY DEF SentHere, SentUnrecorded, Holds, InPhase
  <1> QED
    BY <1>2, <1>5, <1>6 DEF OnceInv

\* A row that is free is claimed.
LEMMA OnceClaimed ==
  ASSUME TypeInv, TypeInv', NEW x \in Backfills, NEW m \in Messages, OnceInv(m), At(x) = m,
         row[m].status = "absent" \/ Reclaimable(row[m]),
         RetryableCancel(row[m]) => \A y \in Replays : ~AtWork(y, m),
         Writes(x, ClaimedRow), Comes(x, "send", m), ~execution'[x].reuse, copies' = copies
  PROVE  OnceInv(m)'
  <1>1. /\ \A y \in Executors : ~Holds(y, m)
        /\ copies[m] # 1 /\ x \in Executors
    BY FreeRow DEF Executors
  <1>2. /\ Moves(x) /\ row'[m] = ClaimedRow
        /\ \A y \in Executors \ {x} : At(y) = m => ~execution'[y].current
    BY DEF Writes
  <1>3. x \notin Replays
    BY DeliveryAssumption
  <1>4. HeldRow(x, m)'
    BY <1>2, <1>3 DEF HeldRow, ClaimedRow, Comes
  <1>5. RowShape(row'[m])
    BY <1>2 DEF RowShape, ClaimedRow, RetryableCancel
  <1>6. ReadRow(x, m)'
    BY DEF ReadRow, Comes, InPhase
  <1>7. copies'[m] <= 1 /\ copies'[m] # 1
    BY <1>1 DEF OnceInv
  <1> QED
    BY <1>1, <1>2, <1>4, <1>5, <1>6, <1>7, OneHolder

LEMMA OnceClaim ==
  ASSUME TypeInv, TypeInv', NEW x \in Executors, NEW m \in Messages, OnceInv(m), Claim(x)
  PROVE  OnceInv(m)'
  <1>1. copies' = copies /\ ~Holds(x, m)
    BY DEF Claim, Holds, InPhase
  <1>2. CASE /\ row[At(x)].status = "absent" /\ x \in Backfills
             /\ Writes(x, ClaimedRow) /\ Comes(x, "send", At(x)) /\ ~execution'[x].reuse
    <2>1. CASE At(x) = m
      BY <1>1, <1>2, <2>1, OnceClaimed DEF RetryableCancel
    <2>2. CASE At(x) # m
      <3>1. Moves(x) /\ row'[m] = row[m] /\ ~Holds(x, m)' /\ ReadRow(x, m)'
        BY <1>2, <2>2 DEF Writes, Comes, Holds, ReadRow, At
      <3> QED
        BY <1>1, <3>1, Elsewhere
    <2> QED
      BY <2>1, <2>2
  <1>3. CASE /\ Reclaimable(row[At(x)]) /\ row' = row /\ Moves(x)
             /\ Comes(x, "reclaim", At(x)) /\ execution'[x].seen = row[At(x)]
    <2>1. ~Holds(x, m)' /\ ReadRow(x, m)'
      BY <1>3 DEF Comes, Holds, ReadRow, At
    <2> QED
      BY <1>1, <1>3, <2>1, Elsewhere
  <1>4. CASE row' = row /\ Moves(x) /\ execution'[x].phase \in {"save", "idle", "next"}
    <2>1. ~Holds(x, m)' /\ ReadRow(x, m)'
      BY <1>4 DEF Holds, ReadRow, InPhase
    <2> QED
      BY <1>1, <1>4, <2>1, Elsewhere
  <1> QED
    BY <1>2, <1>3, <1>4, ClaimEffect DEF Comes, Rests

LEMMA OnceReclaim ==
  ASSUME TypeInv, TypeInv', NEW x \in Executors, NEW m \in Messages \ doubtful', OnceInv(m),
         Reclaim(x)
  PROVE  OnceInv(m)'
  <1>1. copies' = copies /\ ~Holds(x, m) /\ InPhase(x, "reclaim")
    BY DEF Reclaim, Holds, InPhase
  <1>2. CASE /\ MayReclaim(execution[x]) /\ x \in Backfills
             /\ Writes(x, ClaimedRow) /\ Comes(x, "send", At(x)) /\ ~execution'[x].reuse
             /\ DoubtIf(x, TakenRegardless(x))
    <2>1. CASE At(x) = m
      <3>1. ~TakenRegardless(x)
        BY <1>2, <2>1 DEF DoubtIf
      <3>2. execution[x].current
        BY <1>2, <3>1 DEF MayReclaim, TakenRegardless
      <3>3. row[m] = execution[x].seen /\ Reclaimable(row[m])
        BY <1>1, <2>1, <3>2 DEF OnceInv, ReadRow
      <3>4. RetryableCancel(row[m]) => \A y \in Replays : ~AtWork(y, m)
        BY <2>1, <3>1, <3>3 DEF TakenRegardless
      <3> QED
        BY <1>1, <1>2, <2>1, <3>3, <3>4, OnceClaimed
    <2>2. CASE At(x) # m
      <3>1. Moves(x) /\ row'[m] = row[m] /\ ~Holds(x, m)' /\ ReadRow(x, m)'
        BY <1>2, <2>2 DEF Writes, Comes, Holds, ReadRow, At
      <3> QED
        BY <1>1, <3>1, Elsewhere
    <2> QED
      BY <2>1, <2>2
  <1>3. CASE row' = row /\ Rests(x)
    <2>1. Moves(x) /\ ~Holds(x, m)' /\ ReadRow(x, m)'
      BY <1>3 DEF Rests, Holds, ReadRow, InPhase
    <2> QED
      BY <1>1, <1>3, <2>1, Elsewhere
  <1> QED
    BY <1>2, <1>3, ReclaimEffect

LEMMA OnceTakeFailed ==
  ASSUME TypeInv, NEW y \in Executors, NEW m \in Messages \ doubtful', OnceInv(m),
         TakeFailed(y)
  PROVE  OnceInv(m)'
  <1>1. copies' = copies /\ row' = row /\ ~Holds(y, m) /\ y \in Replays /\ y \notin Backfills
    BY DeliveryAssumption DEF TakeFailed, Holds, InPhase
  <1>2. ASSUME NEW n \in Messages, row[n].status = "failed", Moves(y), Comes(y, "send", n),
               execution'[y].reuse = row[n].sync,
               doubtful' = IF \E x \in Executors : AtWork(x, n)
                           THEN doubtful \cup {n} ELSE doubtful
        PROVE  OnceInv(m)'
    <2>1. CASE n = m
      <3>1. \A x \in Executors : ~AtWork(x, m)
        BY <1>2, <2>1
      <3>2. \A x \in Executors : ~Holds(x, m)
        BY <1>2, <2>1, <3>1 DEF OnceInv, Holds, HeldRow, AtWork
      <3>3. copies[m] = 1 => row[m].sync
        BY <3>2 DEF OnceInv, SentHere, SentUnrecorded, Holds, InPhase
      <3>4. HeldRow(y, m)'
        BY <1>1, <1>2, <2>1 DEF HeldRow, Comes, InPhase
      <3>5. ReadRow(y, m)'
        BY <1>2 DEF ReadRow, Comes, InPhase
      <3> QED
        BY <1>1, <1>2, <3>2, <3>3, <3>4, <3>5, OneHolder DEF OnceInv
    <2>2. CASE n # m
      <3>1. ~Holds(y, m)' /\ ReadRow(y, m)'
        BY <1>2, <2>2 DEF Comes, Holds, ReadRow, At
      <3> QED
        BY <1>1, <1>2, <3>1, Elsewhere
    <2> QED
      BY <2>1, <2>2
  <1>3. CASE Rests(y)
    <2>1. Moves(y) /\ ~Holds(y, m)' /\ ReadRow(y, m)'
      BY <1>3 DEF Rests, Holds, ReadRow, InPhase
    <2> QED
      BY <1>1, <2>1, Elsewhere
  <1> QED
    BY <1>2, <1>3, TakeFailedEffect

\* The steps inside deliver keep the message in hand and do not write its row.
LEMMA OnceDelivering ==
  ASSUME TypeInv, NEW x \in Executors, NEW m \in Messages \ doubtful', OnceInv(m),
         Delivering(x)
  PROVE  OnceInv(m)'
  <1>1. PICK p \in {"sent", "failing", "unclear", "imported", "cancelled"} :
          \/ SendAnswered(x) /\ p = "sent"
          \/ SendRefused(x) /\ p = "failing"
          \/ (SendUnanswered(x) \/ AttachmentBlocks(x)) /\ p = "unclear"
          \/ DeliverReturns(x) /\ p = "imported"
          \/ Cancel(x) /\ p = "cancelled"
    BY DEF Delivering
  <1>2. /\ Moves(x) /\ Comes(x, p, At(x)) /\ execution'[x].reuse = execution[x].reuse
        /\ execution[x].phase \in {"send", "sent"} /\ At(x) \in Messages
    BY <1>1, DeliverEffects
  <1>3. row' = row /\ copies \in [Messages -> Nat]
    BY DEF Delivering, SendAnswered, SendRefused, SendUnanswered, AttachmentBlocks,
           DeliverReturns, Cancel, TypeInv, TypeOK
  <1>4. ReadRow(x, m)'
    BY <1>2 DEF ReadRow, Comes, InPhase
  <1>5. CASE At(x) # m
    <2>1. ~Holds(x, m) /\ ~Holds(x, m)'
      BY <1>2, <1>5 DEF Holds, Comes, At
    <2>2. copies'[m] = copies[m]
      BY <1>3, <1>5 DEF Delivering, SendAnswered, SendRefused, SendUnanswered,
         AttachmentBlocks, DeliverReturns, Cancel, Arrives
    <2> QED
      BY <1>2, <1>3, <1>4, <2>1, <2>2, Elsewhere
  <1>6. CASE At(x) = m
    <2>1. Holds(x, m) /\ AtWork(x, m)
      BY <1>2, <1>6 DEF Holds, AtWork
    <2>2. HeldRow(x, m) /\ RowShape(row[m]) /\ copies[m] <= 1
      BY <2>1 DEF OnceInv
    <2>3. /\ \A y \in Executors \ {x} : ~Holds(y, m)
          /\ copies[m] = 1 => row[m].sync \/ SentUnrecorded(x)
      BY <2>1, HeldByOne
    <2>4. Cancel(x) => ~SentUnrecorded(x) /\ ~execution[x].reuse
      BY <1>6 DEF Cancel, DoubtIf
    <2>5. HeldRow(x, m)'
      <3>1. p = "cancelled" => ~execution[x].reuse
        BY <1>1, <2>4
      <3> QED
        BY <1>2, <1>3, <1>6, <2>1, <2>2, <3>1 DEF HeldRow, Comes, InPhase, AtWork, At
    <2>6. copies'[m] <= 1 /\ (copies'[m] = 1 => row'[m].sync \/ SentHere(x, m)')
      <3>1. CASE SendAnswered(x)
        <4>1. ~SentUnrecorded(x)
          BY <3>1 DEF SendAnswered, SentUnrecorded, InPhase
        <4>2. ~execution[x].reuse => ~row[m].sync
          BY <2>1, <2>2 DEF HeldRow, RowShape, Executors
        <4>3. ~execution[x].reuse => SentHere(x, m)'
          <5>1. Comes(x, "sent", m)
            BY <1>6, <3>1, DeliverEffects
          <5> QED
            BY <1>2, <5>1 DEF SentHere, SentUnrecorded, InPhase, Comes, At
        <4>4. CASE execution[x].reuse
          BY <1>3, <2>2, <2>3, <3>1, <4>1, <4>4 DEF SendAnswered
        <4>5. CASE ~execution[x].reuse
          <5>1. copies'[m] = copies[m] + 1
            BY <1>3, <1>6, <3>1, <4>5 DEF SendAnswered, Arrives
          <5>2. copies[m] # 1 /\ copies[m] \in Nat
            BY <1>3, <2>3, <4>1, <4>2, <4>5
          <5> QED
            BY <2>2, <4>3, <4>5, <5>1, <5>2
        <4> QED
          BY <4>4, <4>5
      <3>2. CASE SendUnanswered(x)
        BY <1>6, <3>2 DEF SendUnanswered
      <3>3. CASE DeliverReturns(x)
        <4>1. SentUnrecorded(x) => SentHere(x, m)'
          <5>1. Comes(x, "imported", m)
            BY <1>6, <3>3, DeliverEffects
          <5> QED
            BY <1>2, <5>1 DEF SentHere, SentUnrecorded, InPhase, Comes, At
        <4> QED
          BY <1>3, <2>2, <2>3, <3>3, <4>1 DEF DeliverReturns
      <3>4. CASE SendRefused(x) \/ AttachmentBlocks(x) \/ Cancel(x)
        <4>1. ~SentUnrecorded(x)
          BY <1>6, <2>4, <3>4 DEF SendRefused, AttachmentBlocks, SentUnrecorded, InPhase,
             DoubtIf
        <4> QED
          BY <1>3, <2>2, <2>3, <3>4, <4>1 DEF SendRefused, AttachmentBlocks, Cancel
      <3> QED
        BY <3>1, <3>2, <3>3, <3>4 DEF Delivering
    <2> QED
      BY <1>2, <1>3, <1>4, <2>2, <2>3, <2>5, <2>6, OneHolder
  <1> QED
    BY <1>5, <1>6

LEMMA RowFields ==
  ASSUME NEW r \in MessageRow, NEW code \in MessageError
  PROVE  /\ LET new == FailedRow(r, code)
            IN  /\ new \in MessageRow /\ new.status = "failed" /\ new.sync = r.sync
                /\ new.error = code /\ ~new.fresh
         /\ LET new == AmbiguousRow(r, code)
            IN  new \in MessageRow /\ new.status = "ambiguous" /\ new.sync = r.sync
         /\ LET new == ImportedRow(r)
            IN  new \in MessageRow /\ new.status = "imported" /\ new.sync /\ ~new.fresh
  BY RowTypes DEF FailedRow, AmbiguousRow, ImportedRow, MessageRow

\* What a mark makes of the row of the message in hand: it keeps the shape of the
\* row, and it keeps or records that the message is in the chat.
Marked(x, r) ==
  /\ Holds(x, At(x))
  /\ Writes(x, r) /\ RowShape(r)
  /\ copies[At(x)] = 1 => r.sync
  /\ \/ execution'[x].phase \in {"save", "idle", "next"}
     \/ /\ r.status = "imported" /\ execution'[x].at = At(x)
        /\ execution'[x].phase \in {"incomplete", "attachment_unclear"}

LEMMA MarkedRow ==
  ASSUME TypeInv, NEW x \in Executors, At(x) \in Messages, OnceInv(At(x)), Marking(x)
  PROVE  \E r \in MessageRow : Marked(x, r)
  <1> DEFINE old == row[At(x)]
  <1>1. old \in MessageRow
    BY DEF TypeInv, TypeOK
  <1>2. Holds(x, At(x))
    BY DEF Marking, MarkImported, MarkFailed, MarkAmbiguous, MarkCancelled, InPhase, Holds
  <1>3. /\ HeldRow(x, At(x)) /\ RowShape(old)
        /\ copies[At(x)] = 1 => old.sync \/ SentUnrecorded(x)
    BY <1>2, HeldByOne DEF OnceInv
  <1>4. /\ "cancelled" \in MessageError
        /\ {"error", "attachment_incomplete"} \subseteq MessageError
        /\ {"unclear", "attachment_unclear"} \subseteq MessageError
    BY DEF MessageError
  <1>5. CASE MarkImported(x)
    <2>1. /\ Writes(x, ImportedRow(old))
          /\ \/ execution'[x].phase \in {"save", "idle", "next"}
             \/ /\ execution'[x].at = At(x)
                /\ execution'[x].phase \in {"incomplete", "attachment_unclear"}
      BY <1>5, MarkEffects DEF Comes, Rests
    <2> HIDE DEF old
    <2>2. ImportedRow(old) \in MessageRow /\ Marked(x, ImportedRow(old))
      BY <1>1, <1>2, <1>4, <2>1, RowFields DEF Marked, RowShape, RetryableCancel
    <2> QED
      BY <2>2
  <1>6. CASE MarkFailed(x)
    <2>1. PICK code \in {"error", "attachment_incomplete"} :
            /\ execution[x].phase \in {"failing", "incomplete"}
            /\ Writes(x, FailedRow(old, code))
            /\ execution'[x].phase \in {"save", "idle", "next"}
      BY <1>6, MarkEffects DEF Comes, Rests
    <2>2. copies[At(x)] = 1 => old.sync
      BY <1>3, <2>1 DEF SentUnrecorded, InPhase
    <2> HIDE DEF old
    <2>3. code \in MessageError /\ code # "cancelled"
      BY <1>4, <2>1
    <2>4. /\ FailedRow(old, code) \in MessageRow
          /\ FailedRow(old, code).sync = old.sync
          /\ RowShape(FailedRow(old, code))
      BY <1>1, <2>3, RowFields DEF RowShape, RetryableCancel
    <2>5. Marked(x, FailedRow(old, code))
      BY <1>2, <2>1, <2>2, <2>4 DEF Marked
    <2> QED
      BY <2>4, <2>5
  <1>7. CASE MarkAmbiguous(x)
    <2>1. PICK code \in {"unclear", "attachment_unclear"} :
            /\ execution[x].phase = code
            /\ Writes(x, AmbiguousRow(old, code))
            /\ execution'[x].phase \in {"idle", "next"}
      BY <1>7, MarkEffects DEF Rests
    <2>2. copies[At(x)] = 1 => old.sync
      BY <1>3, <2>1 DEF SentUnrecorded, InPhase
    <2> HIDE DEF old
    <2>3. AmbiguousRow(old, code) \in MessageRow /\ Marked(x, AmbiguousRow(old, code))
      BY <1>1, <1>2, <1>4, <2>1, <2>2, RowFields DEF Marked, RowShape, RetryableCancel
    <2> QED
      BY <2>3
  <1>8. CASE MarkCancelled(x)
    <2>1. /\ execution[x].phase = "cancelled"
          /\ Writes(x, FailedRow(old, "cancelled"))
          /\ execution'[x].phase \in {"idle", "next"}
      BY <1>8, MarkEffects DEF Rests
    <2>2. ~old.sync
      <3>1. AtWork(x, At(x))
        BY <2>1 DEF AtWork
      <3> QED
        BY <1>3, <2>1, <3>1 DEF HeldRow, RowShape, Executors, InPhase
    <2>3. copies[At(x)] # 1
      BY <1>3, <2>1, <2>2 DEF SentUnrecorded, InPhase
    <2> HIDE DEF old
    <2>4. /\ FailedRow(old, "cancelled") \in MessageRow
          /\ Marked(x, FailedRow(old, "cancelled"))
      BY <1>1, <1>2, <1>4, <2>1, <2>2, <2>3, RowFields DEF Marked, RowShape, RetryableCancel
    <2> QED
      BY <2>4
  <1> QED
    BY <1>5, <1>6, <1>7, <1>8 DEF Marking

LEMMA OnceMarking ==
  ASSUME TypeInv, NEW x \in Executors, NEW m \in Messages, OnceInv(m), Marking(x)
  PROVE  OnceInv(m)'
  <1>1. copies' = copies
    BY DEF Marking, MarkImported, MarkFailed, MarkAmbiguous, MarkCancelled
  <1>2. CASE At(x) = m
    <2>1. PICK r \in MessageRow :
            /\ Writes(x, r) /\ RowShape(r)
            /\ copies[m] = 1 => r.sync
            /\ \/ execution'[x].phase \in {"save", "idle", "next"}
               \/ /\ r.status = "imported" /\ execution'[x].at = m
                  /\ execution'[x].phase \in {"incomplete", "attachment_unclear"}
            /\ Holds(x, m)
      BY <1>2, MarkedRow DEF Marked
    <2>2. /\ Moves(x) /\ row'[m] = r
          /\ \A y \in Executors \ {x} : At(y) = m => ~execution'[y].current
      BY <1>2, <2>1 DEF Writes
    <2>3. HeldRow(x, m)' /\ ReadRow(x, m)'
      BY <2>1, <2>2 DEF HeldRow, ReadRow, AtWork, InPhase
    <2>4. /\ \A y \in Executors \ {x} : ~Holds(y, m)
          /\ copies'[m] <= 1
      BY <1>1, <2>1, HeldByOne DEF OnceInv
    <2> QED
      BY <1>1, <2>1, <2>2, <2>3, <2>4, OneHolder
  <1>3. CASE At(x) # m
    <2>1. \E r \in MessageRow :
            /\ Writes(x, r)
            /\ execution'[x].phase \in {"save", "idle", "next"} \/ execution'[x].at = At(x)
            /\ execution'[x].phase # "reclaim"
      <3>1. /\ MarkImported(x) => Writes(x, ImportedRow(row[At(x)]))
            /\ MarkFailed(x) => \E code \in MessageError : Writes(x, FailedRow(row[At(x)], code))
            /\ MarkAmbiguous(x) =>
                 \E code \in MessageError : Writes(x, AmbiguousRow(row[At(x)], code))
            /\ MarkCancelled(x) => Writes(x, FailedRow(row[At(x)], "cancelled"))
        BY MarkEffects DEF MessageError
      <3>2. \/ execution'[x].phase \in {"save", "idle", "next"}
            \/ /\ execution'[x].at = At(x)
               /\ execution'[x].phase \in {"incomplete", "attachment_unclear"}
        <4>1. \/ Comes(x, "save", At(x)) \/ Comes(x, "incomplete", At(x))
              \/ Comes(x, "attachment_unclear", At(x)) \/ Rests(x)
          BY MarkEffects, Zenon DEF Marking
        <4> QED
          BY <4>1 DEF Comes, Rests
      <3>3. row[At(x)] \in MessageRow
        <4>1. execution[x].phase \notin {"idle", "next"}
          BY DEF Marking, MarkImported, MarkFailed, MarkAmbiguous, MarkCancelled, InPhase
        <4> QED
          BY <4>1 DEF TypeInv, TypeOK, PhaseInv
      <3>4. "cancelled" \in MessageError
        BY DEF MessageError
      <3>5. \E r \in MessageRow : Writes(x, r)
        <4> DEFINE old == row[At(x)]
        <4>1. /\ ImportedRow(old) \in MessageRow
              /\ \A code \in MessageError : /\ FailedRow(old, code) \in MessageRow
                                            /\ AmbiguousRow(old, code) \in MessageRow
          BY <3>3, RowTypes
        <4> HIDE DEF old
        <4> QED
          BY <3>1, <3>4, <4>1, Zenon DEF Marking, old
      <3> QED
        BY <3>2, <3>5
    <2>2. Moves(x) /\ row'[m] = row[m]
      BY <1>3, <2>1 DEF Writes
    <2>3. ~Holds(x, m) /\ ~Holds(x, m)' /\ ReadRow(x, m)'
      BY <1>3, <2>1 DEF Holds, ReadRow, InPhase, At
    <2> QED
      BY <1>1, <2>2, <2>3, Elsewhere
  <1> QED
    BY <1>2, <1>3

\* A row that ages is in nobody's hand, or the delivery outlasted it; and what has
\* been read to be taken over is not young.
LEMMA OnceAging ==
  ASSUME TypeInv, NEW n \in Messages, NEW m \in Messages \ doubtful', OnceInv(m), Aging(n)
  PROVE  OnceInv(m)'
  <1>1. /\ execution' = execution /\ copies' = copies
        /\ row[n].fresh /\ row' = [row EXCEPT ![n].fresh = FALSE]
        /\ row[m] \in MessageRow
    BY DEF Aging, GrowsStale, Outlasted, Aged, TypeInv, TypeOK
  <1>2. /\ \A x \in Executors : Holds(x, m)' <=> Holds(x, m)
        /\ \A x \in Executors : SentHere(x, m)' <=> SentHere(x, m)
    BY <1>1 DEF Holds, SentHere, SentUnrecorded, InPhase, At
  <1>3. CASE n # m
    <2>1. row'[m] = row[m]
      BY <1>1, <1>3 DEF TypeInv, TypeOK
    <2>2. \A x \in Executors : /\ HeldRow(x, m) => HeldRow(x, m)'
                               /\ ReadRow(x, m)'
      BY <1>1, <2>1 DEF OnceInv, HeldRow, ReadRow, AtWork, InPhase, At
    <2> QED
      BY <1>1, <1>2, <2>1, <2>2 DEF OnceInv
  <1>4. CASE n = m
    <2>1. ~\E x \in Executors : AtWork(x, m)
      BY <1>4 DEF Aging, Outlasted, GrowsStale
    <2>2. /\ row'[m].status = row[m].status /\ row'[m].sync = row[m].sync
          /\ row'[m].error = row[m].error /\ ~row'[m].fresh
      BY <1>1, <1>4 DEF TypeInv, TypeOK, MessageRow
    <2>3. RowShape(row'[m])
      BY <2>2 DEF OnceInv, RowShape, RetryableCancel
    <2>4. ASSUME NEW x \in Executors, Holds(x, m) PROVE HeldRow(x, m)'
      BY <1>1, <2>1, <2>2, <2>4 DEF OnceInv, HeldRow, AtWork, InPhase, At
    <2>5. ASSUME NEW x \in Executors PROVE ReadRow(x, m)'
      <3>1. Reclaimable(row[m]) => FALSE
        BY <1>1, <1>4 DEF OnceInv, RowShape, Reclaimable, Stale, RetryableAmbiguous, RetryableCancel
      <3> QED
        BY <1>1, <3>1 DEF OnceInv, ReadRow, InPhase, At
    <2> QED
      BY <1>1, <1>2, <2>2, <2>3, <2>4, <2>5 DEF OnceInv
  <1> QED
    BY <1>3, <1>4

LEMMA SendInvStep == TypeInv /\ SendInv /\ [Next]_vars => SendInv'
  <1> SUFFICES ASSUME TypeInv, SendInv, [Next]_vars, NEW m \in Messages \ doubtful'
               PROVE  OnceInv(m)'
    BY DEF SendInv
  <1>1. OnceInv(m) /\ m \in Messages
    BY DoubtGrows DEF SendInv
  <1>2. TypeInv'
    BY TypeInvStep
  <1>3. CASE UNCHANGED vars
    BY <1>1, <1>3 DEF vars, OnceInv, Holds, HeldRow, ReadRow, SentHere, SentUnrecorded,
                      AtWork, InPhase, At
  <1>4. ASSUME NEW n \in Messages, Aging(n) PROVE OnceInv(m)'
    BY <1>1, <1>4, OnceAging
  <1>5. ASSUME NEW x \in Executors, Quiet(x) PROVE OnceInv(m)'
    BY <1>1, <1>5, OnceQuiet
  <1>6. ASSUME NEW x \in Executors, Delivering(x) PROVE OnceInv(m)'
    BY <1>1, <1>6, OnceDelivering
  <1>7. ASSUME NEW x \in Executors, Marking(x) PROVE OnceInv(m)'
    BY <1>1, <1>7, OnceMarking
  <1>8. ASSUME NEW x \in Executors, NextMessage(x) PROVE OnceInv(m)'
    BY <1>1, <1>8, OnceRead
  <1>9. ASSUME NEW x \in Executors, Claim(x) PROVE OnceInv(m)'
    BY <1>1, <1>2, <1>9, OnceClaim
  <1>10. ASSUME NEW x \in Executors, Reclaim(x) PROVE OnceInv(m)'
    BY <1>1, <1>2, <1>10, OnceReclaim
  <1>11. ASSUME NEW x \in Executors, TakeFailed(x) PROVE OnceInv(m)'
    BY <1>1, <1>11, OnceTakeFailed
  <1>12. ASSUME NEW x \in Executors, PartArrives(x) PROVE OnceInv(m)'
    <2>1. At(x) # m /\ At(x) \in Messages /\ UNCHANGED <<row, execution>>
      BY <1>12 DEF PartArrives, InPhase, TypeInv, PhaseInv
    <2>2. copies'[m] = copies[m]
      BY <1>12, <2>1 DEF PartArrives, Arrives, TypeInv, TypeOK
    <2> QED
      BY <1>1, <2>1, <2>2 DEF OnceInv, Holds, HeldRow, ReadRow, SentHere, SentUnrecorded,
                              AtWork, InPhase, At
  <1> QED
    BY <1>3, <1>4, <1>5, <1>6, <1>7, <1>8, <1>9, <1>10, <1>11, <1>12, Kinds

\* However executions of the backfill and of /retry_failed overlap, end and start
\* again, a message is sent once unless a fault or a replay that met another
\* execution made it doubtful.
THEOREM MessagesAreSentOnce == Spec => []SentOnce
  <1>1. SendInv => SentOnce
    BY DEF SendInv, OnceInv, SentOnce
  <1> QED
    BY TypeInvInit, TypeInvStep, SendInvInit, SendInvStep, <1>1, PTL DEF Spec

-----------------------------------------------------------------------------
(* Nothing is lost behind the checkpoint.                                  *)

\* The row tells what became of the message.
Accounted(m) == SettledRow(row[m]) \/ row[m].sync

Behind(m) == m <= checkpoint \/ \E x \in Backfills : PassedBy(x, m)

\* The strengthening: it holds of what any execution has passed, for each of them may
\* save its checkpoint later; and an ambiguous send that nobody has to doubt is one of
\* an attachment alone.
SettledInv ==
  /\ \A m \in Messages : Behind(m) => m \in Skipped \cup doubtful \/ Accounted(m)
  /\ \A x \in Executors :
        InPhase(x, "unclear") => At(x) \in doubtful \/ execution[x].reuse

LEMMA SettledInvInit == Init => SettledInv
  BY DEF Init, SettledInv, Behind, PassedBy, Messages, Executors, IdleExecution, InPhase, At

\* Where a mark leaves a backfill.
LEMMA MarkPlaces ==
  ASSUME TypeInv, NEW x \in Backfills, Marking(x)
  PROVE  \/ execution'[x].phase = "idle" /\ execution'[x].at = 0
         \/ Comes(x, "save", At(x)) /\ (MarkImported(x) \/ MarkFailed(x))
         \/ /\ execution'[x].at = At(x)
            /\ execution'[x].phase \in {"incomplete", "attachment_unclear"}
  <1>0. x \in Executors /\ execution[x] \in Execution
    BY DEF Executors, TypeInv, TypeOK
  <1>1. \A r, e : Write(x, r, e) => execution'[x] = e
    BY <1>0 DEF Write
  <1>2. ASSUME NEW f \in BOOLEAN
        PROVE  Settled(x, f).phase = "save" /\ Settled(x, f).at = At(x)
    <2> DEFINE g == execution[x].failed \/ f
    <2>1. Settled(x, f) =
            [execution[x] EXCEPT !.phase = "save", !.failed = g, !.current = TRUE,
                                 !.reuse = FALSE, !.outcome = "ok"]
      BY DEF Settled
    <2> HIDE DEF g
    <2> QED
      BY <1>0, <2>1 DEF Execution, At
  <1>3. IdleExecution.phase = "idle" /\ IdleExecution.at = 0 /\ Unsettled(x) = IdleExecution
    BY DEF IdleExecution, Unsettled
  <1>4. CASE MarkImported(x)
    <2>1. CASE execution[x].outcome = "ok"
      <3>1. execution'[x] = Settled(x, FALSE)
        BY <1>1, <1>4, <2>1 DEF MarkImported
      <3> QED
        BY <1>2, <1>4, <3>1 DEF Comes
    <2>2. ASSUME NEW phase \in {"incomplete", "attachment_unclear"},
                 execution'[x] = [execution[x] EXCEPT !.phase = phase, !.outcome = "ok"]
          PROVE  execution'[x].at = At(x) /\ execution'[x].phase = phase
      BY <1>0, <2>2 DEF Execution, At
    <2>3. CASE execution[x].outcome # "ok"
      <3>1. PICK phase \in {"incomplete", "attachment_unclear"} :
              execution'[x] = [execution[x] EXCEPT !.phase = phase, !.outcome = "ok"]
        BY <1>0, <1>1, <1>4, <2>3 DEF MarkImported, Execution, Attachment
      <3> QED
        BY <2>2, <3>1
    <2> QED
      BY <2>1, <2>3
  <1>5. CASE MarkFailed(x)
    <2>1. execution'[x] = Settled(x, TRUE)
      BY <1>1, <1>5 DEF MarkFailed
    <2> QED
      BY <1>2, <1>5, <2>1 DEF Comes
  <1>6. CASE MarkAmbiguous(x) \/ MarkCancelled(x)
    <2>1. execution'[x] = IdleExecution
      BY <1>1, <1>3, <1>6 DEF MarkAmbiguous, MarkCancelled
    <2> QED
      BY <1>3, <2>1
  <1> QED
    BY <1>4, <1>5, <1>6 DEF Marking

\* A claim that is given up ends the execution.
LEMMA ClaimEnds ==
  ASSUME TypeInv, NEW x \in Executors, Claim(x) \/ Reclaim(x), Rests(x)
  PROVE  execution'[x] = IdleExecution
  <1>1. execution[x] \in Execution /\ execution'[x].phase \in {"idle", "next"}
    BY DEF TypeInv, TypeOK, Rests
  <1>2. \A e : Becomes(x, e) => execution'[x] = e
    BY DEF TypeInv, TypeOK, Becomes
  <1>3. \A r, e : Write(x, r, e) => execution'[x] = e
    BY DEF Write
  <1>4. \/ execution'[x] = IdleExecution
        \/ execution'[x] = [execution[x] EXCEPT !.phase = "send", !.reuse = FALSE]
        \/ execution'[x] = [execution[x] EXCEPT !.phase = "reclaim", !.seen = row[At(x)],
                                                !.current = TRUE]
        \/ execution'[x] = [execution[x] EXCEPT !.phase = "save", !.current = TRUE]
        \/ execution'[x] = [execution[x] EXCEPT !.phase = "send", !.reuse = FALSE,
                                                !.seen = NoRow, !.current = FALSE]
    <2>1. CASE Claim(x)
      BY <1>2, <1>3, <2>1 DEF Claim, Ends
    <2>2. CASE Reclaim(x)
      BY <1>2, <1>3, <2>2 DEF Reclaim, Ends
    <2> QED
      BY <2>1, <2>2
  <1>5. DOMAIN execution[x] =
          {"phase", "at", "failed", "seen", "current", "reuse", "outcome", "todo"}
    BY <1>1 DEF Execution
  <1>6. CASE execution'[x] = [execution[x] EXCEPT !.phase = "send", !.reuse = FALSE]
    BY <1>1, <1>5, <1>6
  <1>7. CASE execution'[x] = [execution[x] EXCEPT !.phase = "reclaim", !.seen = row[At(x)],
                                                  !.current = TRUE]
    BY <1>1, <1>5, <1>7
  <1>8. CASE execution'[x] = [execution[x] EXCEPT !.phase = "save", !.current = TRUE]
    BY <1>1, <1>5, <1>8
  <1>9. CASE execution'[x] = [execution[x] EXCEPT !.phase = "send", !.reuse = FALSE,
                                                  !.seen = NoRow, !.current = FALSE]
    BY <1>1, <1>5, <1>9
  <1> QED
    BY <1>4, <1>6, <1>7, <1>8, <1>9

\* What is accounted for stays so: a mark never takes away that the message is in the
\* chat, and a row is taken over only ahead of every execution, or with doubt.
LEMMA AccountedStays ==
  ASSUME TypeInv, SendInv, SettledInv, [Next]_vars,
         NEW m \in Messages \ doubtful', Behind(m), Accounted(m)
  PROVE  Accounted(m)'
  <1>0. m \in Messages \ doubtful /\ OnceInv(m) /\ row[m] \in MessageRow
    BY DoubtGrows DEF SendInv, TypeInv, TypeOK
  <1>1. ASSUME row'[m] = row[m] PROVE Accounted(m)'
    BY <1>1 DEF Accounted
  <1>2. ASSUME NEW x \in Executors,
               \/ Quiet(x) \/ Delivering(x) \/ NextMessage(x) \/ TakeFailed(x)
               \/ PartArrives(x)
        PROVE  row' = row
    BY <1>2 DEF Quiet, Delivering, NextMessage, TakeFailed, PartArrives, SendAnswered,
                SendRefused, SendUnanswered, AttachmentBlocks, DeliverReturns, Cancel
  <1>3. ASSUME NEW n \in Messages, Aging(n) PROVE Accounted(m)'
    <2>1. row' = [row EXCEPT ![n].fresh = FALSE]
      BY <1>3 DEF Aging, GrowsStale, Outlasted, Aged
    <2>2. row'[m].status = row[m].status /\ row'[m].sync = row[m].sync
      BY <1>0, <2>1 DEF TypeInv, TypeOK, MessageRow
    <2> QED
      BY <2>2 DEF Accounted, SettledRow
  <1>4. ASSUME NEW x \in Executors, Marking(x) PROVE Accounted(m)'
    <2>1. CASE At(x) # m
      <3>1. PICK r : Writes(x, r)
        BY <1>4, MarkEffects DEF Marking
      <3> QED
        BY <1>0, <1>1, <2>1, <3>1 DEF Writes
    <2>2. CASE At(x) = m /\ MarkImported(x)
      <3>1. row'[m] = ImportedRow(row[m])
        BY <1>0, <2>2, MarkEffects DEF Writes
      <3> QED
        BY <3>1 DEF Accounted, SettledRow, ImportedRow
    <2>3. CASE At(x) = m /\ (MarkFailed(x) \/ MarkCancelled(x))
      <3>1. PICK code \in MessageError : row'[m] = FailedRow(row[m], code)
        BY <1>0, <2>3, MarkEffects DEF Writes, MessageError
      <3>2. row'[m].status = "failed"
        BY <1>0, <3>1, RowFields
      <3> QED
        BY <3>2 DEF Accounted, SettledRow
    <2>4. CASE At(x) = m /\ MarkAmbiguous(x)
      <3>1. PICK code \in {"unclear", "attachment_unclear"} :
              execution[x].phase = code /\ row'[m] = AmbiguousRow(row[m], code)
        BY <1>0, <2>4, MarkEffects DEF Writes
      <3>2. row'[m].sync = row[m].sync
        BY <1>0, <3>1, RowFields DEF MessageError
      <3>3. HeldRow(x, m)
        BY <1>0, <2>4, <3>1 DEF OnceInv, Holds
      <3>4. CASE code = "attachment_unclear"
        BY <1>0, <3>1, <3>2, <3>3, <3>4 DEF HeldRow, OnceInv, RowShape, Accounted
      <3>5. CASE code = "unclear"
        <4>1. execution[x].reuse /\ AtWork(x, m)
          BY <1>0, <2>4, <3>1, <3>5 DEF SettledInv, InPhase, AtWork
        <4>2. row[m].sync
          BY <3>3, <4>1 DEF HeldRow, Executors
        <4> QED
          BY <3>2, <4>2 DEF Accounted
      <3> QED
        BY <3>4, <3>5
    <2> QED
      BY <1>4, <2>1, <2>2, <2>3, <2>4 DEF Marking
  <1>5. ASSUME NEW x \in Executors, Claim(x) PROVE Accounted(m)'
    <2>1. row[m].status # "absent"
      BY <1>0 DEF Accounted, SettledRow, OnceInv, RowShape
    <2>2. row'[m] = row[m]
      BY <1>5, <2>1, ClaimEffect DEF Writes
    <2> QED
      BY <1>1, <2>2
  <1>6. ASSUME NEW x \in Executors, Reclaim(x) PROVE Accounted(m)'
    <2>1. CASE row'[m] = row[m]
      BY <1>1, <2>1
    <2>2. CASE row'[m] # row[m]
      <3>1. /\ At(x) = m /\ MayReclaim(execution[x]) /\ x \in Backfills
            /\ ~TakenRegardless(x)
        BY <1>0, <1>6, <2>2, ReclaimEffect DEF Writes, DoubtIf
      <3>2. ~RetryableCancel(execution[x].seen)
        BY <3>1 DEF TakenRegardless, Behind
      <3>3. execution[x].current /\ InPhase(x, "reclaim")
        BY <1>6, <3>1, <3>2 DEF MayReclaim, Reclaim
      <3>4. Reclaimable(row[m]) /\ ~RetryableCancel(row[m])
        BY <1>0, <3>1, <3>2, <3>3 DEF OnceInv, ReadRow
      <3>5. ~Accounted(m)
        BY <1>0, <3>4
           DEF Reclaimable, Stale, RetryableAmbiguous, OnceInv, RowShape, Accounted,
               SettledRow
      <3> QED
        BY <3>5
    <2> QED
      BY <2>1, <2>2
  <1>7. CASE UNCHANGED vars
    BY <1>1, <1>7 DEF vars
  <1> QED
    BY <1>1, <1>2, <1>3, <1>4, <1>5, <1>6, <1>7, Kinds

\* What an execution passes is accounted for at that moment.
LEMMA PassedAccounted ==
  ASSUME TypeInv, [Next]_vars, NEW m \in Messages \ Skipped, ~Behind(m), Behind(m)'
  PROVE  Accounted(m)'
  <1>0. m \in Nat /\ m > 0 /\ checkpoint \in Nat
    BY DeliveryAssumption DEF Messages, TypeInv, TypeOK
  <1>1. Backfills \subseteq Executors
    BY DEF Executors
  <1>2. \A x \in Executors : At(x) \in Nat
    BY DeliveryAssumption DEF TypeInv, TypeOK, Execution, At
  <1>3. ASSUME NEW x \in Executors, Moves(x), checkpoint' = checkpoint,
               x \in Backfills /\ PassedBy(x, m)' => PassedBy(x, m) \/ m <= checkpoint
        PROVE  FALSE
    <2>1. \A y \in Backfills \ {x} : PassedBy(y, m)' <=> PassedBy(y, m)
      BY <1>1, <1>3 DEF Moves, PassedBy, At
    <2> QED
      BY <1>3, <2>1 DEF Behind
  <1>4. ASSUME NEW x \in Executors, Moves(x), checkpoint' = checkpoint,
               execution'[x].at = At(x),
               execution'[x].phase \notin {"save", "next"}
        PROVE  FALSE
    BY <1>3, <1>4 DEF PassedBy, At
  <1>5. ASSUME NEW x \in Executors, Moves(x), checkpoint' = checkpoint, x \notin Backfills
        PROVE  FALSE
    BY <1>3, <1>5
  <1>6. ASSUME NEW x \in Executors, Moves(x), checkpoint' = checkpoint,
               execution'[x].at = 0
        PROVE  FALSE
    BY <1>0, <1>3, <1>6 DEF PassedBy, At
  <1>7. ASSUME NEW x \in Executors, Moves(x), checkpoint' = checkpoint,
               Comes(x, "save", At(x)), SettledRow(row'[At(x)])
        PROVE  Accounted(m)'
    <2>1. PassedBy(x, m)' => PassedBy(x, m) \/ m = At(x)
      BY <1>7 DEF PassedBy, Comes, At
    <2> QED
      BY <1>3, <1>7, <2>1 DEF Accounted
  <1>8. ASSUME NEW x \in Executors, Claim(x) PROVE Accounted(m)'
    <2>1. checkpoint' = checkpoint
      BY <1>8 DEF Claim
    <2>2. CASE Rests(x)
      <3>1. execution'[x] = IdleExecution
        BY <1>8, <2>2, ClaimEnds
      <3> QED
        BY <1>6, <2>1, <2>2, <3>1 DEF Rests, IdleExecution
    <2> QED
      BY <1>4, <1>7, <1>8, <2>1, <2>2, ClaimEffect DEF Comes, Writes
  <1>9. ASSUME NEW x \in Executors, Reclaim(x) PROVE FALSE
    <2>1. checkpoint' = checkpoint
      BY <1>9 DEF Reclaim
    <2>2. CASE Comes(x, "send", At(x)) /\ Moves(x)
      BY <1>4, <2>1, <2>2 DEF Comes
    <2>3. CASE Rests(x)
      <3>1. execution'[x] = IdleExecution
        BY <1>9, <2>3, ClaimEnds
      <3> QED
        BY <1>6, <2>1, <2>3, <3>1 DEF Rests, IdleExecution
    <2> QED
      BY <1>9, <2>2, <2>3, ReclaimEffect DEF Writes
  <1>10. ASSUME NEW x \in Executors, NextMessage(x) PROVE FALSE
    <2>1. checkpoint' = checkpoint /\ execution[x].phase = "next"
      BY <1>10 DEF NextMessage, InPhase
    <2>2. /\ Moves(x)
          /\ Comes(x, IF At(x) + 1 \in Skipped THEN "save" ELSE "claim", At(x) + 1)
      BY <1>10, NextMessageEffect
    <2>3. PassedBy(x, m)' => PassedBy(x, m)
      BY <1>0, <1>2, <2>1, <2>2 DEF PassedBy, Comes, At
    <2> QED
      BY <1>3, <2>1, <2>2, <2>3
  <1>11. ASSUME NEW x \in Executors, Delivering(x) PROVE FALSE
    <2>1. checkpoint' = checkpoint
      BY <1>11 DEF Delivering, SendAnswered, SendRefused, SendUnanswered, AttachmentBlocks,
                   DeliverReturns, Cancel
    <2>2. PICK p \in {"sent", "failing", "unclear", "imported", "cancelled"} :
            Moves(x) /\ Comes(x, p, At(x))
      BY <1>11, DeliverEffects DEF Delivering
    <2> QED
      BY <1>4, <2>1, <2>2 DEF Comes
  <1>12. ASSUME NEW x \in Executors, Marking(x) PROVE Accounted(m)'
    <2>1. checkpoint' = checkpoint
      BY <1>12 DEF Marking, MarkImported, MarkFailed, MarkAmbiguous, MarkCancelled
    <2>2. Moves(x)
      BY <1>12, MarkEffects DEF Marking, Writes
    <2>3. CASE x \in Backfills /\ Comes(x, "save", At(x)) /\ (MarkImported(x) \/ MarkFailed(x))
      <3>1. At(x) \in Messages /\ row[At(x)] \in MessageRow
        BY <2>3 DEF MarkImported, MarkFailed, InPhase, TypeInv, TypeOK, PhaseInv
      <3>2. \/ row'[At(x)] = ImportedRow(row[At(x)])
            \/ \E code \in MessageError : row'[At(x)] = FailedRow(row[At(x)], code)
        BY <2>3, <3>1, MarkEffects DEF Writes, MessageError
      <3>3. SettledRow(row'[At(x)])
        BY <3>1, <3>2, RowFields DEF SettledRow, MessageError
      <3> QED
        BY <1>7, <2>1, <2>2, <2>3, <3>3
    <2> QED
      BY <1>4, <1>5, <1>6, <1>12, <2>1, <2>2, <2>3, MarkPlaces
  <1>13. ASSUME NEW x \in Executors, SaveCheckpoint(x) PROVE FALSE
    <2>1. /\ checkpoint' = At(x) /\ execution[x].phase = "save"
          /\ Becomes(x, [execution[x] EXCEPT !.phase = "next", !.current = FALSE])
      BY <1>13 DEF SaveCheckpoint, InPhase
    <2>2. x \in Backfills
      BY <2>1 DEF TypeInv, PhaseInv
    <2>3. execution'[x].at = At(x) /\ \A y \in Executors \ {x} : execution'[y] = execution[y]
      BY <2>1 DEF Becomes, TypeInv, TypeOK, Execution, At
    <2>4. \A y \in Backfills : PassedBy(y, m)' => PassedBy(y, m) \/ PassedBy(x, m)
      BY <1>1, <2>1, <2>3 DEF PassedBy, At
    <2>5. m <= At(x) => PassedBy(x, m)
      BY <1>0, <1>2, <2>1 DEF PassedBy
    <2> QED
      BY <2>1, <2>2, <2>4, <2>5 DEF Behind
  <1>14. ASSUME NEW x \in Executors, StartBackfill(x) PROVE FALSE
    <2>1. execution'[x].at = checkpoint /\ checkpoint' = checkpoint /\ Moves(x)
      BY <1>14, RestEffects
         DEF StartBackfill, Becomes, IdleExecution, TypeInv, TypeOK, Rests
    <2>2. PassedBy(x, m)' => m <= checkpoint
      BY <1>0, <2>1 DEF PassedBy, At
    <2> QED
      BY <1>3, <2>1, <2>2
  <1>15. ASSUME NEW x \in Executors, FinishBackfill(x) \/ Die(x) PROVE FALSE
    <2>1. execution'[x].at = 0 /\ checkpoint' = checkpoint /\ Moves(x)
      BY <1>15, RestEffects DEF FinishBackfill, Die, Ends, Becomes, IdleExecution, TypeInv,
                                TypeOK, Rests
    <2> QED
      BY <1>6, <2>1
  <1>16. ASSUME NEW x \in Executors,
                StartReplay(x) \/ TakeFailed(x) \/ FinishReplay(x)
         PROVE  FALSE
    <2>1. x \notin Backfills /\ checkpoint' = checkpoint
      BY <1>16, DeliveryAssumption DEF StartReplay, TakeFailed, FinishReplay
    <2>2. Moves(x)
      BY <1>16, RestEffects, TakeFailedEffect DEF Rests
    <2> QED
      BY <1>5, <2>1, <2>2
  <1>17. ASSUME execution' = execution, checkpoint' = checkpoint PROVE FALSE
    BY <1>17 DEF Behind, PassedBy, InPhase, At
  <1> QED
    BY <1>8, <1>9, <1>10, <1>11, <1>12, <1>13, <1>14, <1>15, <1>16, <1>17
       DEF Next, BackfillStep, ReplayStep, DeliveryStep, FaultStep, Executors, Delivering,
           Marking, PartArrives, GrowsStale, Outlasted, vars

LEMMA SettledInvStep == TypeInv /\ SendInv /\ SettledInv /\ [Next]_vars => SettledInv'
  <1> SUFFICES ASSUME TypeInv, SendInv, SettledInv, [Next]_vars PROVE SettledInv'
    OBVIOUS
  <1>1. ASSUME NEW m \in Messages, Behind(m)'
        PROVE  m \in Skipped \cup doubtful' \/ Accounted(m)'
    BY <1>1, AccountedStays, PassedAccounted, DoubtGrows DEF SettledInv
  <1>2. ASSUME NEW x \in Executors, Moves(x),
               InPhase(x, "unclear")' => At(x)' \in doubtful' \/ execution'[x].reuse,
               NEW y \in Executors, InPhase(y, "unclear")'
        PROVE  At(y)' \in doubtful' \/ execution'[y].reuse
    BY <1>2, DoubtGrows DEF SettledInv, Moves, InPhase, At
  <1>3. ASSUME NEW x \in Executors, Moves(x), execution'[x].phase # "unclear",
               NEW y \in Executors, InPhase(y, "unclear")'
        PROVE  At(y)' \in doubtful' \/ execution'[y].reuse
    BY <1>2, <1>3 DEF InPhase
  <1>4. ASSUME NEW y \in Executors, InPhase(y, "unclear")'
        PROVE  At(y)' \in doubtful' \/ execution'[y].reuse
    <2>1. ASSUME NEW x \in Executors, Quiet(x) \/ Marking(x)
          PROVE  At(y)' \in doubtful' \/ execution'[y].reuse
      BY <1>3, <1>4, <2>1, MarkEffects DEF Quiet, Rests, Marking, Comes, Writes
    <2>2. ASSUME NEW x \in Executors,
                 NextMessage(x) \/ Claim(x) \/ Reclaim(x) \/ TakeFailed(x)
          PROVE  At(y)' \in doubtful' \/ execution'[y].reuse
      BY <1>3, <1>4, <2>2, NextMessageEffect, ClaimEffect, ReclaimEffect, TakeFailedEffect
         DEF Rests, Comes, Writes
    <2>3. ASSUME NEW x \in Executors, Delivering(x)
          PROVE  At(y)' \in doubtful' \/ execution'[y].reuse
      <3>1. CASE SendUnanswered(x) \/ AttachmentBlocks(x)
        <4>1. /\ Moves(x) /\ Comes(x, "unclear", At(x))
              /\ execution'[x].reuse = execution[x].reuse
          BY <3>1, DeliverEffects
        <4>2. At(x) \in doubtful' \/ execution[x].reuse
          BY <3>1 DEF SendUnanswered, AttachmentBlocks, DoubtIf
        <4> QED
          BY <1>2, <1>4, <4>1, <4>2 DEF Comes, At
      <3>2. CASE ~(SendUnanswered(x) \/ AttachmentBlocks(x))
        <4>1. PICK p \in {"sent", "failing", "imported", "cancelled"} :
                Moves(x) /\ Comes(x, p, At(x))
          BY <2>3, <3>2, DeliverEffects DEF Delivering
        <4> QED
          BY <1>3, <1>4, <4>1 DEF Comes
      <3> QED
        BY <3>1, <3>2
    <2>4. CASE execution' = execution
      BY <1>4, <2>4, DoubtGrows DEF SettledInv, InPhase, At
    <2> QED
      BY <2>1, <2>2, <2>3, <2>4, Kinds DEF vars, PartArrives, Aging, GrowsStale, Outlasted
  <1> QED
    BY <1>1, <1>4 DEF SettledInv

\* However executions overlap, set the checkpoint back, end and start again: what
\* the checkpoint has passed is delivered, listed as failed, or known to be in the
\* chat, unless a fault or a take-over without a check made it doubtful.
THEOREM CheckpointLosesNothing == Spec => []PassedIsSettled
  <1>1. SettledInv /\ TypeInv => PassedIsSettled
    BY DeliveryAssumption
       DEF SettledInv, Behind, Accounted, PassedIsSettled, Messages, TypeInv, TypeOK
  <1> QED
    BY TypeInvInit, TypeInvStep, SendInvInit, SendInvStep, SettledInvInit, SettledInvStep,
       <1>1, PTL DEF Spec

-----------------------------------------------------------------------------
(* Messages come in the order of the source chat.                          *)

Tried(m) == row[m].status # "absent"

TriedUpTo(k) == \A m \in 1 .. k : m \in Skipped \/ Tried(m)

\* The strengthening: everything before an execution, before the checkpoint and before
\* a row has a row, and what is sent has one from the claim on.
OrderInv ==
  /\ TriedUpTo(checkpoint)
  /\ \A x \in Backfills : TriedUpTo(IF InPhase(x, "claim") THEN At(x) - 1 ELSE At(x))
  /\ \A x \in Executors :
        execution[x].phase \notin {"idle", "next", "claim", "save"} => Tried(At(x))
  /\ \A m \in Messages : Tried(m) => TriedUpTo(m)
  /\ \A m \in Messages : copies[m] > 0 => Tried(m)

LEMMA OrderInvInit == Init => OrderInv
  BY DEF Init, OrderInv, TriedUpTo, Tried, NoRow, Executors, IdleExecution, InPhase, At

\* A message gets its row when it is claimed, and no row goes away.
LEMMA TriedSteps ==
  ASSUME TypeInv, OrderInv, [Next]_vars, NEW m \in Messages
  PROVE  /\ Tried(m) => Tried(m)'
         /\ Tried(m)' => Tried(m) \/ \E x \in Backfills : Claim(x) /\ At(x) = m
  <1>0. row[m] \in MessageRow
    BY DEF TypeInv, TypeOK
  <1>1. ASSUME row'[m] = row[m] PROVE Tried(m)' <=> Tried(m)
    BY <1>1 DEF Tried
  <1>2. ASSUME NEW x \in Executors,
               \/ Quiet(x) \/ Delivering(x) \/ NextMessage(x) \/ TakeFailed(x)
               \/ PartArrives(x)
        PROVE  row' = row
    BY <1>2 DEF Quiet, Delivering, NextMessage, TakeFailed, PartArrives, SendAnswered,
                SendRefused, SendUnanswered, AttachmentBlocks, DeliverReturns, Cancel
  <1>3. ASSUME NEW n \in Messages, Aging(n) PROVE Tried(m)' <=> Tried(m)
    <2>1. row' = [row EXCEPT ![n].fresh = FALSE]
      BY <1>3 DEF Aging, GrowsStale, Outlasted, Aged
    <2>2. row'[m].status = row[m].status
      BY <1>0, <2>1 DEF TypeInv, TypeOK, MessageRow
    <2> QED
      BY <2>2 DEF Tried
  <1>4. ASSUME NEW x \in Executors, Marking(x)
        PROVE  At(x) = m => Tried(m) /\ Tried(m)'
    <2>1. CASE At(x) = m
      <3>1. Tried(m)
        BY <1>4, <2>1 DEF Marking, MarkImported, MarkFailed, MarkAmbiguous, MarkCancelled,
                          InPhase, OrderInv
      <3>2. \/ row'[m] = ImportedRow(row[m])
            \/ \E code \in MessageError : \/ row'[m] = FailedRow(row[m], code)
                                          \/ row'[m] = AmbiguousRow(row[m], code)
        BY <1>4, <2>1, MarkEffects DEF Marking, Writes, MessageError
      <3>3. row'[m].status # "absent"
        BY <1>0, <3>2, RowFields DEF MessageError
      <3> QED
        BY <3>1, <3>3 DEF Tried
    <2> QED
      BY <2>1
  <1>5. ASSUME NEW x \in Executors, Marking(x) PROVE At(x) # m => row'[m] = row[m]
    BY <1>5, MarkEffects DEF Marking, Writes
  <1>6. ASSUME NEW x \in Executors, Claim(x)
        PROVE  (At(x) = m /\ x \in Backfills /\ Tried(m)') \/ row'[m] = row[m]
    BY <1>6, ClaimEffect DEF Writes, Tried, ClaimedRow
  <1>7. ASSUME NEW x \in Executors, Reclaim(x)
        PROVE  (At(x) = m /\ Tried(m) /\ Tried(m)') \/ row'[m] = row[m]
    <2>1. At(x) = m => Tried(m)
      BY <1>7 DEF OrderInv, Reclaim, InPhase
    <2> QED
      BY <1>7, <2>1, ReclaimEffect DEF Writes, Tried, ClaimedRow
  <1>8. CASE UNCHANGED vars
    BY <1>1, <1>8 DEF vars
  <1> QED
    BY <1>1, <1>2, <1>3, <1>4, <1>5, <1>6, <1>7, <1>8, Kinds

LEMMA OrderInvStep == TypeInv /\ OrderInv /\ [Next]_vars => OrderInv'
  <1> SUFFICES ASSUME TypeInv, OrderInv, [Next]_vars PROVE OrderInv'
    OBVIOUS
  <1>0. /\ checkpoint \in 0 .. LastMessage /\ LastMessage \in Nat
        /\ \A x \in Executors : At(x) \in 0 .. LastMessage /\ execution[x] \in Execution
        /\ Backfills \subseteq Executors
    BY DeliveryAssumption DEF TypeInv, TypeOK, Execution, At, Executors
  <1>1. \A m \in Messages : Tried(m) => Tried(m)'
    BY TriedSteps
  <1>2. \A k \in 0 .. LastMessage : TriedUpTo(k) => TriedUpTo(k)'
    BY <1>0, <1>1 DEF TriedUpTo, Messages
  <1>3. ASSUME NEW m \in Messages, Tried(m)' PROVE TriedUpTo(m)'
    <2>1. CASE Tried(m)
      BY <1>0, <1>2, <2>1 DEF OrderInv, Messages
    <2>2. ASSUME NEW x \in Backfills, Claim(x), At(x) = m PROVE TriedUpTo(m)'
      <3>1. TriedUpTo(m - 1)'
        BY <1>0, <1>2, <2>2 DEF Claim, OrderInv, Messages
      <3> QED
        BY <1>0, <1>3, <3>1 DEF TriedUpTo, Messages
    <2> QED
      BY <1>3, <2>1, <2>2, TriedSteps
  <1>4. ASSUME NEW m \in Messages, copies'[m] > 0 PROVE Tried(m)'
    <2>1. CASE copies'[m] = copies[m]
      BY <1>1, <1>4, <2>1 DEF OrderInv
    <2>2. ASSUME NEW x \in Executors,
                 SendAnswered(x) \/ PartArrives(x) \/ SendUnanswered(x),
                 copies'[m] # copies[m]
          PROVE  Tried(m)
      <3>1. InPhase(x, "send") /\ (copies' = copies \/ Arrives(At(x)))
        BY <2>2 DEF SendAnswered, PartArrives, SendUnanswered
      <3>2. At(x) = m
        BY <2>2, <3>1 DEF Arrives, TypeInv, TypeOK
      <3> QED
        BY <3>1, <3>2 DEF OrderInv, InPhase
    <2>3. \/ copies' = copies
          \/ \E x \in Executors : SendAnswered(x) \/ PartArrives(x) \/ SendUnanswered(x)
      BY DEF Next, vars, BackfillStep, ReplayStep, DeliveryStep, FaultStep,
         StartBackfill, NextMessage, Claim, Reclaim, SaveCheckpoint, FinishBackfill,
         StartReplay, TakeFailed, FinishReplay, SendRefused, AttachmentBlocks,
         DeliverReturns, MarkImported, MarkFailed, MarkAmbiguous, MarkCancelled,
         Cancel, Die, GrowsStale, Outlasted
    <2> QED
      BY <1>1, <2>1, <2>2, <2>3
  <1> DEFINE Tries(x) == execution[x].phase \notin {"idle", "next", "claim", "save"}
             Place(x) == IF InPhase(x, "claim") THEN At(x) - 1 ELSE At(x)
             After(k) == \A m \in 1 .. k : m \in Skipped \/ Tried(m)'
  <1>5. ASSUME NEW x \in Executors, Moves(x), TriedUpTo(checkpoint)',
               x \in Backfills => TriedUpTo(Place(x))',
               Tries(x)' => Tried(At(x))'
        PROVE  OrderInv'
    <2>1. \A y \in Executors \ {x} : Place(y)' = Place(y) /\ At(y)' = At(y)
                                     /\ (Tries(y)' <=> Tries(y))
      BY <1>5 DEF Moves, InPhase, At
    <2>2. \A y \in Executors \ {x} : Tries(y) => At(y) \in Messages
      BY DEF TypeInv, PhaseInv
    <2>3. \A y \in Backfills \ {x} : TriedUpTo(Place(y))'
      BY <1>0, <1>2, <2>1 DEF OrderInv, TriedUpTo, InPhase
    <2> QED
      BY <1>0, <1>1, <1>2, <1>3, <1>4, <1>5, <2>1, <2>2, <2>3 DEF OrderInv
  <1>6. ASSUME NEW x \in Executors, Moves(x), checkpoint' = checkpoint,
               x \in Backfills => TriedUpTo(Place(x))', Tries(x)' => Tried(At(x))'
        PROVE  OrderInv'
    BY <1>0, <1>2, <1>5, <1>6 DEF OrderInv
  <1>7. \A x \in Backfills : TriedUpTo(Place(x))
    BY DEF OrderInv
  <1>8. \A x \in Backfills : Place(x) \in Int /\ Place(x) <= LastMessage
    BY <1>0
  <1>9. ASSUME NEW k \in Int, k <= LastMessage, TriedUpTo(k) PROVE TriedUpTo(k)'
    BY <1>0, <1>1, <1>9 DEF TriedUpTo, Messages
  <1>10. ASSUME NEW x \in Backfills PROVE After(Place(x))
    <2> DEFINE k == Place(x)
    <2>2. k \in Int /\ k <= LastMessage /\ TriedUpTo(k)
      BY <1>7, <1>8
    <2> HIDE DEF k
    <2>3. After(k)
      BY <1>0, <1>1, <2>2 DEF TriedUpTo, Messages
    <2> QED
      BY <2>3 DEF k
  <1>11. TriedUpTo(0)'
    BY DEF TriedUpTo
  <1>12. ASSUME NEW x \in Executors, Moves(x), checkpoint' = checkpoint,
                execution'[x] = IdleExecution
         PROVE  OrderInv'
    BY <1>6, <1>11, <1>12 DEF IdleExecution, InPhase, At
  <1>13. ASSUME NEW x \in Executors, Moves(x), checkpoint' = checkpoint, NEW p,
                Comes(x, p, At(x)), p # "claim", ~InPhase(x, "claim"),
                Tries(x) \/ p \in {"idle", "next", "save"}
         PROVE  OrderInv'
    <2>1. x \in Backfills => TriedUpTo(Place(x))'
      BY <1>0, <1>7, <1>9, <1>13 DEF Comes, InPhase, At
    <2>2. Tries(x) => Tried(At(x)) /\ At(x) \in Messages
      BY DEF OrderInv, TypeInv, PhaseInv
    <2> QED
      BY <1>1, <1>6, <1>13, <2>1, <2>2 DEF Comes, At
  <1>14. ASSUME NEW x \in Backfills, Moves(x), checkpoint' = checkpoint, NEW p, Claim(x),
                Comes(x, p, At(x)), p # "claim", Tried(At(x))'
         PROVE  OrderInv'
    <2>1. After(At(x) - 1) /\ At(x) \in Messages
      BY <1>0, <1>10, <1>14 DEF Claim, InPhase, TypeInv, PhaseInv
    <2>2. TriedUpTo(At(x))'
      BY <1>0, <1>14, <2>1 DEF TriedUpTo, Comes, At, Messages
    <2> QED
      BY <1>0, <1>6, <1>14, <2>2 DEF Comes, InPhase, At
  <1>15. \A x \in Executors :
            /\ \A e : Becomes(x, e) => execution'[x] = e
            /\ \A r, e : Write(x, r, e) => execution'[x] = e
    BY DEF TypeInv, TypeOK, Becomes, Write
  <1>16. ASSUME NEW x \in Executors, StartBackfill(x) PROVE OrderInv'
    <2>1. /\ execution'[x].at = checkpoint /\ execution'[x].phase = "next"
          /\ checkpoint' = checkpoint /\ Moves(x)
      BY <1>16, RestEffects
         DEF StartBackfill, Becomes, IdleExecution, TypeInv, TypeOK, Rests
    <2>2. TriedUpTo(checkpoint)'
      BY <1>0, <1>2, <2>1 DEF OrderInv
    <2> QED
      BY <1>6, <2>1, <2>2 DEF InPhase, At
  <1>17. ASSUME NEW x \in Executors,
                FinishBackfill(x) \/ FinishReplay(x) \/ Die(x)
         PROVE  OrderInv'
    BY <1>12, <1>15, <1>17, RestEffects DEF FinishBackfill, FinishReplay, Die, Ends, Rests
  <1>18. ASSUME NEW x \in Executors, StartReplay(x) \/ TakeFailed(x) PROVE OrderInv'
    <2>1. x \notin Backfills /\ checkpoint' = checkpoint /\ row' = row
      BY <1>18, DeliveryAssumption DEF StartReplay, TakeFailed
    <2>2. Moves(x) /\ (Tries(x)' => Tried(At(x))')
      BY <1>18, <2>1, RestEffects, TakeFailedEffect DEF Rests, Comes, Tried, At
    <2> QED
      BY <1>6, <2>1, <2>2
  <1>19. ASSUME NEW x \in Executors, NextMessage(x) PROVE OrderInv'
    <2>1. /\ Moves(x) /\ At(x) + 1 \in Messages /\ x \in Backfills
          /\ Comes(x, IF At(x) + 1 \in Skipped THEN "save" ELSE "claim", At(x) + 1)
          /\ checkpoint' = checkpoint /\ InPhase(x, "next")
      BY <1>19, NextMessageEffect DEF NextMessage
    <2>2. After(At(x))
      BY <1>0, <1>10, <2>1 DEF InPhase
    <2>3. At(x) + 1 \in Skipped => \A k \in 1 .. At(x) + 1 : k \in Skipped \/ Tried(k)'
      BY <1>0, <2>2
    <2>4. TriedUpTo(Place(x))'
      BY <1>0, <2>1, <2>2, <2>3 DEF Comes, TriedUpTo, InPhase, At
    <2> QED
      BY <1>6, <2>1, <2>4 DEF Comes
  <1>20. ASSUME NEW x \in Executors, Claim(x) PROVE OrderInv'
    <2>1. checkpoint' = checkpoint /\ InPhase(x, "claim") /\ row[At(x)] \in MessageRow
      BY <1>20 DEF Claim, InPhase, TypeInv, TypeOK, PhaseInv
    <2>2. CASE Rests(x)
      <3>1. execution'[x] = IdleExecution
        BY <1>20, <2>2, ClaimEnds
      <3> QED
        BY <1>12, <2>1, <2>2, <3>1 DEF Rests
    <2>3. CASE Writes(x, ClaimedRow) /\ Comes(x, "send", At(x)) /\ x \in Backfills
               /\ At(x) \in Messages
      <3>1. Tried(At(x))' /\ Moves(x)
        BY <2>3 DEF Writes, Tried, ClaimedRow, Comes, At
      <3> QED
        BY <1>14, <1>20, <2>1, <2>3, <3>1
    <2>4. ASSUME NEW p \in {"reclaim", "save"}, Comes(x, p, At(x)), row' = row, Moves(x),
                 x \in Backfills, Reclaimable(row[At(x)]) \/ SettledRow(row[At(x)])
          PROVE  OrderInv'
      <3>1. Tried(At(x))'
        BY <2>4 DEF Tried, Comes, At, Reclaimable, Stale, RetryableAmbiguous,
                    RetryableCancel, SettledRow
      <3> QED
        BY <1>14, <1>20, <2>1, <2>4, <3>1
    <2> QED
      BY <1>20, <2>2, <2>3, <2>4, ClaimEffect
  <1>21. ASSUME NEW x \in Executors, Reclaim(x) PROVE OrderInv'
    <2>1. checkpoint' = checkpoint /\ InPhase(x, "reclaim")
      BY <1>21 DEF Reclaim
    <2>2. CASE Rests(x)
      <3>1. execution'[x] = IdleExecution
        BY <1>21, <2>2, ClaimEnds
      <3> QED
        BY <1>12, <2>1, <2>2, <3>1 DEF Rests
    <2>3. CASE Comes(x, "send", At(x)) /\ Moves(x)
      BY <1>13, <2>1, <2>3 DEF InPhase
    <2> QED
      BY <1>21, <2>2, <2>3, ReclaimEffect DEF Writes
  <1>22. ASSUME NEW x \in Executors, SaveCheckpoint(x) PROVE OrderInv'
    <2>1. /\ checkpoint' = At(x) /\ InPhase(x, "save") /\ x \in Backfills
          /\ execution'[x].phase = "next" /\ execution'[x].at = At(x) /\ Moves(x)
      BY <1>0, <1>15, <1>22, RestEffects
         DEF SaveCheckpoint, Rests, InPhase, TypeInv, PhaseInv, Execution, At
    <2>2. TriedUpTo(At(x))
      BY <1>7, <2>1 DEF InPhase
    <2>3. \A k \in 1 .. At(x) : k \in Skipped \/ Tried(k)'
      BY <1>0, <1>2, <2>2 DEF TriedUpTo
    <2>4. TriedUpTo(checkpoint)' /\ TriedUpTo(Place(x))'
      BY <2>1, <2>3 DEF TriedUpTo, InPhase, At
    <2> QED
      BY <1>5, <2>1, <2>4
  <1>23. ASSUME NEW x \in Executors, Delivering(x) PROVE OrderInv'
    <2>1. checkpoint' = checkpoint
      BY <1>23 DEF Delivering, SendAnswered, SendRefused, SendUnanswered, AttachmentBlocks,
                   DeliverReturns, Cancel
    <2>2. PICK p \in {"sent", "failing", "unclear", "imported", "cancelled"} :
            Moves(x) /\ Comes(x, p, At(x)) /\ execution[x].phase \in {"send", "sent"}
      BY <1>23, DeliverEffects DEF Delivering
    <2> QED
      BY <1>13, <2>1, <2>2 DEF InPhase
  <1>24. ASSUME NEW x \in Executors, Marking(x) PROVE OrderInv'
    <2>1. checkpoint' = checkpoint /\ Moves(x)
      BY <1>24, MarkEffects
         DEF Marking, MarkImported, MarkFailed, MarkAmbiguous, MarkCancelled, Writes
    <2>2. Tries(x) /\ ~InPhase(x, "claim") /\ At(x) \in Messages
      BY <1>24 DEF Marking, MarkImported, MarkFailed, MarkAmbiguous, MarkCancelled, InPhase,
                   TypeInv, PhaseInv
    <2>3. x \in Backfills => TriedUpTo(Place(x))'
      <3>1. x \in Backfills => After(At(x))
        BY <1>10, <2>2
      <3> QED
        BY <1>11, <1>24, <3>1, MarkPlaces DEF Comes, InPhase, At, TriedUpTo
    <2>4. Tries(x)' => At(x)' = At(x)
      BY <1>24, MarkEffects DEF Marking, Comes, Rests, At
    <2> QED
      BY <1>1, <1>6, <2>1, <2>2, <2>3, <2>4 DEF OrderInv
  <1>25. ASSUME execution' = execution, checkpoint' = checkpoint PROVE OrderInv'
    <2>1. TriedUpTo(checkpoint)' /\ \A y \in Backfills : TriedUpTo(Place(y))'
      BY <1>0, <1>7, <1>8, <1>9, <1>25 DEF OrderInv, InPhase, At
    <2>2. \A y \in Executors : Tries(y)' => Tried(At(y))'
      BY <1>1, <1>25 DEF OrderInv, InPhase, At, TypeInv, PhaseInv
    <2> QED
      BY <1>3, <1>4, <2>1, <2>2 DEF OrderInv
  <1> QED
    BY <1>16, <1>17, <1>18, <1>19, <1>20, <1>21, <1>22, <1>23, <1>24, <1>25
       DEF Next, BackfillStep, ReplayStep, DeliveryStep, FaultStep, Executors, Delivering,
           Marking, PartArrives, GrowsStale, Outlasted, vars

\* Whatever is started, cut off and started again, no message is in the chat before
\* each earlier one of the dialog has been tried.
THEOREM MessagesComeInOrder == Spec => []InOrder
  <1>1. TypeInv /\ OrderInv => InOrder
    BY DeliveryAssumption DEF OrderInv, TriedUpTo, Tried, InOrder, Messages
  <1> QED
    BY TypeInvInit, TypeInvStep, OrderInvInit, OrderInvStep, <1>1, PTL DEF Spec
=============================================================================
