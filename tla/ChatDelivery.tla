---------------------------- MODULE ChatDelivery ----------------------------
(***************************************************************************)
(* Delivery of one chat: executions of the backfill job and of             *)
(* /retry_failed send the messages of the source chat to the target chat,  *)
(* record each in the registry, and advance the chat's checkpoint.         *)
(*                                                                         *)
(* Source: BackfillChatUseCase.execute, ReplayFailedUseCase, and           *)
(* MessageDeliveryService.deliver over the registry (MessageLedger) and    *)
(* the checkpoint repository.  The eXpress API is external: a send arrives *)
(* and is answered, is refused, breaks off between two parts of a message, *)
(* or is not answered and may have arrived.                                *)
(*                                                                         *)
(* Executions overlap: a lease that ran out, two admitted jobs, and        *)
(* /retry_failed, which no job stands for, put several to work on one chat *)
(* (MigrationJobs, JobAdmission).  Executions end anywhere, and are        *)
(* started again.                                                          *)
(*                                                                         *)
(* Left out: the batches of the history and the prefetch; the attachments, *)
(* of which only the outcome that deliver() reports is kept; the           *)
(* in-process cache of the gateway, which spares a second copy within one  *)
(* process (EXTG_EXPRESS__LOCAL_IDEMPOTENCY_CACHE_ENABLED); the audit.     *)
(***************************************************************************)
EXTENDS MessageLedger, Integers, FiniteSets

CONSTANTS
  LastMessage,    \* messages of the source chat, in order: 1 .. LastMessage
  Skipped,        \* messages outside the topic or the dates of the dialog
  WithAttachment, \* messages that carry an attachment
  InParts,        \* messages too long for one notification, which are sent in several
  Backfills,      \* executions of the backfill
  Replays,        \* executions of /retry_failed
  MaxFaults,      \* bound: faults in a behaviour
  Faults          \* kinds of fault: see FaultKinds

\* "unclear": a send that is not answered, or an attachment that meets the remains of
\* an earlier send or upload.  "cancel": the task is cancelled.  "die": an exception
\* that nothing catches, or a crash.  "slow": a delivery outlasts processing_stale_after.
\* "part": a part of a message is not posted after others were.
FaultKinds == {"unclear", "cancel", "die", "slow", "part"}

Messages == 1 .. LastMessage

ASSUME DeliveryAssumption ==
  /\ LastMessage \in Nat
  /\ Skipped \subseteq Messages /\ WithAttachment \subseteq Messages
  /\ InParts \subseteq Messages
  /\ Backfills \cap Replays = {}
  /\ MaxFaults \in Nat

Executors == Backfills \cup Replays

VARIABLES
  row,        \* [Messages -> row of the registry]
  copies,     \* [Messages -> copies of the message in the target chat]
  checkpoint, \* the backfill checkpoint: last message passed, 0 for none
  completed,  \* status of the chat mapping is completed
  execution,  \* [Executors -> the execution]
  doubtful,   \* messages that a fault or an overlap may have sent twice or dropped (history)
  faults      \* faults so far

vars == <<row, copies, checkpoint, completed, execution, doubtful, faults>>

\* "next": between two messages.  "claim", "reclaim": before the insert, before
\* the update of claim.  "send": inside deliver, "sent": inside deliver with the
\* message sent.  "imported" to "cancelled": about to write the row.  "save":
\* about to save the checkpoint.
Phase == {"idle", "next", "claim", "reclaim", "send", "sent", "imported", "incomplete",
          "unclear", "attachment_unclear", "failing", "cancelled", "save"}

Attachment == {"ok", "attachment_incomplete", "attachment_unclear"}

\* at: the message in hand.  failed: the execution counts a failed message.
\* seen: the row that claim read.  current: the row has not been written by another
\* execution since claim read it or the message was passed.
\* reuse: the primary message is in the chat already.  outcome: what deliver
\* says of the attachment.  todo: the failed messages that a replay listed.
Execution ==
  [phase : Phase, at : 0 .. LastMessage, failed : BOOLEAN, seen : MessageRow,
   current : BOOLEAN, reuse : BOOLEAN, outcome : Attachment, todo : SUBSET Messages]

IdleExecution ==
  [phase |-> "idle", at |-> 0, failed |-> FALSE, seen |-> NoRow, current |-> FALSE,
   reuse |-> FALSE, outcome |-> "ok", todo |-> {}]

At(x) == execution[x].at

InPhase(x, phase) == execution[x].phase = phase

\* The message is in the hands of x: claimed or taken for replay, and its result
\* not yet written.
AtWork(x, m) ==
  /\ At(x) = m
  /\ execution[x].phase \in {"send", "sent", "imported", "unclear", "failing", "cancelled"}

Fault(kind) ==
  /\ kind \in Faults
  /\ faults < MaxFaults
  /\ faults' = faults + 1

Init ==
  /\ row = [m \in Messages |-> NoRow]
  /\ copies = [m \in Messages |-> 0]
  /\ checkpoint = 0
  /\ completed = FALSE
  /\ execution = [x \in Executors |-> IdleExecution]
  /\ doubtful = {}
  /\ faults = 0

-----------------------------------------------------------------------------
(* Helpers: the execution and the row after a step.                        *)

Becomes(x, e) == execution' = [execution EXCEPT ![x] = e]

GoTo(x, phase) == Becomes(x, [execution[x] EXCEPT !.phase = phase])

DoubtIf(x, doubt) == doubtful' = IF doubt THEN doubtful \cup {At(x)} ELSE doubtful

\* x writes the row of the message in hand; what another execution read of it is
\* no longer current.
Write(x, newRow, e) ==
  /\ row' = [row EXCEPT ![At(x)] = newRow]
  /\ execution' = [y \in Executors |->
       IF y = x THEN e
       ELSE IF At(y) = At(x) THEN [execution[y] EXCEPT !.current = FALSE]
       ELSE execution[y]]

\* The execution ends; a new one may be started in its place.
Ends(x) == Becomes(x, IdleExecution)

\* A replay takes the next message of its list.
TakesNext(y) == [IdleExecution EXCEPT !.phase = "next", !.todo = execution[y].todo]

\* What an execution does after a result is written: a backfill that counts the
\* message saves its checkpoint, a replay goes on.
Settled(x, failed) ==
  IF x \in Backfills
  THEN [execution[x] EXCEPT !.phase = "save", !.failed = @ \/ failed, !.current = TRUE,
                            !.reuse = FALSE, !.outcome = "ok"]
  ELSE TakesNext(x)

\* An ambiguous result ends a backfill; a replay goes on.
Unsettled(x) == IF x \in Backfills THEN IdleExecution ELSE TakesNext(x)

-----------------------------------------------------------------------------
(* BackfillChatUseCase.execute.                                            *)

\* Seeded fault: the message after the checkpoint is taken for one that was passed.
StartBackfill_OneFurther(x) ==
  /\ x \in Backfills
  /\ InPhase(x, "idle")
  /\ Becomes(x, [IdleExecution EXCEPT !.phase = "next", !.at = checkpoint + 1])
  /\ UNCHANGED <<row, copies, checkpoint, completed, doubtful, faults>>

StartBackfill(x) ==
  /\ x \in Backfills
  /\ InPhase(x, "idle")
  /\ Becomes(x, [IdleExecution EXCEPT !.phase = "next", !.at = checkpoint])
  /\ UNCHANGED <<row, copies, checkpoint, completed, doubtful, faults>>

NextMessage(x) ==
  /\ x \in Backfills
  /\ InPhase(x, "next")
  /\ At(x) < LastMessage
  /\ Becomes(x, [execution[x] EXCEPT
                   !.at = @ + 1,
                   !.phase = IF At(x) + 1 \in Skipped THEN "save" ELSE "claim"])
  /\ UNCHANGED <<row, copies, checkpoint, completed, doubtful, faults>>

\* Seeded fault: a processing row is never taken over.
Reclaimable_NotStale(seen) == RetryableAmbiguous(seen) \/ RetryableCancel(seen)

\* The row can be taken over, as far as claim has read it.
Reclaimable(seen) == Stale(seen) \/ RetryableAmbiguous(seen) \/ RetryableCancel(seen)

\* Seeded fault: a message that another execution holds is passed.
Claim_PassesHeld(x) ==
  LET e == execution[x]
      seen == row[At(x)]
  IN  /\ InPhase(x, "claim")
      /\ \/ /\ seen.status = "absent"
            /\ Write(x, ClaimedRow, [e EXCEPT !.phase = "send", !.reuse = FALSE])
         \/ /\ Reclaimable(seen)
            /\ Becomes(x, [e EXCEPT !.phase = "reclaim", !.seen = seen, !.current = TRUE])
            /\ UNCHANGED row
         \/ /\ seen.status # "absent" /\ ~Reclaimable(seen)
            /\ Becomes(x, [e EXCEPT !.phase = "save", !.current = TRUE])
            /\ UNCHANGED row
      /\ UNCHANGED <<copies, checkpoint, completed, doubtful, faults>>

\* claim inserts the row, or reads the row that is there and passes a settled one.
\* A row that is neither settled nor to be taken over ends the execution.
Claim(x) ==
  LET e == execution[x]
      seen == row[At(x)]
  IN  /\ InPhase(x, "claim")
      /\ \/ /\ seen.status = "absent"
            /\ Write(x, ClaimedRow, [e EXCEPT !.phase = "send", !.reuse = FALSE])
         \/ /\ Reclaimable(seen)
            /\ Becomes(x, [e EXCEPT !.phase = "reclaim", !.seen = seen, !.current = TRUE])
            /\ UNCHANGED row
         \/ /\ seen.status # "absent" /\ ~Reclaimable(seen)
            /\ IF SettledRow(seen)
               THEN Becomes(x, [e EXCEPT !.phase = "save", !.current = TRUE])
               ELSE Ends(x)
            /\ UNCHANGED row
      /\ UNCHANGED <<copies, checkpoint, completed, doubtful, faults>>

\* The update of a stale or an ambiguous row checks that it has not been written
\* since it was read; the update of a cancelled one does not.
MayReclaim(e) == RetryableCancel(e.seen) \/ e.current

\* The message lies behind the execution, whether or not the checkpoint says so: an
\* execution that started earlier may have set it back.
PassedBy(y, m) ==
  \/ m < At(y)
  \/ m = At(y) /\ execution[y].phase \in {"save", "next"}

\* The update of a cancelled row takes it regardless: another execution may have
\* the message in hand, or may have written its row or have passed it meanwhile.
TakenRegardless(x) ==
  /\ RetryableCancel(execution[x].seen)
  /\ \/ ~execution[x].current
     \/ \E y \in Replays : AtWork(y, At(x))
     \/ At(x) <= checkpoint
     \/ \E y \in Backfills : PassedBy(y, At(x))

Reclaim(x) ==
  LET e == execution[x]
  IN  /\ InPhase(x, "reclaim")
      /\ \/ /\ MayReclaim(e)
            /\ Write(x, ClaimedRow, [e EXCEPT !.phase = "send", !.reuse = FALSE,
                                              !.seen = NoRow, !.current = FALSE])
            /\ DoubtIf(x, TakenRegardless(x))
         \/ /\ ~MayReclaim(e)
            /\ Ends(x)
            /\ UNCHANGED <<row, doubtful>>
      /\ UNCHANGED <<copies, checkpoint, completed, faults>>

SaveCheckpoint(x) ==
  /\ InPhase(x, "save")
  /\ checkpoint' = At(x)
  /\ Becomes(x, [execution[x] EXCEPT !.phase = "next", !.current = FALSE])
  /\ UNCHANGED <<row, copies, completed, doubtful, faults>>

\* The history is exhausted: the chat is complete if this execution failed nothing.
FinishBackfill(x) ==
  /\ x \in Backfills
  /\ InPhase(x, "next")
  /\ At(x) = LastMessage
  /\ completed' = (completed \/ ~execution[x].failed)
  /\ Ends(x)
  /\ UNCHANGED <<row, copies, checkpoint, doubtful, faults>>

-----------------------------------------------------------------------------
(* ReplayFailedUseCase.execute: no claim and no checkpoint.                *)

StartReplay(y) ==
  /\ y \in Replays
  /\ InPhase(y, "idle")
  /\ \E m \in Messages : row[m].status = "failed"
  /\ Becomes(y, [IdleExecution EXCEPT !.phase = "next",
                   !.todo = {m \in Messages : row[m].status = "failed"}])
  /\ UNCHANGED <<row, copies, checkpoint, completed, doubtful, faults>>

\* Seeded fault: a failed message is taken for one whose attachment failed.
PrimarySent_Assumed(failedRow) == TRUE

\* existing_primary_message: only the attachments are to be delivered.
PrimarySent(failedRow) == failedRow.sync

\* The oldest message listed is read again, and delivered if it is still failed.
TakeFailed(y) ==
  /\ y \in Replays
  /\ InPhase(y, "next")
  /\ \E m \in execution[y].todo :
        /\ \A n \in execution[y].todo : m <= n
        /\ LET e == [execution[y] EXCEPT !.todo = @ \ {m}]
           IN  IF row[m].status = "failed"
               THEN /\ Becomes(y, [e EXCEPT !.phase = "send", !.at = m,
                                            !.reuse = PrimarySent(row[m])])
                    /\ doubtful' = IF \E x \in Executors : AtWork(x, m)
                                   THEN doubtful \cup {m} ELSE doubtful
               ELSE Becomes(y, e) /\ UNCHANGED doubtful
  /\ UNCHANGED <<row, copies, checkpoint, completed, faults>>

\* _mark_chat_completed_if_clean
FinishReplay(y) ==
  /\ y \in Replays
  /\ InPhase(y, "next")
  /\ execution[y].todo = {}
  /\ completed' = (completed \/ \A m \in Messages : row[m].status \in {"absent", "imported"})
  /\ Ends(y)
  /\ UNCHANGED <<row, copies, checkpoint, doubtful, faults>>

-----------------------------------------------------------------------------
(* MessageDeliveryService.deliver.                                         *)

Arrives(m) == copies' = [copies EXCEPT ![m] = @ + 1]

SendAnswered(x) ==
  /\ InPhase(x, "send")
  /\ IF execution[x].reuse THEN UNCHANGED copies ELSE Arrives(At(x))
  /\ GoTo(x, "sent")
  /\ UNCHANGED <<row, checkpoint, completed, doubtful, faults>>

\* A part of a long message is posted, and a later one is not: the retries of the
\* policy begin with the first part again, and nothing tells of the parts that are
\* in the chat.
PartArrives(x) ==
  /\ InPhase(x, "send")
  /\ ~execution[x].reuse
  /\ At(x) \in InParts
  /\ Fault("part")
  /\ Arrives(At(x))
  /\ doubtful' = doubtful \cup {At(x)}
  /\ UNCHANGED <<row, checkpoint, completed, execution>>

\* A refused send, after the retries of the policy, or a delivery that fails before
\* its send.
SendRefused(x) ==
  /\ InPhase(x, "send")
  /\ GoTo(x, "failing")
  /\ UNCHANGED <<row, copies, checkpoint, completed, doubtful, faults>>

SendUnanswered(x) ==
  /\ InPhase(x, "send")
  /\ ~execution[x].reuse
  /\ Fault("unclear")
  /\ Arrives(At(x)) \/ UNCHANGED copies
  /\ GoTo(x, "unclear")
  /\ doubtful' = doubtful \cup {At(x)}
  /\ UNCHANGED <<row, checkpoint, completed>>

\* The message is sent, but an earlier attempt left its attachment in processing or
\* ambiguous: deliver raises and does not tell of the message.
AttachmentBlocks(x) ==
  /\ InPhase(x, "sent")
  /\ At(x) \in WithAttachment
  /\ Fault("unclear")
  /\ GoTo(x, "unclear")
  /\ DoubtIf(x, ~execution[x].reuse)
  /\ UNCHANGED <<row, copies, checkpoint, completed>>

DeliverReturns(x) ==
  /\ InPhase(x, "sent")
  /\ \E outcome \in IF At(x) \in WithAttachment THEN Attachment ELSE {"ok"} :
        Becomes(x, [execution[x] EXCEPT !.phase = "imported", !.outcome = outcome])
  /\ UNCHANGED <<row, copies, checkpoint, completed, doubtful, faults>>

-----------------------------------------------------------------------------
(* The marks that backfill and replay write.                               *)

MarkImported(x) ==
  /\ InPhase(x, "imported")
  /\ Write(x, ImportedRow(row[At(x)]),
           CASE execution[x].outcome = "ok" -> Settled(x, FALSE)
             [] execution[x].outcome = "attachment_incomplete" ->
                  [execution[x] EXCEPT !.phase = "incomplete", !.outcome = "ok"]
             [] execution[x].outcome = "attachment_unclear" ->
                  [execution[x] EXCEPT !.phase = "attachment_unclear", !.outcome = "ok"])
  /\ UNCHANGED <<copies, checkpoint, completed, doubtful, faults>>

MarkFailed(x) ==
  /\ execution[x].phase \in {"failing", "incomplete"}
  /\ LET code == IF InPhase(x, "failing") THEN "error" ELSE "attachment_incomplete"
     IN  Write(x, FailedRow(row[At(x)], code), Settled(x, TRUE))
  /\ UNCHANGED <<copies, checkpoint, completed, doubtful, faults>>

\* Seeded fault: an ambiguous message is passed like a failed one.
MarkAmbiguous_GoesOn(x) ==
  /\ execution[x].phase \in {"unclear", "attachment_unclear"}
  /\ Write(x, AmbiguousRow(row[At(x)], execution[x].phase), Settled(x, TRUE))
  /\ UNCHANGED <<copies, checkpoint, completed, doubtful, faults>>

MarkAmbiguous(x) ==
  /\ execution[x].phase \in {"unclear", "attachment_unclear"}
  /\ Write(x, AmbiguousRow(row[At(x)], execution[x].phase), Unsettled(x))
  /\ UNCHANGED <<copies, checkpoint, completed, doubtful, faults>>

MarkCancelled(x) ==
  /\ InPhase(x, "cancelled")
  /\ Write(x, FailedRow(row[At(x)], "cancelled"), IdleExecution)
  /\ UNCHANGED <<copies, checkpoint, completed, doubtful, faults>>

-----------------------------------------------------------------------------
(* Faults.                                                                 *)

\* The message was sent and its row does not say so.
SentUnrecorded(x) ==
  (InPhase(x, "sent") \/ InPhase(x, "imported")) /\ ~execution[x].reuse

InDeliver(x) == InPhase(x, "send") \/ InPhase(x, "sent")

\* The task is cancelled inside deliver, which is recorded; anywhere else a
\* cancellation only ends the execution, as Die does.  The row of a message that is
\* being replayed then no longer tells claim that the message is in the chat.
Cancel(x) ==
  /\ InDeliver(x)
  /\ Fault("cancel")
  /\ GoTo(x, "cancelled")
  /\ DoubtIf(x, SentUnrecorded(x) \/ execution[x].reuse)
  /\ UNCHANGED <<row, copies, checkpoint, completed>>

Die(x) ==
  /\ ~InPhase(x, "idle")
  /\ Fault("die")
  /\ Ends(x)
  /\ DoubtIf(x, SentUnrecorded(x))
  /\ UNCHANGED <<row, copies, checkpoint, completed>>

Aged(m) == row' = [row EXCEPT ![m].fresh = FALSE]

GrowsStale(m) ==
  /\ row[m].fresh
  /\ ~\E x \in Executors : AtWork(x, m)
  /\ Aged(m)
  /\ UNCHANGED <<copies, checkpoint, completed, execution, doubtful, faults>>

Outlasted(m) ==
  /\ row[m].fresh
  /\ \E x \in Executors : AtWork(x, m)
  /\ Fault("slow")
  /\ Aged(m)
  /\ doubtful' = doubtful \cup {m}
  /\ UNCHANGED <<copies, checkpoint, completed, execution>>

-----------------------------------------------------------------------------
BackfillStep ==
  \E x \in Backfills :
     \/ StartBackfill(x)
     \/ NextMessage(x)
     \/ Claim(x)
     \/ Reclaim(x)
     \/ SaveCheckpoint(x)
     \/ FinishBackfill(x)

ReplayStep == \E y \in Replays : StartReplay(y) \/ TakeFailed(y) \/ FinishReplay(y)

DeliveryStep ==
  \E x \in Executors :
     \/ SendAnswered(x)
     \/ PartArrives(x)
     \/ SendRefused(x)
     \/ SendUnanswered(x)
     \/ AttachmentBlocks(x)
     \/ DeliverReturns(x)
     \/ MarkImported(x)
     \/ MarkFailed(x)
     \/ MarkAmbiguous(x)
     \/ MarkCancelled(x)

FaultStep ==
  \/ \E x \in Executors : Cancel(x) \/ Die(x)
  \/ \E m \in Messages : GrowsStale(m) \/ Outlasted(m)

Next == BackfillStep \/ ReplayStep \/ DeliveryStep \/ FaultStep

Spec == Init /\ [][Next]_vars

\* A backfill goes on, rows age, and the operator sends /migrate again, or
\* /remigrate where the chat says completed.  Nothing is asked of /retry_failed.
Progress(x) ==
  \/ NextMessage(x) \/ Claim(x) \/ Reclaim(x) \/ SaveCheckpoint(x) \/ FinishBackfill(x)
  \/ SendAnswered(x) \/ SendRefused(x) \/ DeliverReturns(x)
  \/ MarkImported(x) \/ MarkFailed(x) \/ MarkAmbiguous(x) \/ MarkCancelled(x)

Fairness ==
  /\ \A x \in Backfills : WF_vars(StartBackfill(x) \/ Progress(x))
  /\ \A m \in Messages : WF_vars(GrowsStale(m))

FairSpec == Spec /\ Fairness

-----------------------------------------------------------------------------
(* Properties.                                                             *)

\* The shape of the registry and of the executions.
TypeOK ==
  /\ row \in [Messages -> MessageRow]
  /\ copies \in [Messages -> Nat]
  /\ checkpoint \in 0 .. LastMessage
  /\ completed \in BOOLEAN
  /\ execution \in [Executors -> Execution]
  /\ doubtful \subseteq Messages
  /\ faults \in 0 .. MaxFaults

\* The registry never claims more than happened: a message that it calls imported,
\* or of which it knows a target_sync_id, is in the target chat.
ImportedIsInChat ==
  \A m \in Messages : row[m].status = "imported" \/ row[m].sync => copies[m] > 0

\* A message is in the target chat once, unless a send of it was not answered or broke
\* off between two parts, an execution was cut off between the send and the mark or
\* was too slow, or a /retry_failed met another execution: overlapping backfills,
\* retries of failed messages and reruns do not send a message again.
SentOnce == \A m \in Messages \ doubtful : copies[m] <= 1

\* The checkpoint passes no message that is not accounted for: what lies below it
\* was delivered or is listed as failed, or a fault made it doubtful, or it is known
\* to be in the chat and only its attachment waits for manual reconciliation.
PassedIsSettled ==
  \A m \in 1 .. checkpoint :
     \/ m \in Skipped \cup doubtful
     \/ SettledRow(row[m])
     \/ row[m].sync

\* An execution saves its checkpoint over a message only if the message is outside
\* the dialog or was settled when the execution passed it; only another execution,
\* which has the same message in hand, can have changed that since.
PassesOnlySettled ==
  [][\A x \in Backfills :
       InPhase(x, "save") /\ checkpoint' = At(x) /\ execution[x].current =>
         At(x) \in Skipped \/ SettledRow(row[At(x)])]_vars

\* A message comes after the ones before it: none is in the chat before each
\* earlier one has at least been tried.
InOrder ==
  \A m, n \in Messages :
     m < n /\ m \notin Skipped /\ copies[n] > 0 => row[m].status # "absent"

\* Only an ambiguous message is beyond the reach of a rerun: if /migrate is
\* repeated, every message is settled in the end, or one is left ambiguous that may
\* be in the chat already, or that /retry_failed made ambiguous behind the checkpoint.
RerunsSettle ==
  <>(\/ \A m \in Messages \ Skipped : SettledRow(row[m])
     \/ \E m \in Messages : row[m].status = "ambiguous"
                             /\ (copies[m] > 0 \/ m <= checkpoint))

\* What completed means to /migrate, which answers that the chat has already been
\* migrated: every message of the dialog has been imported.
CompletedIsMigrated ==
  completed => \A m \in Messages \ Skipped : row[m].status = "imported"
=============================================================================
