------------------------------ MODULE DeltaSync ------------------------------
(***************************************************************************)
(* The delta synchronisation of one chat: an execution reads the history   *)
(* from the last checkpoint on, batch by batch, then subscribes to new     *)
(* messages and delivers each as it arrives, for as long as the record of  *)
(* the migration is active.                                                *)
(*                                                                         *)
(* Source: DeltaSyncUseCase over the registry (MessageLedger), the         *)
(* checkpoint repository and the gateway's fetch_history and               *)
(* subscribe_delta.  ChatDelivery has the steps of claim and of deliver    *)
(* one by one; here claim is one step and a delivery ends with what it     *)
(* reports.  Telegram is external: messages are posted, a fetch returns    *)
(* those after its cursor, and a subscription hears those posted after it. *)
(*                                                                         *)
(* Left out: several chats in one execution, max_events (no caller sets    *)
(* it), the prefetch of attachments, the audit, and messages that are      *)
(* deleted from the source.                                                *)
(***************************************************************************)
EXTENDS MessageLedger, Integers, FiniteSets

CONSTANTS
  LastMessage,  \* bound: messages that are ever posted, 1 .. LastMessage
  BackfilledTo, \* the backfill checkpoint; 0 would mean that there is none
  OtherTopic,   \* messages of another topic of the chat
  OutOfDates,   \* messages outside the dates of the dialog
  WithAttachment, \* messages that carry an attachment
  Deltas,       \* executions of the delta job
  BatchSize,    \* messages that a fetch returns at most
  MaxFaults,    \* bound: faults in a behaviour
  Faults        \* kinds of fault: see DeltaFaults

\* "die": an exception that nothing catches, or a crash.  "cancel": the task is
\* cancelled.  "unclear": a send whose outcome is unknown.  "slow": a delivery
\* outlasts processing_stale_after.
DeltaFaults == {"die", "cancel", "unclear", "slow"}

Messages == 1 .. LastMessage

\* matches_source_message, include_from, include_to: what is not to be delivered.
Elsewhere == OtherTopic \cup OutOfDates

ASSUME DeltaAssumption ==
  /\ LastMessage \in Nat
  /\ BackfilledTo \in Messages
  /\ BatchSize \in Nat \ {0}
  /\ MaxFaults \in Nat

VARIABLES
  row,        \* [Messages -> row of the registry]
  posted,     \* messages posted so far: 1 .. posted
  checkpoint, \* the delta checkpoint; 0: none is saved yet
  delta,      \* [Deltas -> the execution]
  missed,     \* messages posted before a subscription and after the last fetch
              \* ahead of it (history)
  late,       \* [Deltas -> messages taken live since the record stopped being
              \* active] (history)
  faults,     \* faults so far
  state       \* the record of the migration (Cutover)

deltaVars == <<row, posted, checkpoint, delta, missed, late, faults>>

ActiveRecord == [status |-> "active", frozen |-> FALSE]

\* "check": about to read the record.  "create": found none, about to save one.
\* "seed", "fetch", "subscribe": about to do so.  "listen": between two events.
\* "match": a message in hand.  "send": inside deliver.  "attachment_incomplete",
\* "attachment_unclear": recorded as imported, its attachment yet to be recorded.
\* "cancelled": about to record that.  "save": about to save the checkpoint.
DeltaPhase == {"idle", "check", "create", "seed", "fetch", "subscribe", "listen",
               "match", "send", "attachment_incomplete", "attachment_unclear",
               "cancelled", "save"}

\* Where the record is checked: at the start, before the catch-up of a chat, and
\* at each event.
DeltaStage == {"start", "catch_up", "live"}

\* at: the message in hand, or the last one handled.  upto: the last message of the
\* batch.  more: the history went on after it.
DeltaExecution ==
  [phase : DeltaPhase, stage : DeltaStage, at : 0 .. LastMessage,
   upto : 0 .. LastMessage, more : BOOLEAN]

IdleDelta == [phase |-> "idle", stage |-> "start", at |-> 0, upto |-> 0, more |-> FALSE]

Smaller(a, b) == IF a < b THEN a ELSE b

AtPhase(x, phase) == delta[x].phase = phase

Running(x) == ~AtPhase(x, "idle")

Moves(x, e) == delta' = [delta EXCEPT ![x] = e]

Turns(x, phase) == Moves(x, [delta[x] EXCEPT !.phase = phase])

Stops(x) ==
  /\ Moves(x, IdleDelta)
  /\ late' = [late EXCEPT ![x] = 0]

DeltaFault(kind) ==
  /\ kind \in Faults
  /\ faults < MaxFaults
  /\ faults' = faults + 1

\* What the backfill left: its messages are imported.
DeltaInit ==
  /\ row = [m \in Messages |->
              IF m <= BackfilledTo /\ m \notin Elsewhere THEN ImportedRow(NoRow) ELSE NoRow]
  /\ posted = BackfilledTo
  /\ checkpoint = 0
  /\ delta = [x \in Deltas |-> IdleDelta]
  /\ missed = {}
  /\ late = [x \in Deltas |-> 0]
  /\ faults = 0

\* The inventory counts the dialog's topic, and messages of any date.
InChat == (1 .. posted) \ OtherTopic

\* A message is posted to the source chat.
Post ==
  /\ posted < LastMessage
  /\ posted' = posted + 1
  /\ UNCHANGED <<row, checkpoint, delta, missed, late, faults, state>>

-----------------------------------------------------------------------------
(* The record of the migration.                                            *)

StartDelta(x) ==
  /\ AtPhase(x, "idle")
  /\ Turns(x, "check")
  /\ UNCHANGED <<row, posted, checkpoint, missed, late, faults, state>>

\* What an execution does once it has found the record active.
Permitted(x) ==
  CASE delta[x].stage = "start"    -> [delta[x] EXCEPT !.phase = "check", !.stage = "catch_up"]
    [] delta[x].stage = "catch_up" -> [delta[x] EXCEPT !.phase = "seed"]
    [] delta[x].stage = "live"     -> [delta[x] EXCEPT !.phase = "match"]

\* Seeded fault: the record is read at the start only.
CheckState_AtStartOnly(x) ==
  /\ AtPhase(x, "check")
  /\ \/ /\ state.status = "absent"
        /\ Turns(x, "create")
        /\ UNCHANGED late
     \/ /\ state.status = "active" \/ delta[x].stage # "start"
        /\ Moves(x, Permitted(x))
        /\ UNCHANGED late
     \/ /\ state.status \notin {"absent", "active"} /\ delta[x].stage = "start"
        /\ Stops(x)
  /\ UNCHANGED <<row, posted, checkpoint, missed, faults, state>>

\* _load_or_initialize_state, _blocked_result_if_needed: a record that is not active
\* ends the execution.
CheckState(x) ==
  /\ AtPhase(x, "check")
  /\ \/ /\ state.status = "absent"
        /\ Turns(x, "create")
        /\ UNCHANGED late
     \/ /\ state.status = "active"
        /\ Moves(x, Permitted(x))
        /\ UNCHANGED late
     \/ /\ state.status \notin {"absent", "active"}
        /\ Stops(x)
  /\ UNCHANGED <<row, posted, checkpoint, missed, faults, state>>

\* The record that was not there is saved over whatever is there now.
CreateState(x) ==
  /\ AtPhase(x, "create")
  /\ state' = ActiveRecord
  /\ Moves(x, Permitted(x))
  /\ late' = [y \in Deltas |-> 0]
  /\ UNCHANGED <<row, posted, checkpoint, missed, faults>>

-----------------------------------------------------------------------------
(* _catch_up_chat.                                                         *)

\* Seeded fault: the cursor of the subscription is where the chat ends now.
SeedCursor_AtTheEnd(x) ==
  /\ AtPhase(x, "seed")
  /\ Moves(x, [delta[x] EXCEPT !.phase = "fetch", !.at = posted])
  /\ UNCHANGED <<row, posted, checkpoint, missed, late, faults, state>>

\* The delta checkpoint, or the backfill's.
Cursor == IF checkpoint # 0 THEN checkpoint ELSE BackfilledTo

SeedCursor(x) ==
  /\ AtPhase(x, "seed")
  /\ Moves(x, [delta[x] EXCEPT !.phase = "fetch", !.at = Cursor])
  /\ UNCHANGED <<row, posted, checkpoint, missed, late, faults, state>>

\* The next message of the batch, the next batch, or the end of the catch-up.
Continue(e) ==
  IF e.at < e.upto THEN [e EXCEPT !.phase = "match", !.at = @ + 1]
  ELSE IF e.more   THEN [e EXCEPT !.phase = "fetch", !.more = FALSE]
  ELSE                  [e EXCEPT !.phase = "subscribe", !.upto = 0]

\* fetch_history: the messages after the cursor, and whether there are more.
WithBatch(e) ==
  [e EXCEPT !.upto = Smaller(e.at + BatchSize, posted), !.more = posted > e.at + BatchSize]

FetchBatch(x) ==
  /\ AtPhase(x, "fetch")
  /\ Moves(x, Continue(WithBatch(delta[x])))
  /\ UNCHANGED <<row, posted, checkpoint, missed, late, faults, state>>

-----------------------------------------------------------------------------
(* The live part.                                                          *)

\* subscribe_delta registers its handler: it hears what is posted from now on.
Subscribe(x) ==
  /\ AtPhase(x, "subscribe")
  /\ Moves(x, [delta[x] EXCEPT !.phase = "listen", !.stage = "live", !.at = posted])
  /\ missed' = missed \cup ((delta[x].at + 1) .. posted)
  /\ UNCHANGED <<row, posted, checkpoint, late, faults, state>>

\* Events are taken in the order in which the messages were posted.
Hear(x) ==
  /\ AtPhase(x, "listen")
  /\ delta[x].at < posted
  /\ Moves(x, [delta[x] EXCEPT !.phase = "check", !.at = @ + 1])
  /\ UNCHANGED <<row, posted, checkpoint, missed, late, faults, state>>

-----------------------------------------------------------------------------
(* _process_message.                                                       *)

At(x) == delta[x].at

\* The row is inserted, taken over, or passed whatever it says.
Claimable(r) ==
  r.status = "absent" \/ Stale(r) \/ RetryableAmbiguous(r) \/ RetryableCancel(r)

\* A message of another topic or date is passed; so is one whose row is settled,
\* ambiguous, or in the hands of another execution.
ProcessMessage(x) ==
  LET m == At(x)
  IN  /\ AtPhase(x, "match")
      /\ IF m \notin Elsewhere /\ Claimable(row[m])
         THEN /\ row' = [row EXCEPT ![m] = ClaimedRow]
              /\ Turns(x, "send")
              /\ late' = [late EXCEPT ![x] =
                            IF delta[x].stage = "live" /\ state.status # "active"
                            THEN Smaller(@ + 1, 2) ELSE @]
         ELSE Turns(x, "save") /\ UNCHANGED <<row, late>>
      /\ UNCHANGED <<posted, checkpoint, missed, faults, state>>

\* The row of the message in hand is written; nobody owns it.
WriteRow(x, newRow, phase) ==
  /\ row' = [row EXCEPT ![At(x)] = newRow]
  /\ Turns(x, phase)
  /\ UNCHANGED <<posted, checkpoint, missed, late, state>>

\* deliver returns: mark_imported, then what is to be said of an attachment that
\* failed, or that may have failed.
MarkImported(x) ==
  /\ AtPhase(x, "send")
  /\ \/ /\ WriteRow(x, ImportedRow(row[At(x)]), "save")
        /\ UNCHANGED faults
     \/ /\ At(x) \in WithAttachment
        /\ WriteRow(x, ImportedRow(row[At(x)]), "attachment_incomplete")
        /\ UNCHANGED faults
     \/ /\ At(x) \in WithAttachment
        /\ DeltaFault("unclear")
        /\ WriteRow(x, ImportedRow(row[At(x)]), "attachment_unclear")

MarkAttachmentFailed(x) ==
  /\ AtPhase(x, "attachment_incomplete")
  /\ WriteRow(x, FailedRow(row[At(x)], "attachment_incomplete"), "save")
  /\ UNCHANGED faults

MarkAttachmentUnclear(x) ==
  /\ AtPhase(x, "attachment_unclear")
  /\ WriteRow(x, AmbiguousRow(row[At(x)], "attachment_unclear"), "save")
  /\ UNCHANGED faults

\* Seeded fault: the row of an unclear send is removed.
MarkUnclear_Forgets(x) ==
  /\ AtPhase(x, "send")
  /\ DeltaFault("unclear")
  /\ WriteRow(x, NoRow, "save")

\* deliver is not sure: AmbiguousDeliveryError.
MarkUnclear(x) ==
  /\ AtPhase(x, "send")
  /\ DeltaFault("unclear")
  /\ WriteRow(x, AmbiguousRow(row[At(x)], "unclear"), "save")

\* deliver fails: RecoverableItemError, FatalItemError.
MarkFailed(x) ==
  /\ AtPhase(x, "send")
  /\ WriteRow(x, FailedRow(row[At(x)], "error"), "save")
  /\ UNCHANGED faults

\* PostgresCheckpointRepository.save: the cursor is replaced, be it further or not.
AdvanceCheckpoint(m) == checkpoint' = m

\* _advance_checkpoint, then the next message of the batch or the next event.
SaveCheckpoint(x) ==
  /\ AtPhase(x, "save")
  /\ AdvanceCheckpoint(At(x))
  /\ IF delta[x].stage = "live" THEN Turns(x, "listen") ELSE Moves(x, Continue(delta[x]))
  /\ UNCHANGED <<row, posted, missed, late, faults, state>>

-----------------------------------------------------------------------------
(* Faults.                                                                 *)

\* A cancelled delivery writes its row; anything else that is cancelled just ends.
Cancel(x) ==
  /\ Running(x) /\ ~AtPhase(x, "cancelled")
  /\ DeltaFault("cancel")
  /\ IF AtPhase(x, "send") THEN Turns(x, "cancelled") /\ UNCHANGED late ELSE Stops(x)
  /\ UNCHANGED <<row, posted, checkpoint, missed, state>>

MarkCancelled(x) ==
  /\ AtPhase(x, "cancelled")
  /\ row' = [row EXCEPT ![At(x)] = FailedRow(@, "cancelled")]
  /\ Stops(x)
  /\ UNCHANGED <<posted, checkpoint, missed, faults, state>>

DeltaDies(x) ==
  /\ Running(x)
  /\ DeltaFault("die")
  /\ Stops(x)
  /\ UNCHANGED <<row, posted, checkpoint, missed, state>>

InHand(m) ==
  \E x \in Deltas :
     /\ At(x) = m
     /\ delta[x].phase \in {"send", "attachment_incomplete", "attachment_unclear",
                            "cancelled"}

\* processing_stale_after passes over a row that nobody is about to write.
GrowsStale(m) ==
  /\ row[m].fresh
  /\ ~InHand(m)
  /\ row' = [row EXCEPT ![m].fresh = FALSE]
  /\ UNCHANGED <<posted, checkpoint, delta, missed, late, faults, state>>

Overrun(m) ==
  /\ row[m].fresh
  /\ InHand(m)
  /\ DeltaFault("slow")
  /\ row' = [row EXCEPT ![m].fresh = FALSE]
  /\ UNCHANGED <<posted, checkpoint, delta, missed, late, state>>

-----------------------------------------------------------------------------
ExecutionStep(x) ==
  \/ CheckState(x)
  \/ CreateState(x)
  \/ SeedCursor(x)
  \/ FetchBatch(x)
  \/ Subscribe(x)
  \/ Hear(x)
  \/ ProcessMessage(x)
  \/ MarkImported(x)
  \/ MarkAttachmentFailed(x)
  \/ MarkAttachmentUnclear(x)
  \/ MarkUnclear(x)
  \/ MarkFailed(x)
  \/ MarkCancelled(x)
  \/ SaveCheckpoint(x)

DeltaStep ==
  \/ Post
  \/ \E x \in Deltas : StartDelta(x) \/ ExecutionStep(x) \/ Cancel(x) \/ DeltaDies(x)
  \/ \E m \in Messages : GrowsStale(m) \/ Overrun(m)

DeltaTypeOK ==
  /\ row \in [Messages -> MessageRow]
  /\ posted \in Messages
  /\ checkpoint \in 0 .. LastMessage
  /\ delta \in [Deltas -> DeltaExecution]
  /\ missed \subseteq Messages
  /\ late \in [Deltas -> 0 .. 2]
  /\ faults \in 0 .. MaxFaults
=============================================================================
