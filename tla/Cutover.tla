------------------------------- MODULE Cutover -------------------------------
(***************************************************************************)
(* The life of a migration as its operators steer it: the record of        *)
(* migration_state that the delta synchronisation obeys, the inventory of  *)
(* the source chats, and the commands pause, resume, freeze, inventory and *)
(* finalize.                                                               *)
(*                                                                         *)
(* Source: ManageMigrationStateUseCase, FinalizeCutoverUseCase,            *)
(* ReconcileMigrationUseCase, InventoryUseCase and their repositories.     *)
(* Each reads what it needs in queries of its own and saves a whole record *)
(* unconditionally: commands overlap.  The attachments' summary is         *)
(* external: all settled, or not.                                          *)
(*                                                                         *)
(* Abstracted: freeze_started_at is kept as whether it is set;             *)
(* finalized_at, which is set in the completed records and no others, the  *)
(* list of blockers, the media counts and the report are left out.  One    *)
(* source chat.  A command that ends early is one that takes no further    *)
(* step.                                                                   *)
(***************************************************************************)
EXTENDS MessageLedger, Integers, FiniteSets

CONSTANTS
  Messages,  \* messages of the source chat
  Commands   \* operators' commands that may be in flight together

VARIABLES
  state,     \* the record of migration_state; status "absent": there is none
  inventory, \* the inventory snapshot of the chat
  command,   \* [Commands -> the command in flight]
  row        \* [Messages -> row of the registry]: only read here

cutoverVars == <<state, inventory, command>>

StateStatus == {"absent", "active", "paused", "needs_manual_reconcile", "completed"}

StateRecord == [status : StateStatus, frozen : BOOLEAN]

NoState == [status |-> "absent", frozen |-> FALSE]

ActiveState == [NoState EXCEPT !.status = "active"]

Snapshot == [taken : BOOLEAN, count : Nat]

NoSnapshot == [taken |-> FALSE, count |-> 0]

\* "save": about to save the record that the command decided on.  "inventory",
\* "messages", "attachments": about to read that part of the reconciliation.
CommandPhase == {"idle", "save", "inventory", "messages", "attachments"}

CommandKind == {"none", "pause", "resume", "freeze", "finalize"}

\* seen: the record that was read first.  listed: the snapshot that was read.
\* clean: the checklist so far.
Command ==
  [phase : CommandPhase, kind : CommandKind, seen : StateRecord, listed : Snapshot,
   clean : BOOLEAN]

NoCommand ==
  [phase |-> "idle", kind |-> "none", seen |-> NoState, listed |-> NoSnapshot,
   clean |-> FALSE]

CutoverInit ==
  /\ state = NoState
  /\ inventory = NoSnapshot
  /\ command = [c \in Commands |-> NoCommand]

InStep(c, phase) == command[c].phase = phase

Proceeds(c, e) == command' = [command EXCEPT ![c] = e]

Returns(c) == Proceeds(c, NoCommand)

-----------------------------------------------------------------------------
(* ManageMigrationStateUseCase: pause_delta, resume_delta, freeze_cutover. *)

\* _transition: the whole record that is saved in place of the one seen.
Transition(kind, seen) ==
  CASE kind = "pause"  -> [seen EXCEPT !.status = "paused"]
    [] kind = "resume" -> ActiveState
    [] kind = "freeze" -> [status |-> "paused", frozen |-> TRUE]

\* PostgresMigrationStateRepository.save: whatever is there is replaced.
SaveState(record) == state' = record

\* get: a migration that is seen to be completed is left alone.
ReadState(c, kind) ==
  /\ InStep(c, "idle")
  /\ state.status # "completed"
  /\ Proceeds(c, [NoCommand EXCEPT !.phase = "save", !.kind = kind, !.seen = state])
  /\ UNCHANGED <<state, inventory, row>>

PauseDelta(c) == ReadState(c, "pause")

ResumeDelta(c) == ReadState(c, "resume")

FreezeCutover(c) == ReadState(c, "freeze")

SaveTransition(c) ==
  /\ InStep(c, "save")
  /\ command[c].kind \in {"pause", "resume", "freeze"}
  /\ SaveState(Transition(command[c].kind, command[c].seen))
  /\ Returns(c)
  /\ UNCHANGED <<inventory, row>>

-----------------------------------------------------------------------------
(* InventoryUseCase.                                                       *)

\* replace_for_migration: one transaction.
ReplaceInventory(count) == inventory' = [taken |-> TRUE, count |-> count]

\* list_dialogs counts what is in the chat.  A listing that took its time is an
\* inventory that was taken before.
TakeInventory(present) ==
  /\ ReplaceInventory(present)
  /\ UNCHANGED <<state, command, row>>

-----------------------------------------------------------------------------
(* FinalizeCutoverUseCase over ReconcileMigrationUseCase.                  *)

StartFinalize(c) ==
  /\ InStep(c, "idle")
  /\ Proceeds(c, [NoCommand EXCEPT !.phase = "inventory", !.kind = "finalize",
                                   !.seen = state])
  /\ UNCHANGED <<state, inventory, row>>

ReadInventory(c) ==
  /\ InStep(c, "inventory")
  /\ Proceeds(c, [command[c] EXCEPT !.phase = "messages", !.listed = inventory])
  /\ UNCHANGED <<state, inventory, row>>

\* summarize_by_chat: the messages by the status of their row.
With(status) == {m \in Messages : row[m].status = status}

\* gap_count
Gap(listed) == listed.count # Cardinality(With("imported"))

\* Seeded fault: messages in processing are no blocker.
MessagesClean_IgnoresProcessing(listed) ==
  /\ listed.taken
  /\ ~Gap(listed)
  /\ With("failed") \cup With("ambiguous") = {}

\* What the checklist asks of the counts by status: no gap to the inventory, and
\* nothing failed, ambiguous or in processing.
MessagesClean(listed) ==
  /\ listed.taken
  /\ ~Gap(listed)
  /\ With("failed") \cup With("ambiguous") \cup With("processing") = {}

ReadMessages(c) ==
  /\ InStep(c, "messages")
  /\ Proceeds(c, [command[c] EXCEPT !.phase = "attachments", !.listed = NoSnapshot,
                                    !.clean = MessagesClean(command[c].listed)])
  /\ UNCHANGED <<state, inventory, row>>

\* The attachments, and the operator's acknowledgement of the delivery policy, add
\* blockers or do not.
ReadAttachments(c) ==
  /\ InStep(c, "attachments")
  /\ \E others \in BOOLEAN :
        Proceeds(c, [command[c] EXCEPT !.phase = "save", !.clean = @ /\ others])
  /\ UNCHANGED <<state, inventory, row>>

\* The rest of the checklist is about the record that was seen at the start.
Checklist(e) == e.clean /\ e.seen.frozen /\ e.seen.status = "paused"

\* Completed, or to be reconciled by hand: either record replaces what is there.
SaveFinalized(c) ==
  /\ InStep(c, "save")
  /\ command[c].kind = "finalize"
  /\ SaveState([status |-> IF Checklist(command[c]) THEN "completed"
                           ELSE "needs_manual_reconcile",
                frozen |-> command[c].seen.frozen])
  /\ Returns(c)
  /\ UNCHANGED <<inventory, row>>

-----------------------------------------------------------------------------
CommandStep ==
  \E c \in Commands :
     \/ PauseDelta(c)
     \/ ResumeDelta(c)
     \/ FreezeCutover(c)
     \/ SaveTransition(c)
     \/ StartFinalize(c)
     \/ ReadInventory(c)
     \/ ReadMessages(c)
     \/ ReadAttachments(c)
     \/ SaveFinalized(c)

\* The shape of the records; the delta synchronisation adds the registry's.
CutoverTypeOK ==
  /\ state \in StateRecord
  /\ inventory \in Snapshot
  /\ command \in [Commands -> Command]
=============================================================================
