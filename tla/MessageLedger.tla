---------------------------- MODULE MessageLedger ----------------------------
(***************************************************************************)
(* The rows of migration_message_map, the registry of what was delivered,  *)
(* and the updates that PostgresMessageMappingRepository makes to one row. *)
(* Nobody owns a row: mark_imported, mark_ambiguous and mark_failed are    *)
(* keyed by the message alone; ChatDelivery says who calls them and when.  *)
(*                                                                         *)
(* Abstracted: updated_at is kept as whether it is younger than            *)
(* processing_stale_after, in the statuses of which claim compares it      *)
(* (fresh is FALSE in the others); target_sync_id as whether it is set;    *)
(* the body, the checksum and the error payload, which no guard reads, are *)
(* left out.                                                               *)
(***************************************************************************)

MessageStatus == {"absent", "processing", "imported", "failed", "ambiguous"}

\* last_error_code: NULL, the cancellation codes, AmbiguousDeliveryError,
\* AttachmentDeliveryAmbiguous, AttachmentDeliveryIncomplete, another error.
MessageError == {"none", "cancelled", "unclear", "attachment_unclear",
                 "attachment_incomplete", "error"}

MessageRow ==
  [status : MessageStatus, sync : BOOLEAN, error : MessageError, fresh : BOOLEAN]

NoRow == [status |-> "absent", sync |-> FALSE, error |-> "none", fresh |-> FALSE]

\* claim: a row that is inserted, or taken over.
ClaimedRow == [status |-> "processing", sync |-> FALSE, error |-> "none", fresh |-> TRUE]

\* Seeded fault: a row is taken over however young it is.
Stale_HoweverYoung(row) == row.status = "processing"

\* A row in processing whose owner has not been heard of for a while.
Stale(row) == row.status = "processing" /\ ~row.fresh

\* An ambiguous row of which no target_sync_id is known may be sent again.
RetryableAmbiguous(row) ==
  row.status = "ambiguous" /\ row.error = "unclear" /\ ~row.sync /\ ~row.fresh

\* A delivery that a cancellation interrupted.
RetryableCancel(row) == row.status = "failed" /\ row.error = "cancelled"

ImportedRow(row) ==
  [status |-> "imported", sync |-> TRUE, error |-> "none", fresh |-> FALSE]

\* mark_ambiguous and mark_failed leave target_sync_id as it is.
AmbiguousRow(row, code) ==
  [row EXCEPT !.status = "ambiguous", !.error = code, !.fresh = TRUE]

FailedRow(row, code) ==
  [row EXCEPT !.status = "failed", !.error = code, !.fresh = FALSE]

\* The message is accounted for: delivered, or reported as not delivered.
SettledRow(row) == row.status \in {"imported", "failed"}
=============================================================================
