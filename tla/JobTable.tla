------------------------------ MODULE JobTable ------------------------------
(***************************************************************************)
(* The rows of the migration_job table and the transactions that           *)
(* PostgresMigrationJobRepository runs on one row.  A transaction is an    *)
(* operator from the row it finds to the row it leaves; the modules that   *)
(* run the transactions (MigrationJobs, CommandBus, JobAdmission) say who  *)
(* runs them and when.                                                     *)
(*                                                                         *)
(* A definition whose name has a suffix after an underscore is the          *)
(* definition before the underscore with a fault seeded in it; the runs    *)
(* are tried against those to see that the properties notice.              *)
(*                                                                         *)
(* Abstracted: lease_expires_at is kept as the outcome of comparing it     *)
(* with the clock ("live" or "expired"), and started_at, finished_at,      *)
(* heartbeat_at and the error payload, which no guard reads, are left out. *)
(***************************************************************************)
EXTENDS Integers

CONSTANTS
  NoWorker     \* worker_id = NULL

JobStatus == {"absent", "queued", "running", "completed", "failed"}

\* last_error_code: NULL, the two cancellation codes, and the type name of an
\* exception the execution raised.
ErrorCode == {"none", "cancel_requested", "cancelled", "execution_error"}

Lease == {"none", "live", "expired"}

\* The rows of a table whose worker_id column holds members of W and whose
\* attempts column stays within Counts.
JobRow(W, Counts) ==
  [status   : JobStatus,
   worker   : W \cup {NoWorker},
   lease    : Lease,
   attempts : Counts,
   error    : ErrorCode]

\* No row with this job_key.
AbsentRow ==
  [status |-> "absent", worker |-> NoWorker, lease |-> "none",
   attempts |-> 0, error |-> "none"]

\* enqueue: the row as it is inserted.
QueuedRow == [AbsentRow EXCEPT !.status = "queued"]

Terminal(row) == row.status \in {"completed", "failed"}

-----------------------------------------------------------------------------
(* claim and acquire_next share one WHERE clause and one set of updates.   *)

\* Seeded fault: the clause forgets that a cancellation was asked for.
Claimable_IgnoresCancel(row) ==
  \/ row.status = "queued"
  \/ row.status = "running" /\ row.lease # "live"

\* Seeded fault: the clause forgets the lease.
Claimable_IgnoresLease(row) ==
  \/ row.status = "queued"
  \/ row.status = "running" /\ row.error # "cancel_requested"

\* Seeded fault: only queued rows are taken.
Claimable_QueuedOnly(row) == row.status = "queued"

\* Seeded fault: the clause forgets the status.
Claimable_AnyStatus(row) == row.status # "absent" /\ row.lease # "live"

Claimable(row) ==
  \/ row.status = "queued"
  \/ /\ row.status = "running"
     /\ row.error # "cancel_requested"
     /\ row.lease # "live"

ClaimedBy(row, w) ==
  [status |-> "running", worker |-> w, lease |-> "live",
   attempts |-> row.attempts + 1, error |-> "none"]

-----------------------------------------------------------------------------
(* heartbeat, mark_completed and mark_failed update the row only where     *)
(* worker_id is the caller's and the status is still running.              *)

\* Seeded fault: the update is keyed by the status only.
Owns_AnyWorker(row, w) == row.status = "running"

Owns(row, w) == row.status = "running" /\ row.worker = w

\* Seeded fault: the renewal counts as one more attempt.
Renewed_CountsAttempt(row, w) ==
  IF Owns(row, w) THEN [row EXCEPT !.lease = "live", !.attempts = @ + 1] ELSE row

Renewed(row, w) ==
  IF Owns(row, w) THEN [row EXCEPT !.lease = "live"] ELSE row

\* The clock passes lease_expires_at.
Lapsed(row) == [row EXCEPT !.lease = "expired"]

\* mark_completed leaves last_error_code as it is.
Completed(row, w) ==
  IF Owns(row, w) THEN [row EXCEPT !.status = "completed", !.lease = "none"]
                  ELSE row

Failed(row, w, code) ==
  IF Owns(row, w)
  THEN [row EXCEPT !.status = "failed", !.lease = "none", !.error = code]
  ELSE row

-----------------------------------------------------------------------------
(* request_cancel: a queued row fails at once, a running row is flagged    *)
(* for its executor, any other row is left alone.                          *)

\* Seeded fault: the flag is written over a row in any state.
CancelRequested_AnyStatus(row) ==
  IF row.status = "queued"
  THEN [row EXCEPT !.status = "failed", !.lease = "none", !.error = "cancelled"]
  ELSE [row EXCEPT !.status = "running", !.error = "cancel_requested"]

CancelRequested(row) ==
  CASE row.status = "queued" ->
         [row EXCEPT !.status = "failed", !.lease = "none", !.error = "cancelled"]
    [] row.status = "running" ->
         [row EXCEPT !.error = "cancel_requested"]
    [] OTHER -> row

\* BotControlService._is_effectively_active_job: what admission and /cancel
\* count as an active job.  A running row whose lease has expired is not one.
EffectivelyActive(row) ==
  \/ row.status = "queued"
  \/ row.status = "running" /\ row.lease # "expired"
=============================================================================
