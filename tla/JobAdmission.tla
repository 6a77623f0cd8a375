---------------------------- MODULE JobAdmission ----------------------------
(***************************************************************************)
(* How the bot admits migration commands while workers execute jobs.  A    *)
(* command (/migrate, /migrate_all, /delta_sync ...) asks for one job per  *)
(* chat of its scope; for each chat in turn the bot reads the active jobs, *)
(* counts the queue, reads the chat's progress, and enqueues.  Every read  *)
(* is a transaction of its own, commands of several users are handled      *)
(* concurrently, and workers go on meanwhile.                              *)
(*                                                                         *)
(* Source: BotControlService._start_fan_out_background_operation and       *)
(* _start_background_operation over PostgresMigrationJobRepository.        *)
(* A command for one chat is a fan-out over one chat; only the wording of  *)
(* its answer differs.  A job_key ends in a random suffix, so a job is     *)
(* named by its command and its chat.                                      *)
(*                                                                         *)
(* Left out: discovery of dialogs, ownership and chat configurations, the  *)
(* answer to the user, the audit events.  What workers do is reduced to    *)
(* what the rows and the progress of the chats show of it; MigrationJobs   *)
(* has the rest.                                                           *)
(***************************************************************************)
EXTENDS JobTable, Sequences, FiniteSets, Functions

CONSTANTS
  Chats,       \* source chats of the migration
  Requests,    \* commands that users send
  Workers,     \* worker processes
  MaxQueued,   \* EXTG_WORKER__BACKPRESSURE_MAX_QUEUED_JOBS, 0 for no limit
  MaxRunning,  \* EXTG_WORKER__BACKPRESSURE_MAX_RUNNING_JOBS, 0 for no limit
  MaxAttempts, \* bound: claims of one job
  MaxFaults,   \* bound: faults in a behaviour
  Faults       \* kinds of fault: "stall" of an executor, "crash" of the bot

ASSUME AdmissionAssumption ==
  /\ NoWorker \notin Workers
  /\ IsFiniteSet(Requests) /\ IsFiniteSet(Chats)
  /\ {MaxQueued, MaxRunning, MaxAttempts, MaxFaults} \subseteq Nat

\* job_key
Jobs == Requests \X Chats
Requester(j) == j[1]
ChatOf(j) == j[2]

VARIABLES
  job,      \* [Jobs -> row]: the migration_job table
  progress, \* [Chats -> what the registry and the checkpoint table hold]
  request,  \* [Requests -> the handling of the command]
  together, \* commands that were in flight at one time, in pairs (history)
  peak,     \* most commands in flight at one time (history)
  missed,   \* jobs whose lease ran out (history)
  faults    \* faults so far

vars == <<job, progress, request, together, peak, missed, faults>>

\* mapped: message mappings exist.  checkpoint: a backfill checkpoint exists.
Progress == [mapped : BOOLEAN, checkpoint : BOOLEAN]

\* What the command is about to do for the head of its scope.
Phase == {"new", "list_active", "count", "summarize", "checkpoint", "enqueue",
          "done", "lost"}

Policy == {"ask", "resume"}

\* todo: the chats still to be handled.  mapped: what summarize_by_chat returned.
Request == [phase : Phase, policy : Policy, todo : Seq(Chats), mapped : BOOLEAN]

InFlight == {r \in Requests : request[r].phase \notin {"new", "done", "lost"}}

Current(r) == Head(request[r].todo)

Key(r) == <<r, Current(r)>>

Init ==
  /\ job = [j \in Jobs |-> AbsentRow]
  /\ progress = [c \in Chats |-> [mapped |-> FALSE, checkpoint |-> FALSE]]
  /\ request = [r \in Requests |->
                  [phase |-> "new", policy |-> "ask", todo |-> <<>>, mapped |-> FALSE]]
  /\ together = {}
  /\ peak = 0
  /\ missed = {}
  /\ faults = 0

Fault(kind) ==
  /\ kind \in Faults
  /\ faults < MaxFaults
  /\ faults' = faults + 1

-----------------------------------------------------------------------------
(* The bot.                                                                *)

\* The chats of a manifest, each once.
Scopes ==
  {s \in UNION {[1 .. n -> Chats] : n \in 1 .. Cardinality(Chats)} : IsInjective(s)}

\* A command arrives.
Submit(r, policy, scope) ==
  /\ request[r].phase = "new"
  /\ request' = [request EXCEPT ![r] =
       [phase |-> "list_active", policy |-> policy, todo |-> scope, mapped |-> FALSE]]
  /\ together' = together \cup (InFlight \X {r}) \cup ({r} \X InFlight)
  /\ LET n == Cardinality(InFlight) + 1
     IN  peak' = IF n > peak THEN n ELSE peak
  /\ UNCHANGED <<job, progress, missed, faults>>

GoTo(r, phase) == request' = [request EXCEPT ![r] = [@ EXCEPT !.phase = phase]]

\* The chat at hand is settled, as accepted, already running or blocked; the loop
\* goes on with the next one.
Settle(r) ==
  LET rest == Tail(request[r].todo)
  IN  request' = [request EXCEPT ![r] =
        [@ EXCEPT !.phase = IF rest = <<>> THEN "done" ELSE "list_active",
                  !.todo = rest]]

\* Seeded fault: only jobs that a worker has taken count as active.
Conflict_RunningOnly(c) ==
  \E j \in Jobs : ChatOf(j) = c /\ EffectivelyActive(job[j]) /\ job[j].status = "running"

\* _list_active_jobs and _jobs_conflict: an active job of the chat.
Conflict(c) == \E j \in Jobs : ChatOf(j) = c /\ EffectivelyActive(job[j])

ListActive(r) ==
  /\ request[r].phase = "list_active"
  /\ IF Conflict(Current(r))
     THEN Settle(r)
     ELSE GoTo(r, "count")
  /\ UNCHANGED <<job, progress, together, peak, missed, faults>>

InStatus(status) == {j \in Jobs : job[j].status = status}

\* Seeded fault: one job too many is let in.
Backpressure_OffByOne ==
  \/ MaxQueued > 0 /\ Cardinality(InStatus("queued")) > MaxQueued
  \/ MaxRunning > 0 /\ Cardinality(InStatus("running")) > MaxRunning

\* _backpressure_reason
Backpressure ==
  \/ MaxQueued > 0 /\ Cardinality(InStatus("queued")) >= MaxQueued
  \/ MaxRunning > 0 /\ Cardinality(InStatus("running")) >= MaxRunning

CountByStatus(r) ==
  /\ request[r].phase = "count"
  /\ IF Backpressure
     THEN Settle(r)
     ELSE GoTo(r, "summarize")
  /\ UNCHANGED <<job, progress, together, peak, missed, faults>>

\* _progress_hints reads the message registry, then the checkpoint.
Summarize(r) ==
  /\ request[r].phase = "summarize"
  /\ request' = [request EXCEPT ![r] =
       [@ EXCEPT !.phase = "checkpoint", !.mapped = progress[Current(r)].mapped]]
  /\ UNCHANGED <<job, progress, together, peak, missed, faults>>

\* Seeded fault: progress is looked for in the checkpoint only.
Refused_CheckpointOnly(mapped, checkpoint, policy) ==
  \/ checkpoint /\ ~mapped
  \/ policy = "ask" /\ checkpoint

\* A checkpoint without mappings is inconsistent; a command that asks is not
\* carried out over any progress.
Refused(mapped, checkpoint, policy) ==
  \/ checkpoint /\ ~mapped
  \/ policy = "ask" /\ (mapped \/ checkpoint)

ReadCheckpoint(r) ==
  /\ request[r].phase = "checkpoint"
  /\ IF Refused(request[r].mapped, progress[Current(r)].checkpoint, request[r].policy)
     THEN Settle(r)
     ELSE GoTo(r, "enqueue")
  /\ UNCHANGED <<job, progress, together, peak, missed, faults>>

Enqueue(r) ==
  /\ request[r].phase = "enqueue"
  /\ job' = [job EXCEPT ![Key(r)] = QueuedRow]
  /\ Settle(r)
  /\ UNCHANGED <<progress, together, peak, missed, faults>>

\* The bot process dies with every command it was handling.
BotCrash ==
  /\ InFlight # {}
  /\ Fault("crash")
  /\ request' = [r \in Requests |->
       IF r \in InFlight THEN [request[r] EXCEPT !.phase = "lost"] ELSE request[r]]
  /\ UNCHANGED <<job, progress, together, peak, missed>>

Cancel(j) ==
  /\ job[j].status # "absent"
  /\ job[j] # CancelRequested(job[j])
  /\ job' = [job EXCEPT ![j] = CancelRequested(@)]
  /\ UNCHANGED <<progress, request, together, peak, missed, faults>>

-----------------------------------------------------------------------------
(* The workers, as far as the bot can see them.                            *)

Claim(j, w) ==
  /\ Claimable(job[j])
  /\ job[j].attempts < MaxAttempts
  /\ job' = [job EXCEPT ![j] = ClaimedBy(@, w)]
  /\ UNCHANGED <<progress, request, together, peak, missed, faults>>

\* The executor died, or it misses its heartbeats.
LeaseExpires(j) ==
  /\ job[j].status = "running"
  /\ job[j].lease = "live"
  /\ Fault("stall")
  /\ job' = [job EXCEPT ![j] = Lapsed(@)]
  /\ missed' = missed \cup {j}
  /\ UNCHANGED <<progress, request, together, peak>>

\* It was only late.
HeartbeatRenews(j) ==
  /\ job[j].status = "running"
  /\ job[j].lease = "expired"
  /\ job' = [job EXCEPT ![j] = Renewed(@, job[j].worker)]
  /\ UNCHANGED <<progress, request, together, peak, missed, faults>>

\* The execution maps a message, or passes one that is not to be delivered.
Import(j) ==
  /\ job[j].status = "running"
  /\ \E p \in {[progress[ChatOf(j)] EXCEPT !.mapped = TRUE],
               [progress[ChatOf(j)] EXCEPT !.checkpoint = TRUE]} :
        progress' = [progress EXCEPT ![ChatOf(j)] = p]
  /\ UNCHANGED <<job, request, together, peak, missed, faults>>

Close(j) ==
  /\ job[j].status = "running"
  /\ \E row \in {Completed(job[j], job[j].worker),
                 Failed(job[j], job[j].worker, "execution_error")} :
        job' = [job EXCEPT ![j] = row]
  /\ UNCHANGED <<progress, request, together, peak, missed, faults>>

-----------------------------------------------------------------------------
BotStep ==
  \/ \E r \in Requests :
        \/ \E policy \in Policy, scope \in Scopes : Submit(r, policy, scope)
        \/ ListActive(r)
        \/ CountByStatus(r)
        \/ Summarize(r)
        \/ ReadCheckpoint(r)
        \/ Enqueue(r)
  \/ BotCrash
  \/ \E j \in Jobs : Cancel(j)

WorkerStep ==
  \E j \in Jobs :
     \/ \E w \in Workers : Claim(j, w)
     \/ LeaseExpires(j)
     \/ HeartbeatRenews(j)
     \/ Import(j)
     \/ Close(j)

Next == BotStep \/ WorkerStep

Spec == Init /\ [][Next]_vars

-----------------------------------------------------------------------------
(* Properties.                                                             *)

\* The shape of the table and of the commands.
TypeOK ==
  /\ job \in [Jobs -> JobRow(Workers, 0 .. MaxAttempts)]
  /\ progress \in [Chats -> Progress]
  /\ request \in [Requests -> Request]
  /\ together \subseteq Requests \X Requests
  /\ peak \in 0 .. Cardinality(Requests)
  /\ missed \subseteq Jobs
  /\ faults \in 0 .. MaxFaults
  /\ \A r \in InFlight : request[r].todo # <<>>

Active(j) == EffectivelyActive(job[j])

\* Two jobs of one chat are active at once only if their commands were in flight
\* at one time, or the lease of one of them ran out: commands that are sent one
\* after the other, and a command that is sent again after the bot crashed in the
\* middle of it, do not put a chat into the queue twice.
OneActiveJobPerChat ==
  \A j, k \in Jobs :
     j # k /\ ChatOf(j) = ChatOf(k) /\ Active(j) /\ Active(k) =>
       \/ <<Requester(j), Requester(k)>> \in together
       \/ j \in missed \/ k \in missed

\* What the runbook promises: a job is not admitted to a chat that has one.  A
\* chat never has two jobs that a worker may execute.
ScopeIsExclusive ==
  \A j, k \in Jobs :
     j # k /\ ChatOf(j) = ChatOf(k) => ~(Active(j) /\ Active(k))

\* The threshold of the queue is exceeded by no more than the commands that were
\* in flight at one time: with one command at a time it is exact, however many
\* chats the command fans out to.
QueueIsBounded ==
  MaxQueued > 0 => Cardinality(InStatus("queued")) < MaxQueued + peak

\* A command that asks first is not carried out over progress that the registry
\* shows, unless a concurrent command or an expired lease made it.
AskedBeforeResume ==
  [][\A r \in Requests :
       /\ request[r].phase = "enqueue" /\ job'[Key(r)].status = "queued"
       /\ request[r].policy = "ask"
       /\ progress[Current(r)].mapped
       => \E j \in Jobs : /\ ChatOf(j) = Current(r)
                          /\ \/ <<Requester(j), r>> \in together
                             \/ j \in missed]_vars
=============================================================================
