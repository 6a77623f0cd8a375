---------------------------- MODULE MigrationJobs ----------------------------
(***************************************************************************)
(* The durable job queue in polling mode (Kafka disabled): worker          *)
(* processes take jobs from the migration_job table by lease, execute them *)
(* under a heartbeat, and write how they ended; an operator cancels them;  *)
(* worker processes crash, are stopped and are replaced.                   *)
(*                                                                         *)
(* Source: MigrationJobWorker (application/migration_job_worker.py) over   *)
(* PostgresMigrationJobRepository, and BotControlService.cancel_active_jobs.*)
(*                                                                         *)
(* A worker is one incarnation of the process: worker_id is a fresh uuid   *)
(* for every start, so an incarnation that ended never comes back.  One    *)
(* execution of execute_claimed_job is identified by its job and by the    *)
(* value of attempts that its claim wrote.  Every database call is one     *)
(* atomic step, and anything may happen between two of them.               *)
(*                                                                         *)
(* Left out: what the execution does to the chat (modelled elsewhere), the *)
(* audit events, and the polling delays.                                   *)
(***************************************************************************)
EXTENDS JobTable, Sequences, FiniteSets

CONSTANTS
  Jobs,          \* job keys
  Workers,       \* incarnations of the worker process
  Concurrency,   \* EXTG_WORKER__CONCURRENCY: jobs one worker executes at once
  MaxAttempts,   \* bound: claims of one job
  MaxFaults,     \* bound: faults in a behaviour
  Faults,        \* kinds of fault: see FaultKinds
  Cancellable,   \* jobs whose operator may send /cancel
  Endless        \* jobs that need not end by themselves: a delta_sync waits for events

\* "crash": the process dies.  "stop": it is asked to shut down.  "stall": it
\* misses heartbeats until the lease expires.  "db": a database call raises.
FaultKinds == {"crash", "stop", "stall", "db"}

ASSUME JobsAssumption == IsFiniteSet(Jobs)
ASSUME WorkersAssumption == NoWorker \notin Workers
ASSUME BoundsAssumption ==
  /\ Concurrency \in Nat \ {0}
  /\ MaxAttempts \in Nat \ {0}
  /\ MaxFaults \in Nat
ASSUME FaultsAssumption == Faults \subseteq FaultKinds /\ Cancellable \subseteq Jobs

Attempts == 1 .. MaxAttempts

\* One run of execute_claimed_job: the job and the value of attempts that its
\* claim wrote.
Executions == Jobs \X Attempts
JobOf(e) == e[1]

VARIABLES
  job,        \* [Jobs -> row]: the migration_job table
  requested,  \* job keys in the order of requested_at
  run,        \* [Executions -> execution]
  process,    \* [Workers -> the state of the incarnation]
  listed,     \* jobs a running cancel_active_jobs has read as active
  cancelled,  \* jobs for which request_cancel has been called (history)
  missed,     \* jobs of which a heartbeat was lost (history)
  faults      \* faults so far

vars == <<job, requested, run, process, listed, cancelled, missed, faults>>

\* "stalled" is a live process whose polling task has died; its executions and
\* their heartbeats go on.
ProcessState == {"new", "polling", "stalled", "stopping", "down"}

\* "executing": inside execute_migration_job.  "returned", "raised",
\* "cancelling": about to write completed, failed, cancelled.  "closed": the
\* task has ended, whether or not it wrote the row.
Phase == {"none", "executing", "returned", "raised", "cancelling", "closed"}

\* The heartbeat task: asleep, between its read and its update of the row,
\* ended by its execution, or ended on its own while the execution goes on.
Beat == {"off", "sleep", "read", "dead"}

Execution == [worker : Workers \cup {NoWorker}, phase : Phase, beat : Beat]

NoExecution == [worker |-> NoWorker, phase |-> "none", beat |-> "off"]

Open(e) == run[e].phase \notin {"none", "closed"}

\* len(self._job_tasks)
OpenOn(w) == {e \in Executions : run[e].worker = w /\ Open(e)}

Alive(w) == process[w] \in {"polling", "stalled", "stopping"}

Fault(kind) ==
  /\ kind \in Faults
  /\ faults < MaxFaults
  /\ faults' = faults + 1

Init ==
  /\ job = [j \in Jobs |-> AbsentRow]
  /\ requested = <<>>
  /\ run = [e \in Executions |-> NoExecution]
  /\ process = [w \in Workers |-> "new"]
  /\ listed = {}
  /\ cancelled = {}
  /\ missed = {}
  /\ faults = 0

-----------------------------------------------------------------------------
(* The bot: enqueue and cancel.                                            *)

Enqueue(j) ==
  /\ job[j].status = "absent"
  /\ job' = [job EXCEPT ![j] = QueuedRow]
  /\ requested' = Append(requested, j)
  /\ UNCHANGED <<run, process, listed, cancelled, missed, faults>>

\* cancel_active_jobs reads the active jobs first and then cancels them one by
\* one: by then the job may have been claimed or finished.
ListForCancel(j) ==
  /\ j \in Cancellable
  /\ j \notin listed
  /\ EffectivelyActive(job[j])
  /\ listed' = listed \cup {j}
  /\ UNCHANGED <<job, requested, run, process, cancelled, missed, faults>>

RequestCancel(j) ==
  /\ j \in listed
  /\ listed' = listed \ {j}
  /\ job' = [job EXCEPT ![j] = CancelRequested(@)]
  /\ cancelled' = cancelled \cup {j}
  /\ UNCHANGED <<requested, run, process, missed, faults>>

-----------------------------------------------------------------------------
(* The worker process: start, poll, stop, crash.                           *)

StartWorker(w) ==
  /\ process[w] = "new"
  /\ process' = [process EXCEPT ![w] = "polling"]
  /\ UNCHANGED <<job, requested, run, listed, cancelled, missed, faults>>

\* acquire_next orders the claimable rows by requested_at.  A row that SKIP
\* LOCKED passes over is held by a transaction that leaves it unclaimable, so
\* the claim can be ordered after that transaction: it takes the oldest.
Oldest(j) ==
  \E i \in DOMAIN requested :
     /\ requested[i] = j
     /\ \A k \in 1 .. (i - 1) : ~Claimable(job[requested[k]])

HasFreeSlot(w) == process[w] = "polling" /\ Cardinality(OpenOn(w)) < Concurrency

TakeOldest(w, j) ==
  /\ job[j].attempts < MaxAttempts
  /\ Claimable(job[j])
  /\ Oldest(j)
  /\ job' = [job EXCEPT ![j] = ClaimedBy(@, w)]

AcquireNext(w, j) ==
  /\ HasFreeSlot(w)
  /\ TakeOldest(w, j)
  /\ run' = [run EXCEPT ![<<j, job[j].attempts + 1>>] =
               [worker |-> w, phase |-> "executing", beat |-> "sleep"]]
  /\ UNCHANGED <<requested, process, listed, cancelled, missed, faults>>

\* acquire_next raises, before its transaction commits or after it: nothing
\* catches it, and start() is not called again.
PollingDies(w) ==
  /\ HasFreeSlot(w)
  /\ Fault("db")
  /\ process' = [process EXCEPT ![w] = "stalled"]
  /\ UNCHANGED job \/ \E j \in Jobs : TakeOldest(w, j)
  /\ UNCHANGED <<requested, run, listed, cancelled, missed>>

RequestStop(w) ==
  /\ process[w] \in {"polling", "stalled"}
  /\ Fault("stop")
  /\ process' = [process EXCEPT ![w] = "stopping"]
  /\ UNCHANGED <<job, requested, run, listed, cancelled, missed>>

\* Every task of w ends without another database call.
Ended(w) ==
  [e \in Executions |->
     IF e \in OpenOn(w) THEN [run[e] EXCEPT !.phase = "closed", !.beat = "off"]
                        ELSE run[e]]

\* After the grace period stop() cancels the tasks that are left.  Their
\* cancel_requested event is not set, so the job keeps its row and its lease.
StopEnds(w) ==
  /\ process[w] = "stopping"
  /\ process' = [process EXCEPT ![w] = "down"]
  /\ run' = Ended(w)
  /\ UNCHANGED <<job, requested, listed, cancelled, missed, faults>>

Crash(w) ==
  /\ Alive(w)
  /\ Fault("crash")
  /\ process' = [process EXCEPT ![w] = "down"]
  /\ run' = Ended(w)
  /\ UNCHANGED <<job, requested, listed, cancelled, missed>>

-----------------------------------------------------------------------------
(* The lease.                                                              *)

\* An execution of the row's owner whose heartbeat has not died keeps the lease
\* from expiring, unless the process stalls.
Attended(j) ==
  \E e \in Executions : /\ JobOf(e) = j
                        /\ Open(e)
                        /\ run[e].worker = job[j].worker
                        /\ run[e].beat # "dead"

LeaseExpires(j) ==
  /\ job[j].status = "running"
  /\ job[j].lease = "live"
  /\ job' = [job EXCEPT ![j] = Lapsed(@)]

LeaseLapses(j) ==
  /\ ~Attended(j)
  /\ LeaseExpires(j)
  /\ UNCHANGED <<requested, run, process, listed, cancelled, missed, faults>>

LeaseStalls(j) ==
  /\ Attended(j)
  /\ Fault("stall")
  /\ LeaseExpires(j)
  /\ missed' = missed \cup {j}
  /\ UNCHANGED <<requested, run, process, listed, cancelled>>

-----------------------------------------------------------------------------
(* execute_claimed_job and its heartbeat.                                  *)

SetRun(e, phase, beat) ==
  run' = [run EXCEPT ![e] = [@ EXCEPT !.phase = phase, !.beat = beat]]

ExecutionReturns(e) ==
  /\ run[e].phase = "executing"
  /\ SetRun(e, "returned", "off")
  /\ UNCHANGED <<job, requested, process, listed, cancelled, missed, faults>>

\* The except branch runs with the heartbeat still going.
ExecutionRaises(e) ==
  /\ run[e].phase = "executing"
  /\ SetRun(e, "raised", run[e].beat)
  /\ UNCHANGED <<job, requested, process, listed, cancelled, missed, faults>>

MarkCompleted(e) ==
  /\ run[e].phase = "returned"
  /\ job' = [job EXCEPT ![JobOf(e)] = Completed(@, run[e].worker)]
  /\ SetRun(e, "closed", "off")
  /\ UNCHANGED <<requested, process, listed, cancelled, missed, faults>>

MarkFailed(e) ==
  /\ run[e].phase = "raised"
  /\ job' = [job EXCEPT ![JobOf(e)] = Failed(@, run[e].worker, "execution_error")]
  /\ SetRun(e, "closed", "off")
  /\ UNCHANGED <<requested, process, listed, cancelled, missed, faults>>

\* Seeded fault: a cancelled task is taken for one the operator cancelled, whatever
\* cancelled it.
MarkCancelled_AnyCause(e) ==
  /\ run[e].phase \in {"executing", "cancelling"}
  /\ run[e].phase = "executing" => process[run[e].worker] = "stopping"
  /\ job' = [job EXCEPT ![JobOf(e)] = Failed(@, run[e].worker, "cancelled")]
  /\ SetRun(e, "closed", "off")
  /\ UNCHANGED <<requested, process, listed, cancelled, missed, faults>>

MarkCancelled(e) ==
  /\ run[e].phase = "cancelling"
  /\ job' = [job EXCEPT ![JobOf(e)] = Failed(@, run[e].worker, "cancelled")]
  /\ SetRun(e, "closed", "off")
  /\ UNCHANGED <<requested, process, listed, cancelled, missed, faults>>

\* The closing update raises, and the task ends with the row untouched.
CloseDies(e) ==
  /\ run[e].phase \in {"returned", "raised", "cancelling"}
  /\ Fault("db")
  /\ SetRun(e, "closed", "off")
  /\ UNCHANGED <<job, requested, process, listed, cancelled, missed>>

\* The heartbeat reads the row.
BeatReads(e) ==
  /\ run[e].beat = "sleep"
  /\ job[JobOf(e)].error # "cancel_requested"
  /\ SetRun(e, run[e].phase, "read")
  /\ UNCHANGED <<job, requested, process, listed, cancelled, missed, faults>>

\* Seeded fault: the loop ends at the flag and forgets to cancel the task.
BeatSeesCancel_EndsLoop(e) ==
  /\ run[e].beat = "sleep"
  /\ job[JobOf(e)].error = "cancel_requested"
  /\ SetRun(e, run[e].phase, "off")
  /\ UNCHANGED <<job, requested, process, listed, cancelled, missed, faults>>

\* It finds the flag and cancels its execution.  An execution that has already
\* raised is inside mark_failed: the cancellation interrupts that call, and
\* nothing else writes the row.
BeatSeesCancel(e) ==
  /\ run[e].beat = "sleep"
  /\ job[JobOf(e)].error = "cancel_requested"
  /\ \/ run[e].phase = "executing" /\ SetRun(e, "cancelling", "off")
     \/ run[e].phase = "raised" /\ SetRun(e, "closed", "off")
  /\ UNCHANGED <<job, requested, process, listed, cancelled, missed, faults>>

\* The update that renews the lease, and the loop's test of the stop event.
\* When the lease is lost the heartbeat ends and the execution goes on.
BeatWrites(e) ==
  /\ run[e].beat = "read"
  /\ job' = [job EXCEPT ![JobOf(e)] = Renewed(@, run[e].worker)]
  /\ LET w == run[e].worker
     IN  SetRun(e, run[e].phase,
                CASE ~Owns(job[JobOf(e)], w) -> "dead"
                  [] Owns(job[JobOf(e)], w) /\ process[w] = "stopping" -> "off"
                  [] OTHER -> "sleep")
  /\ UNCHANGED <<requested, process, listed, cancelled, missed, faults>>

\* A stopping process leaves the heartbeat loop at the loop's test.
BeatStops(e) ==
  /\ run[e].beat = "sleep"
  /\ process[run[e].worker] = "stopping"
  /\ SetRun(e, run[e].phase, "off")
  /\ UNCHANGED <<job, requested, process, listed, cancelled, missed, faults>>

\* A database call of the heartbeat raises and ends it.
BeatDies(e) ==
  /\ run[e].beat \in {"sleep", "read"}
  /\ Fault("db")
  /\ SetRun(e, run[e].phase, "dead")
  /\ missed' = missed \cup {JobOf(e)}
  /\ UNCHANGED <<job, requested, process, listed, cancelled>>

-----------------------------------------------------------------------------
BotStep == \E j \in Jobs : Enqueue(j) \/ ListForCancel(j) \/ RequestCancel(j)

ProcessStep ==
  \E w \in Workers :
     \/ StartWorker(w)
     \/ \E j \in Jobs : AcquireNext(w, j)
     \/ PollingDies(w)
     \/ RequestStop(w)
     \/ StopEnds(w)
     \/ Crash(w)

LeaseStep == \E j \in Jobs : LeaseLapses(j) \/ LeaseStalls(j)

ExecutionStep ==
  \E e \in Executions :
     \/ ExecutionReturns(e)
     \/ ExecutionRaises(e)
     \/ MarkCompleted(e)
     \/ MarkFailed(e)
     \/ MarkCancelled(e)
     \/ CloseDies(e)
     \/ BeatReads(e)
     \/ BeatSeesCancel(e)
     \/ BeatWrites(e)
     \/ BeatStops(e)
     \/ BeatDies(e)

Next == BotStep \/ ProcessStep \/ LeaseStep \/ ExecutionStep

Spec == Init /\ [][Next]_vars

-----------------------------------------------------------------------------
(* Fairness: what the event loop, the clock and the supervisor of the      *)
(* process keep doing.  Faults, operators and enqueues are not fair.       *)

\* The deployment has one worker container, which is started again when its process
\* has ended.  It replaces no process that is up, whatever has died inside it; that
\* further workers are started beside it may happen and is not relied upon.
Restart ==
  /\ \A w \in Workers : ~Alive(w)
  /\ \E w \in Workers : StartWorker(w)

\* Database calls complete, heartbeats go on, an asked-for cancellation is
\* delivered, leases run out, and the container is restarted.
RuntimeFairness ==
  /\ WF_vars(Restart)
  /\ \A w \in Workers : /\ WF_vars(StopEnds(w))
                        /\ WF_vars(\E j \in Jobs : AcquireNext(w, j))
  /\ \A j \in Jobs : WF_vars(LeaseLapses(j)) /\ WF_vars(RequestCancel(j))
  /\ \A e \in Executions :
        /\ WF_vars(MarkCompleted(e))
        /\ WF_vars(MarkFailed(e))
        /\ WF_vars(MarkCancelled(e))
        /\ WF_vars(BeatReads(e) \/ BeatSeesCancel(e))
        /\ WF_vars(BeatWrites(e))

\* A backfill ends; the execution of an endless job may go on for ever.
ExecutionsEnd ==
  \A e \in Executions :
     JobOf(e) \notin Endless => WF_vars(ExecutionReturns(e) \/ ExecutionRaises(e))

FairSpec == Spec /\ RuntimeFairness /\ ExecutionsEnd

-----------------------------------------------------------------------------
(* Properties.                                                             *)

\* The shape of the table, of the executions and of the processes.
TypeOK ==
  /\ job \in [Jobs -> JobRow(Workers, 0 .. MaxAttempts)]
  /\ requested \in Seq(Jobs)
  /\ run \in [Executions -> Execution]
  /\ process \in [Workers -> ProcessState]
  /\ listed \subseteq Jobs
  /\ cancelled \subseteq Jobs
  /\ missed \subseteq Jobs
  /\ faults \in 0 .. MaxFaults

\* A cancellation that the row records was asked for by the operator: neither a
\* worker that shuts down nor one that crashes leaves a job marked cancelled.
NoCancelWithoutRequest ==
  \A j \in Jobs :
     job[j].error \in {"cancel_requested", "cancelled"} => j \in cancelled

\* A job of which no heartbeat is lost has one execution at a time, whatever
\* crashes, shutdowns and other errors happen: the lease keeps acquire_next away
\* from a job that is being executed.
OneExecutionPerJob ==
  \A d, e \in Executions :
     Open(d) /\ Open(e) /\ JobOf(d) = JobOf(e) /\ JobOf(d) \notin missed => d = e

\* A job that completed or failed keeps its row for good: no claim, heartbeat,
\* late executor or cancellation reopens or rewrites it.
TerminalIsFinal ==
  [][\A j \in Jobs : Terminal(job[j]) => job'[j] = job[j]]_vars

\* A requested cancellation stays on the row until the job is closed: no worker
\* claims the job again and starts it afresh.
CancelRequestSurvives ==
  [][\A j \in Jobs :
       job[j].status = "running" /\ job[j].error = "cancel_requested" =>
         job'[j].error = "cancel_requested" \/ Terminal(job'[j])]_vars

\* The execution that the last claim of the job started.
LatestClaim(j) == <<j, job[j].attempts>>

\* A running job is closed by the execution that claimed it last.  The one way
\* around it takes a lost heartbeat and stays inside the process that holds the row:
\* worker_id fences off the executions of every other process, but not those of one
\* process from each other.  With two slots, the default, a process can take back its
\* own lapsed job, and the first of the two executions to end closes the job for both.
ClosedByOwner ==
  [][\A j \in Jobs :
       job[j].status = "running" /\ Terminal(job'[j]) =>
         \E e \in Executions :
            /\ JobOf(e) = j
            /\ Open(e) /\ ~Open(e)'
            /\ \/ e = LatestClaim(j)
               \/ j \in missed /\ run[e].worker = job[j].worker]_vars

\* A process takes jobs while it polls and endless jobs do not fill its slots.
Serves(w) ==
  /\ process[w] = "polling"
  /\ Cardinality({e \in OpenOn(w) : JobOf(e) \in Endless}) < Concurrency

\* There is a process that is up, so none is started, and none takes jobs.
Unserved == (\E w \in Workers : Alive(w)) /\ \A w \in Workers : ~Serves(w)

\* An enqueued job that is not endless and that nobody cancels ends, although its
\* worker crashes, is stopped, stalls or cannot write how the job ended: a lease runs
\* out, and the next process or the next slot takes the job.  The exception is a
\* worker that stays up and takes no job any more: its polling task died of a database
\* error, or endless jobs hold all its slots (one of them two, if it lapsed).
JobEnds ==
  \A j \in Jobs \ (Endless \cup Cancellable) :
     (job[j].status = "queued" ~> Terminal(job[j])) \/ <>[]Unserved

\* A cancellation stops what is being executed, even an endless job, unless a
\* heartbeat of the job was lost: the execution it belonged to is beyond reach.
CancelStopsExecution ==
  \A j \in Jobs :
     (job[j].error = "cancel_requested") ~>
        \/ \A e \in Executions : JobOf(e) = j => ~Open(e)
        \/ j \in missed

\* A job whose cancellation was requested while it ran is closed.
CancelEnds ==
  \A j \in Jobs : (job[j].error = "cancel_requested") ~> Terminal(job[j])

\* The state of the job as its operator sees it.
Outward(row) ==
  IF row.status = "failed" /\ row.error = "cancelled" THEN "cancelled" ELSE row.status

LifecycleState == [j \in Jobs |-> Outward(job[j])]

Lifecycle == INSTANCE JobLifecycle WITH state <- LifecycleState, asked <- cancelled

\* Retries, takeovers and late executors are invisible from outside: the queue
\* behaves as if every job were executed once and ended once.
ImplementsLifecycle == Lifecycle!Spec
=============================================================================
