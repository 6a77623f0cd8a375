--------------------------- MODULE CommandConsumer ---------------------------
(***************************************************************************)
(* The job queue in Kafka mode: a worker process does not poll the job     *)
(* table, it reads migration.job.requested commands from the command topic,*)
(* claims the job a command names, executes it inline, records the command *)
(* in the inbox, and commits the offset.                                   *)
(*                                                                         *)
(* Source: ConfluentKafkaMigrationCommandConsumer, MigrationCommandHandler *)
(* and MigrationJobWorker.execute_claimed_job over the job and inbox       *)
(* repositories.  The broker's group coordinator is external: it assigns   *)
(* the partition to one consumer of the group, takes it back from one that *)
(* is gone or has not polled for max.poll.interval.ms, and hands it over   *)
(* from the committed offset.  There is one partition and one command for  *)
(* each job, delivered once or more often.                                 *)
(*                                                                         *)
(* The heartbeat of an execution is folded into the lease (Attended) and   *)
(* into HeartbeatCancels; MigrationJobs has its steps one by one.  Left    *)
(* out: commands of another type, envelopes that do not parse, audit       *)
(* events, the value of the service watermark.                             *)
(***************************************************************************)
EXTENDS JobTable, Sequences, FiniteSets

CONSTANTS
  Jobs,          \* job keys
  Workers,       \* incarnations of the worker process
  StorageMode,   \* EXTG_POSTGRES__PAYLOAD_STORAGE_MODE
  SessionOutlivesLease, \* the broker's session timeout exceeds the job lease
  MaxCopies,     \* bound: deliveries of one command to the topic
  MaxAttempts,   \* bound: claims of one job
  MaxFaults,     \* bound: faults in a behaviour
  Faults,        \* kinds of fault: see FaultKinds
  Cancellable    \* jobs whose operator may send /cancel

\* "crash": the process dies.  "stop": it is asked to shut down.  "stall": it
\* misses heartbeats until the lease expires.  "long": a job keeps the consumer
\* from polling for max.poll.interval.ms.  "db": a call to the database or to the
\* broker raises.
FaultKinds == {"crash", "stop", "stall", "long", "db"}

ASSUME WorkersAssumption == NoWorker \notin Workers
ASSUME ModeAssumption ==
  /\ StorageMode \in {"full", "redacted", "none"}
  /\ SessionOutlivesLease \in BOOLEAN
  /\ {MaxCopies, MaxAttempts, MaxFaults} \subseteq Nat

VARIABLES
  job,        \* [Jobs -> row]: the migration_job table
  inbox,      \* commands recorded in consumer_inbox, by the job they name
  topic,      \* the partition of the command topic
  committed,  \* number of commands below the committed offset
  assigned,   \* the consumer that the partition is assigned to
  consumer,   \* [Workers -> the consumer task]
  cancelled,  \* jobs for which request_cancel has been called (history)
  missed,     \* jobs whose lease ran out under their executor (history)
  faults      \* faults so far

vars == <<job, inbox, topic, committed, assigned, consumer, cancelled, missed, faults>>

\* "dedup", "claiming", "marking": about to read the inbox, to claim, to write
\* the inbox.  "executing" to "cancelling": inside execute_claimed_job, as in
\* MigrationJobs.  "seeking": the handler raised.  "committing": it returned.
\* "dead": the consumer task died of an exception, the process lives.
Phase == {"new", "polling", "dedup", "claiming", "executing", "returned", "raised",
          "cancelling", "marking", "seeking", "committing", "dead", "down"}

\* next: the number of the command that the next poll returns.  at: the number
\* of the command in hand.
Consumer == [phase : Phase, next : Nat, at : Nat]

InHand(w) == topic[consumer[w].at]

Executing(w) == consumer[w].phase \in {"executing", "returned", "raised", "cancelling"}

Fault(kind) ==
  /\ kind \in Faults
  /\ faults < MaxFaults
  /\ faults' = faults + 1

Init ==
  /\ job = [j \in Jobs |-> AbsentRow]
  /\ inbox = {}
  /\ topic = <<>>
  /\ committed = 0
  /\ assigned = NoWorker
  /\ consumer = [w \in Workers |-> [phase |-> "new", next |-> 1, at |-> 0]]
  /\ cancelled = {}
  /\ missed = {}
  /\ faults = 0

-----------------------------------------------------------------------------
(* The bot and the outbox, seen from here.                                 *)

Enqueue(j) ==
  /\ job[j].status = "absent"
  /\ job' = [job EXCEPT ![j] = QueuedRow]
  /\ UNCHANGED <<inbox, topic, committed, assigned, consumer, cancelled, missed, faults>>

Copies(j) == Cardinality({i \in DOMAIN topic : topic[i] = j})

\* The outbox delivers a command, once or more often (see OutboxPublisher).
Deliver(j) ==
  /\ job[j].status # "absent"
  /\ Copies(j) < MaxCopies
  /\ topic' = Append(topic, j)
  /\ UNCHANGED <<job, inbox, committed, assigned, consumer, cancelled, missed, faults>>

\* cancel_active_jobs found the job active at some time since it was enqueued;
\* when the request arrives the row may be in any state.
RequestCancel(j) ==
  /\ j \in Cancellable \ cancelled
  /\ job[j].status # "absent"
  /\ job' = [job EXCEPT ![j] = CancelRequested(@)]
  /\ cancelled' = cancelled \cup {j}
  /\ UNCHANGED <<inbox, topic, committed, assigned, consumer, missed, faults>>

-----------------------------------------------------------------------------
(* The consumer group (external).                                          *)

\* A consumer joins the group when it polls, and starts at the committed offset.
Assign(w) ==
  /\ assigned = NoWorker
  /\ consumer[w].phase = "polling"
  /\ assigned' = w
  /\ consumer' = [consumer EXCEPT ![w] = [@ EXCEPT !.next = committed + 1]]
  /\ UNCHANGED <<job, inbox, topic, committed, cancelled, missed, faults>>

\* A process that died is missed after the session timeout; one whose consumer
\* task died is missed after max.poll.interval.ms.
Evict(w) ==
  /\ assigned = w
  /\ consumer[w].phase \in {"dead", "down"}
  /\ SessionOutlivesLease =>
       ~\E j \in Jobs : Owns(job[j], w) /\ job[j].lease = "live"
  /\ assigned' = NoWorker
  /\ UNCHANGED <<job, inbox, topic, committed, consumer, cancelled, missed, faults>>

\* A job lasts longer than max.poll.interval.ms: the group goes on without w.
PollIntervalExceeded(w) ==
  /\ assigned = w
  /\ Executing(w)
  /\ Fault("long")
  /\ assigned' = NoWorker
  /\ UNCHANGED <<job, inbox, topic, committed, consumer, cancelled, missed>>

-----------------------------------------------------------------------------
(* The lease of a job that is being executed.                              *)

Attended(j) ==
  \E w \in Workers : Executing(w) /\ InHand(w) = j /\ job[j].worker = w

LeaseExpires(j) ==
  /\ job[j].status = "running"
  /\ job[j].lease = "live"
  /\ job' = [job EXCEPT ![j] = Lapsed(@)]

LeaseLapses(j) ==
  /\ ~Attended(j)
  /\ LeaseExpires(j)
  /\ UNCHANGED <<inbox, topic, committed, assigned, consumer, cancelled, missed, faults>>

LeaseStalls(j) ==
  /\ Attended(j)
  /\ Fault("stall")
  /\ LeaseExpires(j)
  /\ missed' = missed \cup {j}
  /\ UNCHANGED <<inbox, topic, committed, assigned, consumer, cancelled>>

\* The heartbeat renews a lease that expired and that nobody took.
HeartbeatRenews(w) ==
  /\ Executing(w)
  /\ job[InHand(w)].lease = "expired"
  /\ Owns(job[InHand(w)], w)
  /\ job' = [job EXCEPT ![InHand(w)] = Renewed(@, w)]
  /\ UNCHANGED <<inbox, topic, committed, assigned, consumer, cancelled, missed, faults>>

-----------------------------------------------------------------------------
(* The consumer task: poll, handle, commit or seek.                        *)

SetPhase(w, phase) ==
  consumer' = [consumer EXCEPT ![w] = [@ EXCEPT !.phase = phase]]

Start(w) ==
  /\ consumer[w].phase = "new"
  /\ SetPhase(w, "polling")
  /\ UNCHANGED <<job, inbox, topic, committed, assigned, cancelled, missed, faults>>

Poll(w) ==
  /\ consumer[w].phase = "polling"
  /\ assigned = w
  /\ consumer[w].next <= Len(topic)
  /\ consumer' = [consumer EXCEPT ![w] =
                    [phase |-> "dedup", next |-> @.next + 1, at |-> @.next]]
  /\ UNCHANGED <<job, inbox, topic, committed, assigned, cancelled, missed, faults>>

\* handle: a command in the inbox is a duplicate; one whose stored payload has no
\* job_key is invalid; for any other the job is claimed.
IsProcessed(w) ==
  /\ consumer[w].phase = "dedup"
  /\ SetPhase(w, CASE InHand(w) \in inbox -> "committing"
                   [] InHand(w) \notin inbox /\ StorageMode = "none" -> "marking"
                   [] OTHER -> "claiming")
  /\ UNCHANGED <<job, inbox, topic, committed, assigned, cancelled, missed, faults>>

Claim(w) ==
  /\ consumer[w].phase = "claiming"
  /\ LET j == InHand(w)
     IN  \/ /\ Claimable(job[j])
            /\ job[j].attempts < MaxAttempts
            /\ job' = [job EXCEPT ![j] = ClaimedBy(@, w)]
            /\ SetPhase(w, "executing")
         \/ /\ ~Claimable(job[j])
            /\ SetPhase(w, "marking")
            /\ UNCHANGED job
  /\ UNCHANGED <<inbox, topic, committed, assigned, cancelled, missed, faults>>

\* The claim commits and its answer is lost.
ClaimAnswerLost(w) ==
  /\ consumer[w].phase = "claiming"
  /\ Claimable(job[InHand(w)])
  /\ job[InHand(w)].attempts < MaxAttempts
  /\ Fault("db")
  /\ job' = [job EXCEPT ![InHand(w)] = ClaimedBy(@, w)]
  /\ SetPhase(w, "seeking")
  /\ UNCHANGED <<inbox, topic, committed, assigned, cancelled, missed>>

\* Any other database call of the handler raises.
CallRaises(w) ==
  /\ consumer[w].phase \in {"dedup", "claiming", "returned", "raised", "cancelling", "marking"}
  /\ Fault("db")
  /\ SetPhase(w, "seeking")
  /\ UNCHANGED <<job, inbox, topic, committed, assigned, cancelled, missed>>

ExecutionReturns(w) ==
  /\ consumer[w].phase = "executing"
  /\ SetPhase(w, "returned")
  /\ UNCHANGED <<job, inbox, topic, committed, assigned, cancelled, missed, faults>>

ExecutionRaises(w) ==
  /\ consumer[w].phase = "executing"
  /\ SetPhase(w, "raised")
  /\ UNCHANGED <<job, inbox, topic, committed, assigned, cancelled, missed, faults>>

MarkCompleted(w) ==
  /\ consumer[w].phase = "returned"
  /\ job' = [job EXCEPT ![InHand(w)] = Completed(@, w)]
  /\ SetPhase(w, "marking")
  /\ UNCHANGED <<inbox, topic, committed, assigned, cancelled, missed, faults>>

MarkFailed(w) ==
  /\ consumer[w].phase = "raised"
  /\ job' = [job EXCEPT ![InHand(w)] = Failed(@, w, "execution_error")]
  /\ SetPhase(w, "marking")
  /\ UNCHANGED <<inbox, topic, committed, assigned, cancelled, missed, faults>>

MarkCancelled(w) ==
  /\ consumer[w].phase = "cancelling"
  /\ job' = [job EXCEPT ![InHand(w)] = Failed(@, w, "cancelled")]
  /\ SetPhase(w, "marking")
  /\ UNCHANGED <<inbox, topic, committed, assigned, cancelled, missed, faults>>

\* The heartbeat cancels the task it runs beside, which is the consumer task:
\* inside mark_failed the cancellation ends the task.
HeartbeatCancels(w) ==
  /\ Executing(w)
  /\ job[InHand(w)].error = "cancel_requested"
  /\ \/ consumer[w].phase = "executing" /\ SetPhase(w, "cancelling")
     \/ consumer[w].phase = "raised" /\ SetPhase(w, "dead")
  /\ UNCHANGED <<job, inbox, topic, committed, assigned, cancelled, missed, faults>>

MarkProcessed(w) ==
  /\ consumer[w].phase = "marking"
  /\ inbox' = inbox \cup {InHand(w)}
  /\ SetPhase(w, "committing")
  /\ UNCHANGED <<job, topic, committed, assigned, cancelled, missed, faults>>

\* Seeded fault: the offset is committed although the handler raised.
Seek_CommitsAnyway(w) ==
  /\ consumer[w].phase = "seeking"
  /\ committed' = IF assigned = w THEN consumer[w].at ELSE committed
  /\ SetPhase(w, "polling")
  /\ UNCHANGED <<job, inbox, topic, assigned, cancelled, missed, faults>>

\* The handler raised: back to the command in hand.  Nothing catches the error
\* of a seek on a partition that was taken away.
Seek(w) ==
  /\ consumer[w].phase = "seeking"
  /\ IF assigned = w
     THEN consumer' = [consumer EXCEPT ![w] =
                         [phase |-> "polling", next |-> @.at, at |-> @.at]]
     ELSE SetPhase(w, "dead")
  /\ UNCHANGED <<job, inbox, topic, committed, assigned, cancelled, missed, faults>>

\* The broker refuses the commit of a consumer that the group has replaced, and
\* nothing catches the error.  While the group is empty it may take it.
Commit(w) ==
  /\ consumer[w].phase = "committing"
  /\ \/ /\ assigned \in {w, NoWorker}
        /\ committed' = consumer[w].at
        /\ SetPhase(w, "polling")
     \/ /\ assigned # w
        /\ SetPhase(w, "dead")
        /\ UNCHANGED committed
  /\ UNCHANGED <<job, inbox, topic, assigned, cancelled, missed, faults>>

\* A seek, a commit or the update of the watermark that follows it raises, although
\* the partition need not have moved: they are outside the try block.
LoopDies(w) ==
  /\ consumer[w].phase \in {"seeking", "committing"}
  /\ Fault("db")
  /\ SetPhase(w, "dead")
  /\ \/ UNCHANGED committed
     \/ /\ consumer[w].phase = "committing"
        /\ assigned \in {w, NoWorker}
        /\ committed' = consumer[w].at
  /\ UNCHANGED <<job, inbox, topic, assigned, cancelled, missed>>

\* stop() waits for the command in hand, then leaves the group.
Stop(w) ==
  /\ consumer[w].phase \in {"polling", "dead"}
  /\ Fault("stop")
  /\ SetPhase(w, "down")
  /\ assigned' = IF assigned = w THEN NoWorker ELSE assigned
  /\ UNCHANGED <<job, inbox, topic, committed, cancelled, missed>>

Crash(w) ==
  /\ consumer[w].phase \notin {"new", "down"}
  /\ Fault("crash")
  /\ SetPhase(w, "down")
  /\ UNCHANGED <<job, inbox, topic, committed, assigned, cancelled, missed>>

-----------------------------------------------------------------------------
JobStep == \E j \in Jobs : RequestCancel(j) \/ LeaseLapses(j) \/ LeaseStalls(j)

GroupStep == \E w \in Workers : Assign(w) \/ Evict(w) \/ PollIntervalExceeded(w)

HandlerStep ==
  \E w \in Workers :
     \/ IsProcessed(w)
     \/ Claim(w)
     \/ ClaimAnswerLost(w)
     \/ CallRaises(w)
     \/ ExecutionReturns(w)
     \/ ExecutionRaises(w)
     \/ MarkCompleted(w)
     \/ MarkFailed(w)
     \/ MarkCancelled(w)
     \/ HeartbeatRenews(w)
     \/ HeartbeatCancels(w)
     \/ MarkProcessed(w)

LoopStep == \E w \in Workers : Poll(w) \/ Seek(w) \/ Commit(w) \/ LoopDies(w)

ProcessStep == \E w \in Workers : Start(w) \/ Stop(w) \/ Crash(w)

Next ==
  \/ \E j \in Jobs : Enqueue(j) \/ Deliver(j)
  \/ JobStep
  \/ GroupStep
  \/ HandlerStep
  \/ LoopStep
  \/ ProcessStep

Spec == Init /\ [][Next]_vars

\* The one worker container is started again when its process has ended; a process
\* whose consumer task is dead is up, and is not replaced.
Restart ==
  /\ \A w \in Workers : consumer[w].phase \in {"new", "down"}
  /\ \E w \in Workers : Start(w)

\* Calls complete, executions end, leases run out, the group coordinator evicts
\* and assigns.
ConsumerFairness ==
  /\ \A w \in Workers :
        /\ WF_vars(Evict(w))
        /\ WF_vars(Poll(w) \/ Seek(w) \/ Commit(w))
        /\ WF_vars(IsProcessed(w) \/ Claim(w) \/ MarkProcessed(w))
        /\ WF_vars(ExecutionReturns(w) \/ ExecutionRaises(w))
        /\ WF_vars(MarkCompleted(w) \/ MarkFailed(w) \/ MarkCancelled(w))
  /\ WF_vars(\E w \in Workers : Assign(w))
  /\ \A j \in Jobs : WF_vars(LeaseLapses(j))

\* The outbox delivers the command of every job.
Delivery == \A j \in Jobs : WF_vars(Copies(j) = 0 /\ Deliver(j))

FairSpec == Spec /\ ConsumerFairness /\ WF_vars(Restart) /\ Delivery

-----------------------------------------------------------------------------
(* Properties.                                                             *)

\* The shape of the table, the inbox, the topic and the consumers.
TypeOK ==
  /\ job \in [Jobs -> JobRow(Workers, 0 .. MaxAttempts)]
  /\ inbox \subseteq Jobs
  /\ topic \in Seq(Jobs)
  /\ committed \in 0 .. Len(topic)
  /\ assigned \in Workers \cup {NoWorker}
  /\ consumer \in [Workers -> Consumer]
  /\ cancelled \subseteq Jobs
  /\ missed \subseteq Jobs
  /\ faults \in 0 .. MaxFaults

\* The offset never passes a command that has not been recorded in the inbox: a
\* crash, an error or a rebalance between handling and commit costs a second
\* delivery, never a command.
NoCommandSkipped == \A i \in 1 .. committed : topic[i] \in inbox

\* Two consumers never execute one job, unless its lease ran out under the first:
\* although the command is delivered again while the first one is busy.
OneExecutionPerJob ==
  \A v, w \in Workers :
     /\ Executing(v) /\ Executing(w)
     /\ InHand(v) = InHand(w)
     /\ InHand(v) \notin missed
     => v = w

\* The state of the job as its operator sees it.
Outward(row) ==
  IF row.status = "failed" /\ row.error = "cancelled" THEN "cancelled" ELSE row.status

LifecycleState == [j \in Jobs |-> Outward(job[j])]

Lifecycle == INSTANCE JobLifecycle WITH state <- LifecycleState, asked <- cancelled

\* Redelivered commands, rebalances and late executors are invisible from
\* outside: the Kafka mode keeps the promise that the polling mode keeps.
ImplementsLifecycle == Lifecycle!Spec

\* An enqueued job that nobody cancels ends.
JobEnds ==
  \A j \in Jobs \ Cancellable : (job[j].status = "queued") ~> Terminal(job[j])
=============================================================================
