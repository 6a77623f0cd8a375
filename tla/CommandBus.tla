----------------------------- MODULE CommandBus -----------------------------
(***************************************************************************)
(* The Kafka mode end to end: enqueue writes the job and its outbox event  *)
(* in one transaction; every worker process runs an outbox publisher and a *)
(* command consumer side by side (runtime/worker.py), and they start, stop *)
(* and crash together; the command topic connects them.                    *)
(*                                                                         *)
(* OutboxPublisher and CommandConsumer are instantiated over the same      *)
(* topic.  What CommandConsumer assumes of the world (Deliver) is here     *)
(* what OutboxPublisher does.                                              *)
(***************************************************************************)
EXTENDS Integers, Sequences

CONSTANTS
  Jobs, Workers, NoWorker,
  StorageMode, SessionOutlivesLease, BatchSize, Cancellable,
  MaxLeases, MaxAttempts,         \* bounds, see OutboxPublisher, CommandConsumer
  MaxPublisherFaults, MaxConsumerFaults, \* bounds: faults of each half
  PublisherFaults, ConsumerFaults        \* kinds of fault of each half

VARIABLES
  outbox, created, publisher, held, publisherFaults,
  job, inbox, committed, assigned, consumer, cancelled, missed, consumerFaults,
  topic

publisherVars == <<outbox, created, publisher, held, publisherFaults>>
consumerVars ==
  <<job, inbox, committed, assigned, consumer, cancelled, missed, consumerFaults>>
vars == <<publisherVars, consumerVars, topic>>

P == INSTANCE OutboxPublisher
       WITH Events <- Jobs, Publishers <- Workers, NoPublisher <- NoWorker,
            MaxFaults <- MaxPublisherFaults, Faults <- PublisherFaults,
            faults <- publisherFaults

C == INSTANCE CommandConsumer
       WITH MaxCopies <- MaxLeases,
            MaxFaults <- MaxConsumerFaults, Faults <- ConsumerFaults,
            faults <- consumerFaults

ASSUME BusAssumption == P!PublisherAssumption
ASSUME ConsumerAssumption ==
  /\ StorageMode \in {"full", "redacted", "none"}
  /\ SessionOutlivesLease \in BOOLEAN
  /\ MaxAttempts \in Nat

Init == P!Init /\ C!Init

\* Seeded fault: the event is written in a transaction of its own, before the
\* job's.
Enqueue_EventFirst(j) ==
  \/ P!AppendEvent(j) /\ UNCHANGED consumerVars
  \/ outbox[j].status # "absent" /\ C!Enqueue(j) /\ UNCHANGED publisherVars

\* PostgresMigrationJobRepository.enqueue: one transaction.
Enqueue(j) == P!AppendEvent(j) /\ C!Enqueue(j)

\* run_worker starts and stops the two tasks of one process.
StartProcess(w) == P!Start(w) /\ C!Start(w)

StopProcess(w) == P!Stop(w) /\ C!Stop(w)

CrashProcess(w) == P!Crash(w) /\ C!Crash(w)

PublisherStep == (P!TableStep \/ P!TaskStep) /\ UNCHANGED consumerVars

ConsumerStep ==
  /\ C!JobStep \/ C!GroupStep \/ C!HandlerStep \/ C!LoopStep
  /\ UNCHANGED publisherVars

Next ==
  \/ \E j \in Jobs : Enqueue(j)
  \/ \E w \in Workers : StartProcess(w) \/ StopProcess(w) \/ CrashProcess(w)
  \/ PublisherStep
  \/ ConsumerStep

Spec == Init /\ [][Next]_vars

\* The one worker container is started again when its process has ended, and only
\* then: run_worker waits for the stop event, not for its tasks.
Restart ==
  /\ \A w \in Workers : ~P!Alive(w)
  /\ \E w \in Workers : StartProcess(w)

FairSpec ==
  /\ Spec
  /\ P!PublisherFairness
  /\ C!ConsumerFairness
  /\ WF_vars(Restart)

-----------------------------------------------------------------------------
(* Properties.                                                             *)

\* A row of the outbox says published only of an event that is on the topic.
PublishedIsOnTopic == P!PublishedIsOnTopic

\* A publisher that was overtaken cannot rewrite what the one that took over
\* recorded.
MarkIsFinal == P!MarkIsFinal

\* The consumer's half behaves as CommandConsumer says: the outbox delivers only
\* commands of jobs that are in the table, and no more copies of a command than
\* it took leases on its event.
ImplementsConsumer == C!Spec

\* A process is up, so none is started, and no publisher task or no consumer task
\* is left alive.
Halted ==
  /\ \E w \in Workers : P!Alive(w)
  /\ \/ \A w \in Workers : publisher[w].stage \in {"new", "dead", "down"}
     \/ \A w \in Workers : consumer[w].phase \in {"new", "dead", "down"}

\* What keeps a job from ending, if it lasts.
Stranded(j) ==
  \/ outbox[j].status = "failed"
  \/ j \in inbox /\ job[j].status = "running"
  \/ Halted

\* An enqueued job ends, from the enqueue transaction over the outbox, the topic
\* and the inbox to the row that closes it, except in three ways.  Its event was
\* marked failed: nothing leases it again.  Its command was recorded while the job
\* was running under a lease that nobody serves any more (the answer to the claim or
\* the closing call was lost and the retry met the lease of the first try, or the
\* partition moved during a long job whose executor then died): no command is left
\* that would take the job over.  Or a task of the one live process died.
EnqueuedJobEnds ==
  \A j \in Jobs \ Cancellable :
     \/ (job[j].status = "queued") ~> (job[j].status \in {"completed", "failed"})
     \/ <>[]Stranded(j)
=============================================================================
