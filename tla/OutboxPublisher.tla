--------------------------- MODULE OutboxPublisher ---------------------------
(***************************************************************************)
(* The transactional outbox: the event that enqueue writes together with   *)
(* the job is leased by the publisher task of a worker process, sent to    *)
(* the command topic, and marked published or failed.                      *)
(*                                                                         *)
(* Source: IntegrationOutboxPublisher, PostgresOutboxRepository and        *)
(* ConfluentKafkaIntegrationEventPublisher.  The broker and the producer   *)
(* client are external: they are modelled by what publish() can observe of *)
(* them.  There is one event for each job, named by its job.               *)
(*                                                                         *)
(* Left out: the payload (CommandConsumer says what is stored of it), the  *)
(* partitions other than the one looked at, the polling delays, and the    *)
(* service watermark, which only the metrics read.                         *)
(***************************************************************************)
EXTENDS Integers, Sequences, FiniteSets

CONSTANTS
  Events,        \* outbox events, by the job that they request
  Publishers,    \* incarnations of the worker process
  NoPublisher,   \* leased_by = NULL
  BatchSize,     \* EXTG_WORKER__OUTBOX_PUBLISHER_BATCH_SIZE
  MaxLeases,     \* bound: leases of one event
  MaxFaults,     \* bound: faults in a behaviour
  Faults         \* kinds of fault: see FaultKinds

\* "crash": the process dies.  "stop": it is asked to shut down.  "slow": a lease
\* runs out while its publisher is alive.  "broker": the broker refuses an event
\* or does not answer in time.  "db": a database call raises.
FaultKinds == {"crash", "stop", "slow", "broker", "db"}

\* What is assumed of the constants (CommandBus states it for its instance).
PublisherAssumption ==
  /\ NoPublisher \notin Publishers
  /\ BatchSize \in Nat \ {0}
  /\ MaxLeases \in Nat \ {0}
  /\ MaxFaults \in Nat

VARIABLES
  outbox,    \* [Events -> row]: the integration_outbox table
  created,   \* events in the order of created_at
  topic,     \* the partition of the command topic
  publisher, \* [Publishers -> the publisher task]
  held,      \* [Publishers -> sends its producer client has not given up]
  faults     \* faults so far

vars == <<outbox, created, topic, publisher, held, faults>>

OutboxStatus == {"absent", "pending", "leased", "published", "failed"}

OutboxRow ==
  [status : OutboxStatus,
   owner  : Publishers \cup {NoPublisher},
   lease  : {"none", "live", "expired"},
   leases : 0 .. MaxLeases]

AbsentEvent ==
  [status |-> "absent", owner |-> NoPublisher, lease |-> "none", leases |-> 0]

\* "sending": about to publish the head of its batch.  "acked", "refused": the
\* call came back and the row is about to be marked.  "dead": the task died of
\* an exception, the process lives.  "down": the process is gone.
Stage == {"new", "idle", "sending", "acked", "refused", "dead", "down"}

\* A send: its event, and the number of leases of the event so far.
Send == Events \X (0 .. MaxLeases)

Publisher == [stage : Stage, batch : Seq(Events)]

Event(p) == Head(publisher[p].batch)

Alive(p) == publisher[p].stage \notin {"new", "down"}

Fault(kind) ==
  /\ kind \in Faults
  /\ faults < MaxFaults
  /\ faults' = faults + 1

Init ==
  /\ outbox = [e \in Events |-> AbsentEvent]
  /\ created = <<>>
  /\ topic = <<>>
  /\ publisher = [p \in Publishers |-> [stage |-> "new", batch |-> <<>>]]
  /\ held = [p \in Publishers |-> {}]
  /\ faults = 0

-----------------------------------------------------------------------------
(* The table.                                                              *)

\* enqueue inserts the event in the transaction that inserts the job.
AppendEvent(e) ==
  /\ outbox[e].status = "absent"
  /\ outbox' = [outbox EXCEPT ![e] = [AbsentEvent EXCEPT !.status = "pending"]]
  /\ created' = Append(created, e)
  /\ UNCHANGED <<topic, publisher, held, faults>>

\* Seeded fault: an expired lease is not taken over.
Leasable_PendingOnly(row) == row.status = "pending"

Leasable(row) ==
  \/ row.status = "pending"
  \/ row.status = "leased" /\ row.lease # "live"

\* Seeded fault: the marks are keyed by event_id only.
Holds_AnyOwner(row, p) == row.status # "absent"

Holds(row, p) == row.status = "leased" /\ row.owner = p

Marked(row, status) ==
  [row EXCEPT !.status = status, !.owner = NoPublisher, !.lease = "none"]

\* The clock passes lease_expires_at.
LeaseRunsOut(e) ==
  /\ outbox[e].status = "leased"
  /\ outbox[e].lease = "live"
  /\ outbox' = [outbox EXCEPT ![e] = [@ EXCEPT !.lease = "expired"]]

\* A publisher that is at work on its batch is faster than the lease.
AtWork(p) == publisher[p].stage \in {"sending", "acked", "refused"}

Attended(e) == \E p \in Publishers : outbox[e].owner = p /\ AtWork(p)

LeaseLapses(e) ==
  /\ ~Attended(e)
  /\ LeaseRunsOut(e)
  /\ UNCHANGED <<created, topic, publisher, held, faults>>

LeaseOverrun(e) ==
  /\ Attended(e)
  /\ Fault("slow")
  /\ LeaseRunsOut(e)
  /\ UNCHANGED <<created, topic, publisher, held>>

-----------------------------------------------------------------------------
(* The publisher task.                                                     *)

Start(p) ==
  /\ publisher[p].stage = "new"
  /\ publisher' = [publisher EXCEPT ![p] = [stage |-> "idle", batch |-> <<>>]]
  /\ UNCHANGED <<outbox, created, topic, held, faults>>

\* lease_batch: the oldest leasable events, at most BatchSize of them, by their
\* positions in created, in that order.  There is one such batch.
OldestLeasable ==
  LET due  == {i \in DOMAIN created : Leasable(outbox[created[i]])}
      size == IF Cardinality(due) < BatchSize THEN Cardinality(due) ELSE BatchSize
  IN  {place \in [1 .. size -> due] :
         /\ \A m, n \in 1 .. size : m < n => place[m] < place[n]
         /\ \A i \in due, n \in 1 .. size :
               i < place[n] => \E m \in 1 .. size : place[m] = i}

Take(p, batch) ==
  LET Taken(e) == \E n \in DOMAIN batch : batch[n] = e
  IN  /\ batch # <<>>
      /\ \A e \in Events : Taken(e) => outbox[e].leases < MaxLeases
      /\ outbox' = [e \in Events |->
                      IF Taken(e)
                      THEN [status |-> "leased", owner |-> p, lease |-> "live",
                            leases |-> outbox[e].leases + 1]
                      ELSE outbox[e]]
      /\ publisher' = [publisher EXCEPT ![p] = [stage |-> "sending", batch |-> batch]]

LeaseBatch(p) ==
  /\ publisher[p].stage = "idle"
  /\ \E place \in OldestLeasable : Take(p, [n \in DOMAIN place |-> created[place[n]]])
  /\ UNCHANGED <<created, topic, held, faults>>

SetStage(p, stage) ==
  publisher' = [publisher EXCEPT ![p] = [@ EXCEPT !.stage = stage]]

\* The broker writes the event and acknowledges it.
BrokerAcks(p) ==
  /\ publisher[p].stage = "sending"
  /\ topic' = Append(topic, Event(p))
  /\ SetStage(p, "acked")
  /\ UNCHANGED <<outbox, created, held, faults>>

\* Seeded fault: a refused event is taken for a published one.
BrokerRefuses_Unnoticed(p) ==
  /\ publisher[p].stage = "sending"
  /\ Fault("broker")
  /\ SetStage(p, "acked")
  /\ UNCHANGED <<outbox, created, topic, held>>

\* The delivery callback reports an error.
BrokerRefuses(p) ==
  /\ publisher[p].stage = "sending"
  /\ Fault("broker")
  /\ SetStage(p, "refused")
  /\ UNCHANGED <<outbox, created, topic, held>>

\* flush() gives up; the producer client still holds the event.
FlushTimesOut(p) ==
  /\ publisher[p].stage = "sending"
  /\ Fault("broker")
  /\ SetStage(p, "refused")
  /\ held' = [held EXCEPT ![p] = @ \cup {<<Event(p), outbox[Event(p)].leases>>}]
  /\ UNCHANGED <<outbox, created, topic>>

\* What the producer client holds is delivered late or dropped.
LateDelivery(p) ==
  /\ Alive(p)
  /\ \E s \in held[p] :
        /\ held' = [held EXCEPT ![p] = @ \ {s}]
        /\ topic' \in {topic, Append(topic, s[1])}
  /\ UNCHANGED <<outbox, created, publisher, faults>>

NextInBatch(p) ==
  LET rest == Tail(publisher[p].batch)
  IN  publisher' = [publisher EXCEPT ![p] =
                      [stage |-> IF rest = <<>> THEN "idle" ELSE "sending",
                       batch |-> rest]]

Mark(p, status) ==
  outbox' = [outbox EXCEPT ![Event(p)] =
               IF Holds(@, p) THEN Marked(@, status) ELSE @]

MarkPublished(p) ==
  /\ publisher[p].stage = "acked"
  /\ Mark(p, "published")
  /\ NextInBatch(p)
  /\ UNCHANGED <<created, topic, held, faults>>

MarkFailed(p) ==
  /\ publisher[p].stage = "refused"
  /\ Mark(p, "failed")
  /\ NextInBatch(p)
  /\ UNCHANGED <<created, topic, held, faults>>

Leave(p, stage) ==
  publisher' = [publisher EXCEPT ![p] = [stage |-> stage, batch |-> <<>>]]

\* lease_batch, mark_published or mark_failed raises: nothing catches it.
TaskDies(p) ==
  /\ publisher[p].stage \in {"idle", "acked", "refused"}
  /\ Fault("db")
  /\ Leave(p, "dead")
  /\ UNCHANGED <<outbox, created, topic, held>>

\* The stop event is tested before each lease and before each event.
Stop(p) ==
  /\ publisher[p].stage \in {"idle", "sending", "dead"}
  /\ Fault("stop")
  /\ Leave(p, "down")
  /\ held' = [held EXCEPT ![p] = {}]
  /\ UNCHANGED <<outbox, created, topic>>

Crash(p) ==
  /\ Alive(p)
  /\ Fault("crash")
  /\ Leave(p, "down")
  /\ held' = [held EXCEPT ![p] = {}]
  /\ UNCHANGED <<outbox, created, topic>>

-----------------------------------------------------------------------------
TableStep == \E e \in Events : LeaseLapses(e) \/ LeaseOverrun(e)

TaskStep ==
  \E p \in Publishers :
     \/ LeaseBatch(p)
     \/ BrokerAcks(p)
     \/ BrokerRefuses(p)
     \/ FlushTimesOut(p)
     \/ LateDelivery(p)
     \/ MarkPublished(p)
     \/ MarkFailed(p)
     \/ TaskDies(p)

ProcessStep == \E p \in Publishers : Start(p) \/ Stop(p) \/ Crash(p)

Next ==
  \/ \E e \in Events : AppendEvent(e)
  \/ TableStep
  \/ TaskStep
  \/ ProcessStep

Spec == Init /\ [][Next]_vars

\* The loop goes on, the broker answers, and leases run out.
PublisherFairness ==
  /\ \A p \in Publishers :
        /\ WF_vars(LeaseBatch(p))
        /\ WF_vars(BrokerAcks(p))
        /\ WF_vars(MarkPublished(p))
        /\ WF_vars(MarkFailed(p))
  /\ \A e \in Events : WF_vars(LeaseLapses(e))

-----------------------------------------------------------------------------
(* Properties.                                                             *)

OnTopic(e) == \E i \in DOMAIN topic : topic[i] = e

\* The shape of the table and of the publisher tasks; a row has an owner while it
\* is leased and at no other time.
TypeOK ==
  /\ outbox \in [Events -> OutboxRow]
  /\ \A e \in Events :
        (outbox[e].status = "leased") <=> (outbox[e].owner # NoPublisher)
  /\ created \in Seq(Events)
  /\ topic \in Seq(Events)
  /\ publisher \in [Publishers -> Publisher]
  /\ held \in [Publishers -> SUBSET Send]
  /\ faults \in 0 .. MaxFaults

\* A row says published only of an event that is on the topic: a publisher that
\* lost its lease, or whose call failed, cannot vouch for it.
PublishedIsOnTopic ==
  \A e \in Events : outbox[e].status = "published" => OnTopic(e)

\* The first mark stands: a publisher that was overtaken cannot rewrite what the
\* one that took over recorded.
MarkIsFinal ==
  [][\A e \in Events :
       outbox[e].status \in {"published", "failed"} => outbox'[e] = outbox[e]]_vars

Copies(e) == Cardinality({i \in DOMAIN topic : topic[i] = e})

\* The consumer sees an event at most once for each lease of it: retries come
\* from leases only.
OneCopyPerLease == \A e \in Events : Copies(e) <= outbox[e].leases
=============================================================================
