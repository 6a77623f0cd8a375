# Verification of the Telegram to eXpress migration bot

The program moves the history of Telegram chats to eXpress chats. Operators talk
to a bot; the bot writes jobs; worker processes execute them and keep, for every
message and attachment, a record of what has been delivered. This directory holds
TLA+ modules that model the parts of the program whose correctness depends on the
order in which processes act and fail, the TLC runs that check them on small
instances, and TLAPS proofs for every instance. Paths are relative to the
repository root, `MR` stands for `src/extg_migration_runtime`, `BU` for
`src/extg_bot_ui`, `TS` for `src/extg_telethon_service`, `SH` for `src/extg_shared`.

## 1. The system

### Parts, the state they keep, their operations

| Part | State | Operations |
| --- | --- | --- |
| Bot UI: wizard and commands (`BU/presentation`) | wizard FSM state per user | commands, callbacks, wizard steps |
| Bot control service (`BU/application/bot_control.py`) | none of its own | admission and enqueue of jobs, `/cancel`, pause, resume, execution of a claimed job |
| Job queue (`PostgresMigrationJobRepository`) | table `migration_job`: status, worker_id, lease, attempts, last_error_code | enqueue, claim, acquire_next, heartbeat, mark_completed, mark_failed, request_cancel, list_active |
| Worker (`MR/application/migration_job_worker.py`) | one polling task, up to `CONCURRENCY` job tasks, one heartbeat task per job | poll, execute, heartbeat, stop |
| Outbox and its publisher | table `integration_outbox`, publisher task, producer client | append (in enqueue's transaction), lease_batch, publish, mark_published, mark_failed |
| Command consumer and handler (Kafka mode) | consumer position and group membership, table `consumer_inbox` | poll, handle, commit, seek |
| Message delivery (`message_delivery.py`, the message and attachment mappings) | tables of message and attachment mappings and attachment stages | claim, deliver, mark imported, ambiguous, failed |
| Use cases: backfill, delta sync, replay, reconcile, finalize | checkpoints, chat mappings, migration state | one pass over a chat or a migration |
| Target chat provisioning | chat mappings, participants | create or adopt the target chat, add users |
| Telegram sessions (`TS`) | table of operator sessions, login challenges in memory, cached gateways | connect, code, password, disconnect, resolve |
| eXpress gateway, file store, Telegram gateways | in-process caches | sends, uploads, history fetch, subscriptions |
| Janitors, metrics, containers, settings | temporary files | cleanup, reporting, wiring |

### How they interact

The bot and the workers are separate processes that meet in Postgres. In polling
mode a worker claims rows of `migration_job`; with `EXTG_KAFKA__ENABLED=true` it
reads commands that the outbox publisher (another task of the same process) put on a
topic, and claims the row a command names. An execution calls back into the bot
control service, which runs a use case; the use case writes mappings and checkpoints.
A cancellation travels in the other direction, as a code in `last_error_code` that
the heartbeat of the execution reads.

### What is hard

Everything that two processes do to one row: a lease that expires while its holder
is alive, an executor that learns too late that it lost the lease, a cancellation that
meets a completion; everything that is not one transaction: the claim and its answer,
the send and its mark, the handling and its commit; shutdown and crash between any two
of these; and at-least-once delivery from the outbox to the chat. Tests drive these
parts one call at a time against in-memory repositories, so the interleavings are
what is left to check. `PROJECT.json` lists the hazards at their lines.

### What makes each part correct

| Part | Properties |
| --- | --- |
| Job queue, worker | a job has one execution at a time, ends once, stays ended; it is cancelled only on request, and a request is never forgotten; an abandoned job is taken over and ends; a cancellation stops even an execution that would not end |
| Outbox | what is marked published is on the topic; retries come from leases only; the first mark stands; nothing is left in the outbox |
| Command consumer | the committed offset passes no command that is not recorded; redelivery and rebalance do not start a job twice; seen from outside, the queue keeps the promise of the polling mode |
| Admission | one active job per chat; the queue limit holds; progress is not migrated over without being asked |
| Delivery | the registry claims nothing that did not happen; a message is sent once, in order, and the checkpoint passes it only when it is accounted for; reruns come to an end; completed means everything was imported |
| Attachments | a file is in the chat once; what is called imported was posted; an imported message leaves no file behind that nobody reports |
| Target chat | reruns go on in the chat of the last run; a participant who is added directly is in it or is reported |
| Delta | the checkpoint passes nothing that was not tried, but for what is posted between the last fetch and the subscription; a pause stops a listening execution; a posted message is tried |
| Cutover | what is completed was frozen and settled when its registry was read |
| Sessions | a stored session is a whole login; a disconnected one does not come back |
| Dialogues | a job runs for the owner of its chat with the options that were asked for; a dialogue that ended starts nothing |

## 2. Plan

Written, in this order: `JobTable`, `MigrationJobs` and the abstract `JobLifecycle`
(jobs come first: whatever else runs, runs inside one); `OutboxPublisher`,
`CommandConsumer` and their composition `CommandBus`; `JobAdmission`; `MessageLedger`
and `ChatDelivery`; `Cutover` and `DeltaSync`, composed in `LiveMigration`;
`TelegramSession` and, on top of it, `Dialogue`; `TargetProvisioning` and
`AttachmentDelivery`, composed with `ChatDelivery` in `ChatTransfer`. Eight modules hold
proofs (7): every safety property that holds on a run is proved; liveness stays with TLC.

Next:

1. Topics that are split into chats of their own: one configuration, several chat
   mappings and one job for all of them.
2. The limit of `/retry_failed`, which takes the oldest failures of a list that other
   executions write.

## 3. Modules and code

A definition that translates code has an entry in `PROJECT.json` under "map", with the
lines it stands for. Names with a suffix after an underscore (`Claimable_IgnoresLease`)
are the definition before the underscore with a fault seeded in it. They are not part
of any specification: they stand beside the definition so that the properties can be
tried against them.

| Module | Stands for | State | Actions |
| --- | --- | --- | --- |
| `JobTable` | `PostgresMigrationJobRepository`, one transaction on one row at a time | none: operators from row to row | |
| `MigrationJobs` | `MigrationJobWorker`, polling mode, and `/cancel` | `job` the table, `requested` the order of `requested_at`, `run` the executions, `process` the worker processes, `listed` what a running `/cancel` has read | `Enqueue`, `ListForCancel`/`RequestCancel`, `AcquireNext`, the steps of `execute_claimed_job` (`ExecutionReturns` ... `MarkCancelled`), of its heartbeat (`BeatReads`, `BeatSeesCancel`, `BeatWrites`, `BeatStops`), of `stop()` (`RequestStop`, `StopEnds`), the clock (`LeaseLapses`), the faults |
| `JobLifecycle` | the promise to the operator (abstract) | `state`, `asked` | `Submit`, `Start`, `AskCancel`, `End` |
| `OutboxPublisher` | `IntegrationOutboxPublisher`, `PostgresOutboxRepository`, the Kafka publisher | `outbox`, `created`, `topic`, `publisher`, `held` | `AppendEvent`, `LeaseBatch`, the ends of `publish` (`BrokerAcks`, `BrokerRefuses`, `FlushTimesOut`), `LateDelivery`, `MarkPublished`, `MarkFailed` |
| `CommandConsumer` | `ConfluentKafkaMigrationCommandConsumer`, `MigrationCommandHandler`, the inbox | `job`, `inbox`, `topic`, `committed`, `assigned`, `consumer` | `Poll`, `IsProcessed`, `Claim`, the execution, `MarkProcessed`, `Commit`, `Seek`; `Assign`, `Evict`, `PollIntervalExceeded` for the external group coordinator |
| `CommandBus` | `runtime/worker.py` in Kafka mode | both of the above over one `topic` | `Enqueue` writes job and event in one transaction; a process starts, stops and dies as a whole |
| `JobAdmission` | `BotControlService._start_fan_out_background_operation`, `_start_background_operation` | `job`, `progress` of the chats, `request` the commands in flight | `Submit`, then for each chat `ListActive`, `CountByStatus`, `Summarize`, `ReadCheckpoint`, `Enqueue`; the workers in outline |
| `MessageLedger` | `PostgresMessageMappingRepository`, one row at a time | none: operators from row to row | |
| `ChatDelivery` | `BackfillChatUseCase`, `ReplayFailedUseCase`, `MessageDeliveryService.deliver` | `row` the registry, `copies` in the target chat, `checkpoint`, `completed`, `execution` | `StartBackfill`, `NextMessage`, `Claim`, `Reclaim`, `SaveCheckpoint`, `FinishBackfill`; `StartReplay`, `TakeFailed`, `FinishReplay`; the ends of `deliver`; the marks; the faults |
| `AttachmentDelivery` | `MessageDeliveryService.deliver` with its attachments, the repositories of attachments and of upload stages | `attachment` and `stage` the tables, `files` and `filed` what a message has and what is in the chat, `work` the delivery in hand | `Prepare`, `RetryFailed`, `ClaimStage`/`Restage`, `UploadSucceeds`, `UploadFails`, the answers to the primary message (`PrimaryAnswered` ... `PrimaryBreaksOff`), `ClaimFile`/`Retake`, `FileSent` ... `FileUnanswered`, `MarkFile`, `Return`; `CancelFiles` |
| `TargetProvisioning` | `TargetChatProvisioningService`, `/add_users` | `mapping` the row of the dialog, `chats` and their `member`s, `provision` the executions | `EnsureTarget`, `Resolve`, `Create`, `Promote`, `TakeHost`, `AddBatch`, `AddSingle`, `MakeLink`, `Invite`, `Report`, `SaveMapping`, `ProvisionFails`, `AddMembers` |
| `ChatTransfer` | the three above as one execution of a chat | those, `known` and `aim` (the mapping an execution holds and the chat it sends to), `rowChat` | the actions of the parts, conjoined where one handler does both |
| `Cutover` | `ManageMigrationStateUseCase`, `FinalizeCutoverUseCase`, `ReconcileMigrationUseCase`, `InventoryUseCase` | `state` the record, `inventory`, `command` those in flight | `PauseDelta`, `ResumeDelta`, `FreezeCutover`, each with `SaveTransition`; `TakeInventory`; `StartFinalize`, `ReadInventory`, `ReadMessages`, `ReadAttachments`, `SaveFinalized` |
| `DeltaSync` | `DeltaSyncUseCase` | `row`, `posted`, `checkpoint`, `delta` the executions, `state` | `StartDelta`, `CheckState`, `CreateState`, `SeedCursor`, `FetchBatch`, `Subscribe`, `Hear`, `ProcessMessage`, the marks, `SaveCheckpoint`; `Post`, and the faults |
| `LiveMigration` | delta executions and commands over one record and one registry | both of the above | either side takes a step |
| `TelegramSession` | `TelegramSessionService`, the challenge store, the session-aware gateway, the remote client | `record`, `challenge`, `client`, `call` | for each call its steps between awaits (`StartRead` ... `PersistRecord`, `DisconnectRead` ... `DisconnectRemove`, `ResolveRead` ... `TakeClient`); `ChallengeExpires`, `ServiceRestarts`, `CallerGivesUp` |
| `Dialogue` | command handlers, both wizards, the FSM repository, the chat configuration | `dialogue` the FSM states, `task` the messages being handled, `config`, `jobs` | one action per command and per answer, then the steps of the handler (`Prepare`, `Map`, `ReadConfig`, `SaveConfig`, `StartJob`, `WriteState` ...) |
| `MigrationJobsProofs`, `CommandConsumerProofs`, `CommandBusProofs`, `JobAdmissionProofs`, `ChatDeliveryProofs`, `ChatTransferProofs`, `LiveMigrationProofs`, `DialogueProofs` | | | theorems and proofs |
| `MC...` | | | what TLC needs: symmetry, settings to start with |

One database call is one step, and whatever the program does between two database
calls, sends or broker calls happens in the step before. A claim whose code reads a row
and then updates it conditionally is two steps (`Claim`, `Reclaim`), since the
repository runs at READ COMMITTED. Times are kept as the outcome of the comparison the
code makes with them: a lease is "live" or "expired", a registry row is `fresh` or not.

Some steps of `deliver` are named in `ChatDelivery` by their outcome only (the primary
message has arrived or not; a file failed or stayed ambiguous). `AttachmentDelivery`
says how each outcome comes about, and every action of `ChatTransfer` is an action of
`ChatDelivery` or a stutter; that is proved (7).

Variables marked "(history)" are not in the program. No guard reads them; properties use
them to say which faults or overlaps excuse what: `cancelled`, `missed` (a heartbeat was
lost, a lease ran out, a message fell into the gap before a subscription), `together` and
`peak` (commands in flight at one time), `doubtful` (a message that a fault may have sent
twice or dropped), `late`, `since` and `unseen` (what was done after the record or the
registry was read), `cut`, `raced` and `sentTo` (a creation that was cut off, two of them
at once, where a message went), `blank` (a file posted as a reference that leads
nowhere), `closed` and `ended` (sessions and dialogues that are over).

## 4. What the runs check

| Run | Checks | Shows |
| --- | --- | --- |
| `jobs` | `TypeOK`, `NoCancelWithoutRequest`, `OneExecutionPerJob`, `TerminalIsFinal`, `CancelRequestSurvives`, `ClosedByOwner`, `ImplementsLifecycle`, `JobEnds`, `CancelStopsExecution` | leases and `worker_id` keep executions of one job apart, except where a heartbeat is lost, and even then late executors cannot rewrite the row: from outside, every job is executed once. `worker_id` fences processes: what closes a job is an execution of the process that holds the row, and another one than the latest only if a heartbeat was lost. A job whose worker crashes, is stopped or loses a database call ends, also beside one that never ends by itself, unless the one live worker takes no job any more; `/cancel` reaches the endless one |
| `jobs_cancel_race` | `CancelEnds`, violated | see 8 |
| `consumer_safety` | `NoCommandSkipped`, `OneExecutionPerJob`, `ImplementsLifecycle` | redelivery, rebalance, errors of any database call: no command is skipped, no job is run twice at once |
| `consumer_takeover` | `JobEnds`, violated | see 8 |
| `bus` | `PublishedIsOnTopic`, `MarkIsFinal`, `ImplementsConsumer`, `EnqueuedJobEnds` | publishers that crash, lose their lease or their broker never vouch for an event that is not on the topic; what `CommandConsumer` assumes of the outbox is what `OutboxPublisher` does; an enqueued job ends across two faults of the publisher's half and one of the consumer's, of every kind, or one of three things has stranded it: its event was marked failed, its command was recorded while the job ran under a lease nobody serves, or a task of the one live process died |
| `admission` | `OneActiveJobPerChat`, `QueueIsBounded`, `AskedBeforeResume` | commands one after the other, also after a crash of the bot, never put a chat in the queue twice; the queue limit is exceeded by no more than the commands in flight |
| `admission_race` | `ScopeIsExclusive`, violated | see 8 |
| `delivery` | `ImportedIsInChat`, `SentOnce`, `PassedIsSettled`, `InOrder`, `PassesOnlySettled`, `RerunsSettle` | overlapping executions of one chat and reruns after a fault send a message twice only where the fault made its delivery doubtful, pass only what is accounted for, and finish; a message sent in parts may end between two parts |
| `delivery_completed` | `CompletedIsMigrated`, violated | see 8 |
| `transfer` | `OneTarget`, `NobodyForgotten`, `InOneChat`, `FilesOnce`, `FileIsInChat`, `FilesAccounted` | a dialog gets a second chat only where the creation of the first was cut off or two executions created at once, and only in the latter case does a message reach another chat than the one the mapping names; people who are added directly are in the chat or reported, whatever a server refuses; files are sent once and none is lost silently, but for the cases listed in 8 |
| `live` | `OnlyTheGapIsLost`, `PauseStopsLive`, `CompletedWasSettled`, `PostedIsTried` | what the delta checkpoint passes was tried; the one gap is between the last fetch and the subscription; a pause takes effect within one message; a migration is not completed over unsettled messages; as long as the migration is active a posted message is tried |
| `dialogue` | `LoginIsWhole`, `JobAsAsked`, `JobOfOwner`, `RemovedStaysRemoved`, `EndedStaysEnded` | two operators and two messages at once, a restart of the service, a caller that gives up: no half login is stored, and a job starts only from a live dialogue, for the owner, with the options given |

`TypeOK` of the other modules is not spent a run on; it is part of the inductive
invariants of 7 where there are proofs.

## 5. Bounds

Every bound is a constant with a name, and a guard that uses it says so.

- Jobs: two, so that a worker has to choose (`Oldest`) and a slot can be taken; what the
  properties say of pairs of jobs needs no third. A worker in
  the model is one life of the process: there are two where a takeover is the most that can
  happen, and three where two faults cost two lives and a third has to finish the work
  (`consumer_takeover`, `bus`).
- `Concurrency` is two in `jobs`, as in `common.py:254`: an endless job holds one slot and the
  other one goes on, and a process can take back a job that it lost into its other slot.
  One fault is enough for that. The safety properties are proved for every number of
  slots, processes and faults. `JobEnds` needs a life for each fault and one more; with
  three lives the run finds no error either (754 420 states).
- `MaxAttempts`, `MaxLeases`: a claim beyond them is disabled. They are greater than the
  number of faults, so that no liveness run stops because of a bound: each takeover
  costs a fault.
- `MaxFaults`: one or two. A fault and a second one during its recovery is what the
  recovery code is not tested for. `bus` counts the two halves apart
  (`MaxPublisherFaults` = 2, `MaxConsumerFaults` = 1; one and two were checked as well), and
  each half has all its kinds of fault.
- `delivery`: two messages give order, a message behind and a message ahead of the
  checkpoint; two backfills and one replay give each pair of executors. `InParts` are the
  messages longer than one part.
- `admission`: two chats and two commands with every order of scopes (`Scopes`), a
  queue limit of one.
- `transfer`: one message, since `delivery` has the order of messages, and up to two
  files (`MaxFiles`): one is sent inline and two are follow-ups. A start from which
  everything may happen at once is out of reach, so `Settings` lists where behaviours start, and `bound.busy` and
  `bound.faults` how many executions are at work and how many faults occur in each:
  two servers of people and two faults; a person whom no server adds and two executions
  that race; a link and two faults; a private dialog, two executions and a fault; a
  bound chat, one file and two faults; two files and one fault. `MaxChats` is two: one
  that is right and one too many.
- `live`: messages 1 .. `LastMessage` with `BackfilledTo` = 1, so that two are posted
  while executions catch up, subscribe and listen; `BatchSize` = 1 makes a catch-up
  take several fetches. One execution and one command at a time. With one message to
  post and the safety properties alone, two executions and one command (1.6 million
  states) and one execution and two commands (6.6 million) were searched completely
  without an error, and the theorems of `LiveMigrationProofs` have any number of both.
- `dialogue`: two operators compete for one chat, two messages are handled at once.
  `MaxLogins` = 1 code is sent, `MaxCommands` = 2 commands carry options, `MaxEvents` = 3
  messages or faults: a question, its answer, and something that comes between.
- Symmetry is used where every property of the run is a safety property and the
  constants are interchangeable.

`CHECK_DEADLOCK FALSE` is in every configuration because each of these systems may
really stop: all jobs have ended and nothing is requested, every process is down and the
fault bound is used up, every command has been handled.
That they do not stop before their work is done is what the liveness properties say.

## 6. Fairness

- `MigrationJobs`: `RuntimeFairness` asks that database calls return, heartbeats go on,
  leases run out, an asked-for cancellation is delivered (asyncio schedules every ready
  task), and that the worker is started again once its process has ended (`Restart`).
  `docker-compose.prod.yml:121` has one worker container, `restart: unless-stopped`, and
  nothing else replaces it: `run_worker` waits for the stop event and not for its tasks
  (`runtime/worker.py:80`), so a process whose polling, publisher or consumer task died
  stays up and is not replaced. After `docker compose stop` it is the operator who
  starts it again. A second process beside the first may be started at any time, and
  nobody has to. `Restart` means the same in `CommandConsumer` and `CommandBus`.
  `ExecutionsEnd` asks that an execution ends, and exempts `Endless` jobs: a delta sync
  waits for events. Commands, cancellations by the operator and faults are not fair.
- `OutboxPublisher`: the loop goes on and the broker answers. What the producer client
  holds after a timeout need not be delivered.
- `CommandConsumer`: the coordinator evicts and assigns, calls return; `LoopDies`, a `seek`,
  commit or watermark update that raises, may end the task at any time. `Delivery` stands
  for the outbox where it is not composed in; `CommandBus` drops it and has the outbox.
- `ChatDelivery`: a backfill goes on, rows age, and a new run is started when the last
  one ended: the operator sends `/migrate` or `/remigrate` again, which the runbook
  asks of him. Nothing is asked of `/retry_failed`.

- `LiveMigration`: an execution goes on, which asyncio sees to. Nobody has to start an
  execution or give a command, and `PostedIsTried` speaks only of migrations that stay
  active and have executions.
- `JobAdmission`, `Dialogue`, `TelegramSession`, `ChatTransfer`: safety only.

Weak fairness is used throughout. Where a loop chooses among several steps the fairness
is on the loop, not on each step.

## 7. What is proved

Proofs hold for every set of jobs, workers, commands, chats, messages, files, people,
operators and executors and every bound, from the assumptions the modules name:
`JobsAssumption`, `WorkersAssumption`, `BoundsAssumption`, `FaultsAssumption` (jobs),
`ModeAssumption`, `ConsumerAssumption` and `BusAssumption` (modes and bounds of consumer and
publisher, and a batch of at least one event),
`AdmissionAssumption` (finitely many commands and chats), `DeliveryAssumption`,
`AttachmentAssumption`, `TransferAssumption` (what a setting is: it has chat 0, which was
there before, or none, and chats are numbered as they are created),
`DeltaAssumption` (the backfill has passed a message), `SessionAssumption` and
`DialogueAssumption` (`NoOne` is no operator, bounds are numbers). `PROJECT.json` lists
the theorems.

An action property is proved from the invariant that holds before the step, and a
refinement from the invariant of the detailed specification; the effect lemmas of each
module (what a step does, field by field) are stated once and every invariant uses them.

`MigrationJobsProofs`:

- `TypeCorrect`: `TypeOK` is inductive by itself.
- `TerminalJobsAreFinal`, `CancelRequestsSurvive`: action properties. `EveryRowStep`
  reduces a step of the system to one of six changes of one row (`RowStep`), and
  `RowEffects` says what each does to a row that has ended or is flagged.
- `CancellationsWereRequested`: the invariant alone is not inductive, since a task writes
  `cancelled` after its flag may have been overwritten by a claim of someone else;
  `CancelInv` adds that an execution in "cancelling" belongs to a job in `cancelled`.
- `LeaseIsExclusive`: `LeaseInv` says of every open execution of a job of which no
  heartbeat was lost that it is the job's last claim, that the row is running, live and
  its own, and that its heartbeat is not dead. Two such executions are then both the
  last claim.
- `TokenFencesProcesses`: `ClosedByOwner`, for any number of slots. A closing update
  changes a row only if the row has the `worker_id` of the execution that sends it
  (`CloseStep`); and by `LeaseInv` the execution is the job's last claim, unless a
  heartbeat of the job was lost. Without that excuse the claim is false from two slots on
  (8), since `worker_id` names the process and not the claim.
- `QueueImplementsLifecycle`: the initial state maps to the initial state of
  `JobLifecycle`, and each step to a step of it or to none.

`CommandConsumerProofs`:

- `ConsumerTypeCorrect`: with `OffsetInv`, since a position of a consumer is a type only
  while it lies on the topic.
- `CommandsAreNotSkipped`: `OffsetInv` says of each consumer that everything before the
  command at hand is recorded in the inbox, and that a command which is about to be
  committed is recorded itself. It says so of a consumer that the group has replaced too,
  for the broker may take its commit while nobody is assigned.
- `CommandRunsOnce`: `LeaseInv`, that an execution of a job of which no heartbeat was lost
  owns the row and its lease is live.
- `ConsumerImplementsLifecycle`: `CancelInv` as for the polling mode; the abstract state
  of a job is read off its row, and every step of a consumer is one of `JobLifecycle` or
  none.

`CommandBusProofs`. The publisher is proved about by itself and then beside the consumer:

- `PublisherTypeCorrect`: `PublisherInv` adds that an event is listed and batched once,
  and that only events that were written are leased or in a producer's hands.
- `PublishedEventsAreOnTopic`: `TopicInv` adds that an acknowledged event is on the topic.
- `MarksAreFinal`: the conditional update matches no row that was marked.
- `LeasesBoundCopies`: of each event there are no more copies on the topic, in batches
  that are still to be sent and in producers than it was leased. `Tokens` collects these
  places, and every step exchanges one for another or takes a lease for a new one
  (`Exchange`).
- `BusImplementsConsumer`: `PairInv`, that job and event are written together. What
  arrives on the topic was enqueued and is bounded by the leases, which is what
  `CommandConsumer` asks of the outbox.

`ChatDeliveryProofs`. First come lemmas that say, field by field, what a step does to the
execution that takes it and to the row of its message (`Moves`, `Writes`, the `...Effect`
lemmas, `Kinds`); the six theorems use only those.

- `DeliveryTypeCorrect`: `TypeOK` needs `PhaseInv`, that an execution which is not between
  two messages has one in hand, and that only a backfill claims and saves.
- `ImportedMessagesAreInChat`: `CopyInv` adds that what an execution knows (that it has
  sent the message, or that a replay was told so) is true as well.
- `CheckpointPassesOnlySettled`: `PassInv`, that a message about to be passed is settled
  as long as nobody else has written its row.
- `MessagesAreSentOnce`: `SendInv` says of every message that is not doubtful
  (`OnceInv`) that one execution has it in hand, that the row shows that it has, that
  what was read to be taken over is still there or known to be outdated, and that a copy in
  the chat is recorded in the row or known to the execution that sent it. The heart is
  `FreeRow`: a row that may be claimed or taken over is in nobody's hand, and its message
  is not in the chat. The update that takes over a cancelled row does not check that the
  row is as it was read, which is why `TakenRegardless` must make the message doubtful.

- `CheckpointLosesNothing`: the checkpoint alone is not enough to go by. A backfill
  that has passed a message may save its checkpoint after an overlapping one has saved
  a lower one, so `SettledInv` speaks of all that lies behind the checkpoint or behind any
  running backfill (`Behind`). That is why `TakenRegardless` asks whether any backfill has
  passed the message (`PassedBy`) and not where the checkpoint stands.
- `MessagesComeInOrder`: `OrderInv` says that everything before an execution, before the
  checkpoint and before a row has a row: messages are claimed in order, and a message is
  sent after its claim.

A part of a long message that arrives (`PartArrives`) makes the message doubtful and
writes nothing, which is why it does not disturb these invariants.

`JobAdmissionProofs`:

- `AdmissionTypeCorrect`: a command in flight has a chat at hand.
- `OneActiveJobUnlessExcused`: `AdmissionInv` adds that commands in flight know of each
  other, that an expired lease is recorded, and that what a command saw when it listed
  the active jobs still holds but for jobs of commands in flight beside it and jobs
  whose lease ran out. The enqueue needs just that.
- `CommandsAskBeforeResume`: `AskInv` says of a command that read an empty registry that
  what is mapped now was mapped by such a newcomer.
- `QueueStaysBounded`: `QueueInv` counts queued jobs and commands that have found room
  together: a command is let through when less than the limit is queued, and there are
  never more than `peak` commands to be let through.

`ChatTransferProofs`:

- `TransferImplementsDelivery`: the composition with the attachments and the target chat
  implements `ChatDelivery`, step by step. Everything that `ChatDeliveryProofs` has
  therefore holds of it as well; `TransferSendsOnce` is an instance.
- `ImportedFilesWerePosted`: `FileInv` adds that what an execution takes for posted
  (`TakesForPosted`: it is about to mark a file imported, or to claim the row of a file
  that went inline) was posted, and what `work` looks like at each step (`Shaped`).
- `ParticipantsAreAccountedFor`: `ProvisionInv` has, for each provisioning, that those who
  were named at the creation are in the chat and that direct adding still has each of the
  others before it (`Pending`), unless they are in the chat or counted as failed
  (`Placed`); and what it holds of the mapping (`Sound`).
- `OneChatIsTheTarget`, `MessagesStayInOneChat`: `ChatInv` and `TargetInv`. Unless two
  executions created at once (`raced`), there is one chat that the mapping, the executions,
  the rows and the messages name (`Targeted`); a second chat needs an execution whose
  creation was cut off before the mapping was saved.
- `TransferTypeCorrect`, `ChatsAreSound`: what these three invariants say together.
- `FilesAreSentOnce`: `FitInv` says at which point of `deliver` each work on a file may be
  (`Fits`), and `OnceFile` that a file which was sent has a row that keeps it from being
  sent again (`Lasting`), or went with its message and is in the hands of the execution
  that is about to claim its row; and that work which will send a file, or will call it
  failed, is about a file that is not in the chat (`NotSent`).
- `FilesAreAccountedFor`: `AccountInv` says that `deliver` has still before it (`Left`)
  each file that the registry does not know of, and that a row in processing was left by a
  fault or is that of the work in hand. Without a fault no upload has failed that a
  backfill has still to claim (`CalmFiles`): a follow-up that finds its upload failed goes
  by the row of the attachment, which it has itself claimed, and would leave it in
  processing. This rests on `CalmInv`, that without a fault no message is claimed a
  second time. Every step inside `deliver` either lets the work go on in this order or
  ends it (`Progresses`, `Finishes`); every other step goes on beside it (`Beside`).

`LiveMigrationProofs`:

- `LiveTypeCorrect`: types of registry, executions, record and commands.
- `NothingElseIsLost`: `PassInv` says of each execution how far its position may vouch
  for the registry (`Safe`): up to the message at hand while it is behind it, one less
  while it is still to be tried. An older execution that saves its checkpoint last takes
  it back, never over a message that nobody tried.
- `PauseIsObeyed`: `LateInv` follows the one event that was checked before the record
  changed.
- `CompletionWasEarned`: `CompletedInv` carries what a finalize has read past every step
  that others take before it saves: what it found settled is settled, or was written since.

`DialogueProofs`. `StepHasEffects` reduces a step to what it does to one handler, one call
and the configuration (`DialogueEffect`, `SessionEffect`); the invariants use only that.

- `DialogueTypeCorrect`: `TypeInv` adds that a handler has an operator, that a question
  belongs to a command and that a handler which waits for the service waits for its own
  call.
- `LoginsAreWhole`: `LoginInv` adds that what a call has in hand after Telegram's answer is
  whole, that a login not yet begun is nobody's, and that one that is complete takes no
  further code: else a second answer could take the login back to its first half.
- `RemovedSessionsStayAway`: `ClosedInv`: a removed session is nobody's record and in hand
  only of calls that were running at the removal.
- `JobsAreOfOwner`: a handler that is about to start a job is the owner's; the owner of a
  configuration does not change once it is set.
- `JobsAreAsAsked`: `AskInv` carries the options through every state and handler that can
  lead to a job, all but the `access` option of a group or private chat, which the code
  loses (8), and says that nothing is asked before the kind is known.
- `EndedDialoguesStartNothing`: `EndInv`: a command is in the states and handlers of one
  operator, and a dialogue that ended while nothing of it was being handled is in none.

Only model-checked:

- `JobEnds`, `CancelStopsExecution`, `EnqueuedJobEnds`, `RerunsSettle`, `PostedIsTried`:
  liveness under fairness, for which the prover has no rule.
- The properties of 8 that the code violates: a counterexample of TLC is all there is to
  show.

## 8. Disagreements found

Each is a run with the one property that a document, a comment or a test of the
repository states.

1. `jobs_cancel_race`. While the `except` branch of `execute_claimed_job` awaits
   `mark_failed`, the heartbeat still runs. If `/cancel` arrived before, it cancels the
   task inside that call; no branch writes the row, and a row flagged
   `cancel_requested` is excluded from every claim: the job stays running for good,
   though no fault occurred (`migration_job_worker.py:229`).
2. `consumer_takeover`. In Kafka mode a job runs inside the poll loop. One that lasts
   longer than `max.poll.interval.ms` loses its partition, the next consumer finds the
   lease live, records the command and commits. If the first executor then dies, its
   lease expires and nothing looks for it.
3. `admission_race`. The conflict check and the enqueue are separate transactions and
   the job key ends in a random suffix: two commands for one chat in flight together are
   both accepted.
4. `delivery_completed`. Whether a chat is completed is decided from the failures of one
   execution. A second `/migrate` starts behind the failed message, counts no failure and
   marks the chat completed; from then on `/migrate` answers that it has been migrated.
   `/retry_failed` between two backfills does the same to a chat whose later messages
   were never claimed.

Behaviours that the models have and the properties therefore excuse, or that were met
while they were written; none has a run of its own.

Attachments:

- A follow-up whose upload fails blocks itself: `deliver` claims its row, and after the
  failure `_claim_terminal_attachment` (`message_delivery.py:1189`) finds the row in
  processing and takes the delivery for ambiguous. The message is marked ambiguous
  without `target_sync_id` though it was sent; a rerun sends it again and meets the same
  row. `tests/integration/test_replay_failed.py:425` starts from the message recorded as
  sent and the attachment as failed, and has the retry send the attachment alone.
- `/retry_failed` after a cancelled delivery keeps a follow-up that failed with phase
  "delivery" as it is: the message is imported and the attachment never sent.
- A cancellation or a crash between a failed upload and the attachment's mark, between
  the claim of a row and its mark, or during `/retry_failed` after a claim, leaves a row
  in processing that nothing takes over; the next execution goes by it and imports the
  message without the file (`_outcome_from_record`, `_prepare_message`).
- A crash between `mark_imported` and the mark of what is missing leaves a message
  imported with an attachment that blocks.
- With `AUDIT_ERROR_PAYLOAD_MODE=redacted` a staged file that is read back has the URL
  "[redacted]"; unless eXpress refuses it, a reference that leads nowhere is posted.
  With "none" the phase of a failure is lost, and retries decide without it.
- Failures of download, preparation and upload are not retried by `/retry_failed`,
  although the repository's `README.md:13` and `README.md:505` say that failed items are.
- A long message of which a part fails begins with its first part again on each retry,
  rerun and `/retry_failed`; only the cache inside one process spares copies.

Target chat:

- A fatal failure to promote the initiator (`target_chat_provisioning.py:1555`) is raised
  after `create_chat`: the chat has no mapping, and each rerun creates another; so does one
  that follows a crash between creation and save (`target_chat_provisioning.py:761`). Two
  executions that provision at once create two chats.
- The row of the mapping is read, kept for the length of an execution and saved as a
  whole: "completed" and the target go back and forth between executions.
- An access by link whose link or whose invitations fail leaves people out without a
  report.

Live phase and cutover:

- A pause, a freeze or a finalize does not stop a catch-up: the record is read before each
  chat and at each live event (`delta_sync.py:213`).
- `finalize` reads record, inventory and registry one after the other; what executions
  write to the registry in between does not keep it from completing the migration
  (`finalize_cutover.py:56`).
- A message posted between the last fetch and the subscription is never read. A message
  skipped by date counts as missing in the reconciliation for good, and counts alone can
  cancel out a message that is lost.
- `finalize` of a completed migration can write "needs manual reconcile", after which
  `resume` works, although `manage_migration_state.py:64` says that a completed migration
  cannot be changed. A first pause is lost when the execution creates the record after
  it.

Sessions and dialogues:

- A call that read the session before `/disconnect` stores it again.
- A handler that was at work when its dialogue was cancelled or ran out goes on: it may
  start the job, or write the state back, so that the dialogue is there again
  (`wizard.py:1397`).
- `_prompt_channel_access_strategy` drops the chat and the range from the state; the
  answer raises `AttributeError`, where `README.md:364` of the repository has the bot ask
  for the strategy and go on. `access=` is lost for groups and private chats. Nothing enters
  `SELECT_CHAT`, so the steps from there to the confirmation never happen.
- Reading an expired FSM state deletes the row unconditionally. Concurrent `/configure`
  and `/migrate` overwrite each other's fields.
- With `split_by_topic` and `title=` every topic gets that title.

Jobs and workers:

- `worker_id` names the process, which has two slots (`common.py:254`). A process whose
  heartbeat stopped can take back its own lapsed job into the other slot; both executions
  then pass the fence, and the first one that ends closes the row of both. With one slot it
  cannot happen.
- A polling task that meets a database error in `acquire_next` ends, a consumer task that
  meets one in `commit`, `seek` or the watermark ends, a publisher task likewise; the
  process stays up (`runtime/worker.py:80`), the container is not restarted, and no job
  starts any more until somebody restarts it. This is the exception of `JobEnds` and one
  of those of `EnqueuedJobEnds`.
- Endless jobs (delta syncs) keep their slots; one whose lease lapsed and that is taken again
  holds two. When they fill the worker nothing else runs.
- In Kafka mode a claim whose answer is lost is repeated, meets its own live lease and is
  recorded as not claimed; a closing call that is lost has the same end. The job stays
  running, and no command is left that would take it over.
- A running job whose lease lapsed is not active for the conflict check
  (`bot_control.py:3059`) but a worker takes it again: a second job for its chat is admitted
  beside it.

Jobs and delivery: the job of `/migrate` catches what its chats raise and ends completed
whatever became of them (`bot_control.py:2514`); `/retry_failed` is executed inside the
bot (`bot_control.py:1775`) although `docs/runbooks/bot_managed_runtime.md:257` counts
it among the durable jobs; a cancellation during `/retry_failed` marks the row failed
with code `cancelled`, and the claim that takes it resets `target_sync_id`, so the
message is sent again (`repositories.py:475`); the checkpoint is saved without a look at
the one that is there, so it can go back; a row in processing is taken over after 30
seconds and nothing renews it during a long upload; a worker that dies with a
cancellation requested leaves a row that nobody claims (`CancelEnds`
fails under `FairSpec` with one crash); with
`EXTG_POSTGRES__PAYLOAD_STORAGE_MODE=none` the stored event has no payload to publish,
and `JobEnds` fails with `StorageMode = "none"`.

## 9. What is not modelled

- In the modelled parts: prefetch of attachments, rate limits and retries inside one
  send, the in-process idempotency cache of the gateway (it spares a copy within one
  process, so the model is the more pessimistic one), audit and metrics, envelopes that
  do not parse, the limit of `/retry_failed`, the answer for a chat that was already
  migrated and the remigrate path in admission.
- Delta synchronisation: several chats in one execution, `max_events`; edits and deletions,
  which the code does not follow either. Cutover: media counts and the report.
- Provisioning: preconditions that are checked before a job starts, titles, bots that
  help, topics split into chats of their own.
- Dialogues: the wizard steps behind `SELECT_CHAT`, which nothing enters; commands that
  only read; `/map_identity`; the content of workbooks and archives.
- Rendering, normalisation, archive import, identity resolution: functions over rich
  data without state that two actors change. Settings, containers, metrics,
  janitors: wiring and observation.
