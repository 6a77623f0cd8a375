------------------------------ MODULE Dialogue ------------------------------
(***************************************************************************)
(* The dialogues of the bot about one Telegram chat: an operator's next    *)
(* message is the answer to the question that the bot asked last, and the  *)
(* last answer starts a job.                                               *)
(*                                                                         *)
(* Source: the command handlers, the two wizards, their FSM state and the  *)
(* service methods behind them, over TelegramSession.  The FSM keeps one   *)
(* state per operator; a handler reads it when its message arrives, awaits *)
(* services, and then replaces or drops it without looking again.  Two     *)
(* messages of an operator are handled at the same time.  While there is a *)
(* state every message goes to it, commands too (pybotx_fsm, external).    *)
(*                                                                         *)
(* Command n stands for the values of its options, so that a job's option  *)
(* is the number of the command that gave it; 0 is a default.  Left out:   *)
(* the steps that follow SELECT_CHAT, which no command enters, chats that  *)
(* are already migrated, target=bind, what the texts say, and what a       *)
(* workbook or an archive holds.  JobAdmission has what enqueues a job.    *)
(***************************************************************************)
EXTENDS TelegramSession

CONSTANTS
  Kinds,       \* kinds of chat to consider
  MaxCommands, \* bound: commands that carry options
  Givens       \* sets of options that a command may give

\* "forum": a group with topics.
ChatKind == {"private", "group", "forum", "channel"}

\* include_from, include_to, media and replies; access; topics; identity_policy.
Options == {"range", "access", "topics", "policy"}

ASSUME DialogueAssumption ==
  /\ Kinds \subseteq ChatKind
  /\ MaxCommands \in Nat
  /\ Givens \subseteq SUBSET (Options \ {"policy"})

VARIABLES
  kind,      \* the kind of the chat, once a dialogue has looked at it
  dialogue,  \* [Operators -> the FSM state]
  task,      \* [Callers -> the handling of a message]
  config,    \* the configuration of the chat
  jobs,      \* the jobs started
  commands,  \* commands with options so far
  ended      \* [Commands -> how its dialogue ended without a job] (history)

dialogueVars == <<kind, dialogue, task, config, jobs, commands, ended>>

vars == <<dialogueVars, sessionVars>>

Commands == 1 .. MaxCommands

Step == {"none", "phone", "code", "password", "members", "workbook", "archive",
         "private_peer", "topics", "group_matrix", "channel_matrix", "access"}

\* chat: the storage names the chat.  given: the options in the storage.  asked: the
\* options given or answered so far (history).
State == [step : Step, chat : BOOLEAN, login : 0 .. MaxLogins, n : 0 .. MaxCommands,
          given : SUBSET Options, asked : SUBSET Options]

NoState == [step |-> "none", chat |-> FALSE, login |-> 0, n |-> 0, given |-> {},
            asked |-> {}]

\* "call": waits for the telethon service.  "merge": has read the configuration and
\* is about to save it.  "start": about to load it and to start the job.  "import":
\* parses and stages an archive.  "write": about to write the FSM state.
TaskPhase == {"idle", "call", "merge", "start", "import", "write"}

\* What the call or the save is for.
Purpose == {"none", "connect", "login", "disconnect", "configure", "choose_members",
            "add_members", "prepare", "map", "start"}

\* d: the FSM state when the message arrived.  given: the options that the handler
\* works with.  asked: as in the state.  old: the configuration that it has read.  next: the state that it
\* will write.
Task ==
  [phase : TaskPhase, for : Purpose, who : Operators \cup {NoOne}, d : State, n : 0 .. MaxCommands,
   given : SUBSET Options, asked : SUBSET Options,
   old : [owner : Operators \cup {NoOne}, by : [Options -> 0 .. MaxCommands]],
   next : State]

NoConfig == [owner |-> NoOne, by |-> [f \in Options |-> 0]]

IdleTask == [phase |-> "idle", for |-> "none", who |-> NoOne, d |-> NoState, n |-> 0,
                given |-> {}, asked |-> {}, old |-> NoConfig, next |-> NoState]

Init ==
  /\ SessionInit
  /\ kind = "unknown"
  /\ dialogue = [o \in Operators |-> NoState]
  /\ task = [q \in Callers |-> IdleTask]
  /\ config = NoConfig
  /\ jobs = {}
  /\ commands = 0
  /\ ended = [n \in Commands |-> "no"]

-----------------------------------------------------------------------------
(* A message arrives: the handler of the state, or of the command. *)

Free(q) == task[q].phase = "idle" /\ call[q].phase = "idle"

Receives(q) ==
  /\ Free(q)
  /\ Happens

\* The handler runs up to its first await, a call of the service.
Handles(q, o, for, op, n, given, asked) ==
  /\ Receives(q)
  /\ task' = [task EXCEPT ![q] =
                [IdleTask EXCEPT !.phase = "call", !.for = for, !.who = o,
                   !.d = dialogue[o], !.n = n, !.given = given, !.asked = asked]]
  /\ BeginCall(q, op, o, dialogue[o].login)
  /\ UNCHANGED <<kind, dialogue, config, jobs, ended, stored>>

\* A message without options.
Asking(q, o, steps, for, op) ==
  /\ dialogue[o].step \in steps
  /\ Handles(q, o, for, op, 0, {}, {})
  /\ UNCHANGED commands

\* A new command with options.
Commanding(q, o, for) ==
  /\ dialogue[o].step = "none"
  /\ commands < MaxCommands
  /\ commands' = commands + 1
  /\ \E given \in Givens : Handles(q, o, for, "use", commands + 1, given, given)

\* An answer to the dialogue of a command, which is one of its options.
Answering(q, o, step, for, f) ==
  LET d == dialogue[o] IN
    /\ d.step = step
    /\ Handles(q, o, for, "use", d.n, d.given \cup f, d.asked \cup f)
    /\ UNCHANGED commands

\* The handler only replaces the state.
Replaces(o, state) ==
  /\ dialogue' = [dialogue EXCEPT ![o] = state]
  /\ UNCHANGED <<kind, task, config, jobs, commands, call, stored>>

Asks(step) == [NoState EXCEPT !.step = step]

\* Mutant: the state survives.
Drops_Nothing(o) ==
  /\ Replaces(o, dialogue[o])
  /\ ended' = [n \in Commands |->
                 IF n # dialogue[o].n THEN ended[n]
                 ELSE IF \E q \in Callers : task[q].n = n THEN "busy" ELSE "quiet"]

\* The state is dropped, and with it the dialogue of a command; "busy" when another
\* handler of that dialogue is at work.
Drops(o) ==
  /\ Replaces(o, NoState)
  /\ ended' = [n \in Commands |->
                 IF n # dialogue[o].n THEN ended[n]
                 ELSE IF \E q \in Callers : task[q].n = n THEN "busy" ELSE "quiet"]

\* /connect without a phone number, or with one that is malformed.
ConnectAsksPhone(q, o) ==
  /\ dialogue[o].step \in {"none", "phone"}
  /\ Receives(q)
  /\ Replaces(o, Asks("phone"))
  /\ UNCHANGED ended

\* begin_telegram_connection, from /connect or from the answer.
Connect(q, o) == Asking(q, o, {"none", "phone"}, "connect", "start")

\* /disconnect
Disconnect(q, o) == Asking(q, o, {"none"}, "disconnect", "disconnect")

InputCode(q, o) == Asking(q, o, {"code"}, "login", "code")

InputPassword(q, o) == Asking(q, o, {"password"}, "login", "password")

\* cancel and /cancel in a dialogue; outside one, /cancel drops no state.
Cancel(q, o) ==
  /\ dialogue[o].step # "none"
  /\ Receives(q)
  /\ Drops(o)

\* The lifetime of the state is over.
StateExpires(o) ==
  /\ dialogue[o].step # "none"
  /\ Drops(o)
  /\ UNCHANGED events

\* /migrate
Migrate(q, o) == Commanding(q, o, "prepare")

\* /configure
Configure(q, o) == Commanding(q, o, "configure")

\* /add_users without a chat, and /import_archive.
AsksFor(q, o, step) ==
  /\ dialogue[o].step = "none"
  /\ Receives(q)
  /\ Replaces(o, Asks(step))
  /\ UNCHANGED ended

AddUsers(q, o) == AsksFor(q, o, "members")

SelectMembersChat(q, o) == Asking(q, o, {"none", "members"}, "choose_members", "use")

InputMembersWorkbook(q, o) == Asking(q, o, {"workbook"}, "add_members", "use")

ImportArchive(q, o) == AsksFor(q, o, "archive")

\* An archive needs no Telegram session.
InputArchive(q, o) ==
  /\ dialogue[o].step = "archive"
  /\ Receives(q)
  /\ task' = [task EXCEPT ![q] = [IdleTask EXCEPT !.phase = "import", !.who = o,
                                                  !.d = dialogue[o]]]
  /\ UNCHANGED <<kind, dialogue, config, jobs, commands, ended, call, stored>>

\* The peer is named, or the chat is migrated without.
InputPrivatePeer(q, o) ==
  \E for \in {"map", "start"} : Answering(q, o, "private_peer", for, {})

InputTopics(q, o) == Answering(q, o, "topics", "prepare", {"topics"})

\* The matrix is uploaded or skipped: the policy of the migration says so.
InputGroupMatrix(q, o) ==
  \E for \in {"map", "start"} : Answering(q, o, "group_matrix", for, {"policy"})

\* _prompt_channel_access_strategy keeps neither the chat nor the range.
AccessPrompt(d) == [d EXCEPT !.step = "access", !.chat = FALSE,
                             !.given = (@ \cup {"policy"}) \ {"range"},
                             !.asked = @ \cup {"policy"}]

\* With an access strategy the migration starts; without one it is asked for, at
\* once if there is no matrix to import.
InputChannelMatrix(q, o) ==
  LET d == dialogue[o] IN
    \/ Answering(q, o, "channel_matrix", "map", {"policy"})
    \/ /\ "access" \in d.given
       /\ Answering(q, o, "channel_matrix", "start", {"policy"})
    \/ /\ d.step = "channel_matrix" /\ "access" \notin d.given
       /\ Receives(q)
       /\ Replaces(o, AccessPrompt(d))
       /\ UNCHANGED ended

\* Without the chat in the storage the handler fails, and the state stays.
InputAccess(q, o) ==
  /\ dialogue[o].chat
  /\ Answering(q, o, "access", "start", {"access"})

-----------------------------------------------------------------------------
(* The handler goes on when the service has answered, or the client gives up. *)

Hears(q, outcome) ==
  /\ task[q].phase = "call"
  /\ ~call[q].alone
  /\ call[q].phase = "done" /\ call[q].outcome = outcome

TaskEnds(q) == task' = [task EXCEPT ![q] = IdleTask]

TaskGoes(q, phase) == task' = [task EXCEPT ![q].phase = phase]

\* change_state or drop_state, whatever the state is by now.
Sets(q, state) ==
  /\ dialogue' = [dialogue EXCEPT ![task[q].who] = state]
  /\ TaskEnds(q)

\* The state is about to be replaced.
Writes(q, state) == task' = [task EXCEPT ![q].phase = "write", ![q].next = state]

\* The step changes the task and the call only.
OnlyTheTask == UNCHANGED <<config, jobs, commands, ended, stored, events>>

\* The error is told to the operator; the state stays.
TellError(q) ==
  /\ task[q].phase = "call"
  /\ TaskEnds(q)
  /\ \/ Hears(q, "error") /\ EndCall(q)
     \/ call[q].alone /\ UNCHANGED call
  /\ UNCHANGED <<kind, dialogue>>
  /\ OnlyTheTask

Continues(q, outcome) ==
  /\ Hears(q, outcome)
  /\ EndCall(q)
  /\ OnlyTheTask
  /\ UNCHANGED kind

AskCode(q) ==
  /\ task[q].for = "connect"
  /\ Continues(q, "challenge")
  /\ Sets(q, [Asks("code") EXCEPT !.login = call[q].login])

AskPassword(q) ==
  /\ task[q].for = "login"
  /\ Continues(q, "password")
  /\ Sets(q, [Asks("password") EXCEPT !.login = call[q].login])

\* Connected, disconnected, or the members are added: the dialogue is over.
Finish(q) ==
  /\ task[q].for \in {"login", "disconnect", "add_members"}
  /\ Continues(q, "ok")
  /\ Sets(q, NoState)

WorkbookState == [Asks("workbook") EXCEPT !.chat = TRUE]

\* prepare_chat_members_workbook, for a chat that is the operator's.
AskWorkbook(q) ==
  /\ task[q].for = "choose_members"
  /\ config.owner = task[q].who
  /\ Continues(q, "ok")
  /\ Sets(q, WorkbookState)

Foreign(o) == config.owner \notin {o, NoOne}

\* The requested value or else the configured one; a configuration always has one.
Effective(q, f) == f \in task[q].given \/ config.owner # NoOne

\* matrix_uploaded or skip_unresolved.
PolicyIsSet(q) == "policy" \in task[q].given \/ config.by["policy"] # 0

\* What the storage keeps of the options when the bot asks for the peer, about a
\* group, about a channel.
PrivatePayload == {"range", "policy"}

GroupPayload == Options \ {"access"}

ChannelPayload == Options

Prompt(q, step, kept) ==
  [step |-> step, chat |-> TRUE, login |-> 0, n |-> task[q].n,
   given |-> task[q].given \cap kept, asked |-> task[q].asked]

\* The questions that are asked before a migration: prepare_private_chat_resolution,
\* prepare_group_chat_resolution, prepare_channel_chat_resolution.  unmapped: some
\* participant has no counterpart.
PrivateQuestion(q, unmapped) ==
  IF unmapped THEN {Prompt(q, "private_peer", PrivatePayload)} ELSE {}

GroupQuestion(q, unmapped, topics) ==
  IF topics /\ ~Effective(q, "topics") THEN {Prompt(q, "topics", GroupPayload)}
  ELSE IF unmapped /\ ~PolicyIsSet(q) THEN {Prompt(q, "group_matrix", GroupPayload)}
  ELSE {}

ChannelQuestion(q, unmapped) ==
  IF unmapped /\ ~PolicyIsSet(q) THEN {Prompt(q, "channel_matrix", ChannelPayload)}
  ELSE IF ~Effective(q, "access") THEN {Prompt(q, "access", ChannelPayload)} ELSE {}

Questions(q, k, unmapped) ==
  CASE k = "private" -> PrivateQuestion(q, unmapped)
    [] k = "channel" -> ChannelQuestion(q, unmapped)
    [] OTHER -> GroupQuestion(q, unmapped, k = "forum")

\* The handler goes on to its next call of the service.
NextCall(q, for) ==
  /\ task' = [task EXCEPT ![q].for = for]
  /\ call' = [call EXCEPT ![q] = [IdleCall EXCEPT !.phase = "begin", !.op = "use",
                                                  !.who = task[q].who]]

\* A question is asked, or the migration starts.  A chat of another operator is
\* refused.
Prepare(q) ==
  /\ task[q].for = "prepare"
  /\ Hears(q, "ok")
  /\ kind' \in IF kind = "unknown" THEN Kinds ELSE {kind}
  /\ \/ Foreign(task[q].who) /\ TaskEnds(q) /\ EndCall(q)
     \/ ~Foreign(task[q].who) /\ \E unmapped \in BOOLEAN :
          \/ /\ Questions(q, kind', unmapped) = {}
             /\ NextCall(q, "start")
          \/ /\ EndCall(q)
             /\ \E state \in Questions(q, kind', unmapped) : Writes(q, state)
  /\ UNCHANGED dialogue
  /\ OnlyTheTask

\* What follows: the migration starts, or the access is asked for.
AfterMapping(q) ==
  IF kind = "channel" /\ "access" \notin task[q].given
  THEN Sets(q, AccessPrompt(task[q].d)) /\ EndCall(q)
  ELSE NextCall(q, "start") /\ UNCHANGED dialogue

\* The identities are stored.
Map(q) ==
  /\ task[q].for = "map"
  /\ Hears(q, "ok")
  /\ AfterMapping(q)
  /\ UNCHANGED kind
  /\ OnlyTheTask

\* Some row of the workbook, the peer, or the chat is refused; the rows before it are
\* stored, and the state stays.
MapFails(q) ==
  /\ task[q].for \in {"map", "choose_members", "add_members"}
  /\ Continues(q, "ok")
  /\ TaskEnds(q)
  /\ UNCHANGED dialogue

\* The configuration of the chat, unless it is another operator's.
ReadConfig(q) ==
  /\ task[q].for \in {"configure", "start"}
  /\ Continues(q, "ok")
  /\ IF Foreign(task[q].who) THEN TaskEnds(q)
     ELSE task' = [task EXCEPT ![q].phase = "merge", ![q].old = config]
  /\ UNCHANGED dialogue

\* What was read, under the options of the handler.
Merged(q, old) ==
  [owner |-> task[q].who,
   by |-> [f \in Options |-> IF f \in task[q].given THEN task[q].n ELSE old.by[f]]]

\* Mutant: the row is replaced, whoever owns it.
SaveConfig_Blindly(q) ==
  /\ task[q].phase = "merge"
  /\ config' = Merged(q, task[q].old)
  /\ IF task[q].for = "start" THEN TaskGoes(q, "start") ELSE TaskEnds(q)
  /\ UNCHANGED <<kind, dialogue, jobs, commands, ended, sessionVars>>

\* _save_chat_config: the row of another operator is left alone, and then the owner
\* of what was saved is looked at again.
SaveConfig(q) ==
  /\ task[q].phase = "merge"
  /\ IF Foreign(task[q].who) THEN TaskEnds(q) /\ UNCHANGED config
     ELSE /\ config' = Merged(q, task[q].old)
          /\ IF task[q].for = "start" THEN TaskGoes(q, "start") ELSE TaskEnds(q)
  /\ UNCHANGED <<kind, dialogue, jobs, commands, ended, sessionVars>>

\* Mutant: the job runs with the configuration as it is loaded.
JobOf_AsConfigured(q) ==
  [who |-> task[q].who, n |-> task[q].n, by |-> config.by, asked |-> task[q].asked]

\* The options of the handler override what is loaded.
JobOf(q) ==
  [who |-> task[q].who, n |-> task[q].n, by |-> Merged(q, config).by,
   asked |-> task[q].asked]

\* _load_config_manifest, _apply_run_overrides, and the start: a job, a blocked
\* result, or an error.  A handler of an answer then drops the state.
StartJob(q) ==
  /\ task[q].phase = "start"
  /\ \/ TaskEnds(q) /\ UNCHANGED jobs
     \/ /\ jobs' = jobs \cup {JobOf(q)} \/ UNCHANGED jobs
        /\ IF task[q].d.step = "none" THEN TaskEnds(q) ELSE Writes(q, NoState)
  /\ UNCHANGED <<kind, dialogue, config, commands, ended, sessionVars>>

\* start_archive_import: the job for the chat of the archive, which is none of this
\* dialogue's, is started, or the operator is told the error.
StartImport(q) ==
  /\ task[q].phase = "import"
  /\ TaskEnds(q) \/ Writes(q, NoState)
  /\ UNCHANGED <<kind, dialogue, config, jobs, commands, ended, sessionVars>>

WriteState(q) ==
  /\ task[q].phase = "write"
  /\ Sets(q, task[q].next)
  /\ UNCHANGED <<kind, config, jobs, commands, ended, sessionVars>>

\* The answer of a call that nobody waits for.
AnswerIsLost(q) ==
  /\ call[q].alone /\ task[q].phase = "idle"
  /\ EndCall(q)
  /\ UNCHANGED <<dialogueVars, stored, events>>

-----------------------------------------------------------------------------

Message(q, o) ==
  \/ ConnectAsksPhone(q, o) \/ Connect(q, o) \/ Disconnect(q, o)
  \/ InputCode(q, o) \/ InputPassword(q, o) \/ Cancel(q, o)
  \/ Migrate(q, o) \/ Configure(q, o)
  \/ AddUsers(q, o) \/ SelectMembersChat(q, o) \/ InputMembersWorkbook(q, o)
  \/ ImportArchive(q, o) \/ InputArchive(q, o)
  \/ InputPrivatePeer(q, o) \/ InputTopics(q, o) \/ InputGroupMatrix(q, o)
  \/ InputChannelMatrix(q, o) \/ InputAccess(q, o)

HandlerStep(q) ==
  \/ TellError(q) \/ AskCode(q) \/ AskPassword(q) \/ Finish(q) \/ AskWorkbook(q)
  \/ Prepare(q) \/ Map(q) \/ MapFails(q) \/ ReadConfig(q) \/ SaveConfig(q) \/ StartJob(q)
  \/ StartImport(q)
  \/ WriteState(q) \/ AnswerIsLost(q)

ServiceStep ==
  /\ \/ \E q \in Callers : CallStep(q) \/ CallerGivesUp(q)
     \/ SessionEnvironment
  /\ UNCHANGED dialogueVars

Next ==
  \/ \E q \in Callers, o \in Operators : Message(q, o)
  \/ \E q \in Callers : HandlerStep(q)
  \/ \E o \in Operators : StateExpires(o)
  \/ ServiceStep

Spec == Init /\ [][Next]_vars

-----------------------------------------------------------------------------
(* Properties. *)

Job == [who : Operators, n : Commands, by : [Options -> 0 .. MaxCommands],
        asked : SUBSET Options]

TypeOK ==
  /\ SessionTypeOK
  /\ kind \in Kinds \cup {"unknown"}
  /\ dialogue \in [Operators -> State]
  /\ task \in [Callers -> Task]
  /\ config \in [owner : Operators \cup {NoOne}, by : [Options -> 0 .. MaxCommands]]
  /\ jobs \subseteq Job
  /\ commands \in 0 .. MaxCommands
  /\ ended \in [Commands -> {"no", "busy", "quiet"}]

\* A job runs with every option that its command gave or its dialogue answered,
\* whatever other commands saved meanwhile; only the access strategy is forgotten by
\* the dialogue of a chat that is no channel, and the topics by that of a private
\* chat, where there are none (wizard.py, begin_private_chat_resolution and
\* begin_group_chat_resolution; bot_control.py, _apply_run_overrides).
Forgotten ==
  CASE kind = "private" -> {"access", "topics"}
    [] kind = "channel" -> {}
    [] OTHER -> {"access"}

JobAsAsked ==
  \A j \in jobs : \A f \in j.asked \ Forgotten : j.by[f] = j.n

\* A job is started only by the operator that the configuration of its chat belongs
\* to, whichever of two operators configures the chat first (bot_control.py,
\* _save_chat_config and _ensure_operator_owns_chat_config).
JobOfOwner == \A j \in jobs : j.who = config.owner

\* A dialogue that was cancelled, or expired, while none of its answers was being
\* handled, starts no job any more: only a handler at work may put the state back
\* (wizard.py, _cancel).
EndedStaysEnded ==
  [][\A j \in jobs' \ jobs : ended[j.n] # "quiet"]_vars
=============================================================================
