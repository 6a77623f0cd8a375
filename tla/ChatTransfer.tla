---------------------------- MODULE ChatTransfer ----------------------------
(***************************************************************************)
(* The transfer of one chat from end to end: executions provision the      *)
(* target chat (TargetProvisioning), deliver the messages to the chat they *)
(* were given (ChatDelivery) with their attachments (AttachmentDelivery),  *)
(* and mark the chat as completed in the mapping they have read.           *)
(*                                                                         *)
(* An execution of the backfill holds the mapping it was given to its end; *)
(* /retry_failed sends each message where its row says it was claimed for, *)
(* and reads the mapping only when its list is done.  Each saves the whole *)
(* row of the mapping as it has read it, with the new status.              *)
(***************************************************************************)
EXTENDS AttachmentDelivery

CONSTANTS
  People, Adders, MaxChats, \* see TargetProvisioning
  Settings \* [dialog, mapping, files, bound]: what a behaviour may start with

VARIABLES
  dialog, mapping, chats, member, provision, cut, raced, \* see TargetProvisioning
  known,   \* [Executors -> the mapping that the execution has read]
  aim,     \* [Executors -> the chat that it delivers to]
  rowChat, \* [Messages -> target_chat_id of the row of the registry]
  bound,   \* [busy, faults]: bounds on the executions at work at once and on the faults
  sentTo   \* [Messages -> chats that the message has reached] (history)

P == INSTANCE TargetProvisioning WITH Makers <- Backfills

\* A mapping that a behaviour starts with has no target yet: chats are numbered as they
\* are created.
ASSUME TransferAssumption ==
  /\ P!ProvisioningAssumption
  /\ Targets = P!Chats
  /\ Settings \subseteq [dialog : P!Dialog, mapping : {m \in P!Mapping : m.target = 0},
                         files : [Messages -> 0 .. MaxFiles],
                         bound : [busy : Nat, faults : Nat]]

provisionVars == <<dialog, mapping, chats, member, provision, cut, raced>>
chatVars == <<known, aim, bound, rowChat, sentTo>>
transferVars == <<vars, fileVars, work, provisionVars, chatVars>>

TransferInit ==
  /\ Init
  /\ \E s \in Settings :
       /\ P!ProvisionInit(s.dialog, s.mapping)
       /\ FilesInit(s.files)
       /\ bound = s.bound
  /\ known = [x \in Executors |-> P!NoMapping]
  /\ aim = [x \in Executors |-> 0]
  /\ rowChat = [m \in Messages |-> 0]
  /\ sentTo = [m \in Messages |-> {}]

\* The executions that are at work.
Busy == {x \in Executors : ~InPhase(x, "idle")}
          \cup {x \in Backfills \cup Adders : ~P!In(x, "idle")}
WithinBounds == Cardinality(Busy) <= bound.busy /\ faults <= bound.faults

-----------------------------------------------------------------------------
\* Provisioning: by an execution that does not deliver yet, or by /add_users.
Provisioning ==
  /\ P!ProvisionStep
  /\ \A x \in Backfills : InPhase(x, "idle") \/ provision'[x] = provision[x]
  /\ UNCHANGED <<vars, fileVars, work, chatVars>>
  /\ WithinBounds'

\* ensure_target_chat returns, and the checkpoint is read.
Start(x) ==
  /\ P!In(x, "ready")
  /\ StartBackfill(x)
  /\ AroundFiles
  /\ P!Goes(x, P!IdleProvision)
  /\ known' = [known EXCEPT ![x] = provision[x].old]
  /\ aim' = [aim EXCEPT ![x] = provision[x].chat]
  /\ UNCHANGED <<dialog, mapping, chats, member, cut, raced, bound, rowChat, sentTo>>

\* What an execution that has ended knew is gone.
Forgets ==
  /\ known' = [x \in Executors |-> IF execution'[x].phase = "idle" THEN P!NoMapping
                                   ELSE known[x]]
  /\ aim' = [x \in Executors |-> IF execution'[x].phase = "idle" THEN 0 ELSE aim[x]]

\* A claim writes the chat of the execution into the row.
Claims(x) ==
  /\ Claim(x) \/ Reclaim(x)
  /\ AroundFiles
  /\ rowChat' = IF execution'[x].phase = "send" THEN [rowChat EXCEPT ![At(x)] = aim[x]]
                ELSE rowChat
  /\ Forgets
  /\ UNCHANGED <<provisionVars, bound, sentTo>>

\* /retry_failed, which the bot executes itself.
StartsReplay(y) ==
  /\ StartReplay(y)
  /\ AroundFiles
  /\ UNCHANGED <<provisionVars, chatVars>>
  /\ WithinBounds'

\* A message is replayed into the chat that its row names.
TakesFailed(y) ==
  /\ TakeFailed(y)
  /\ AroundFiles
  /\ aim' = IF execution'[y].phase = "send"
            THEN [aim EXCEPT ![y] = rowChat[execution'[y].at]] ELSE aim
  /\ UNCHANGED <<provisionVars, known, bound, rowChat, sentTo>>

\* A step of deliver(), with the chat it delivers to.
Delivers(x) ==
  /\ FileStep(x, aim[x])
  /\ sentTo' = IF copies' # copies THEN [sentTo EXCEPT ![At(x)] = @ \cup {aim[x]}]
               ELSE sentTo
  /\ UNCHANGED <<provisionVars, known, aim, bound, rowChat>>
  /\ WithinBounds'

\* The steps of ChatDelivery that neither read nor write a chat.
Registers ==
  /\ \/ \E x \in Backfills : NextMessage(x) \/ SaveCheckpoint(x)
     \/ \E x \in Executors :
           MarkImported(x) \/ MarkFailed(x) \/ MarkAmbiguous(x) \/ MarkCancelled(x) \/ Die(x)
     \/ \E m \in Messages : GrowsStale(m)
  /\ AroundFiles
  /\ Forgets
  /\ UNCHANGED <<provisionVars, bound, rowChat, sentTo>>
  /\ WithinBounds'

\* _mark_chat_completed_if_clean reads the mapping before it counts the rows.
ReadMapping(y) ==
  /\ InPhase(y, "next")
  /\ execution[y].todo = {}
  /\ known[y] = P!NoMapping
  /\ known' = [known EXCEPT ![y] = mapping]
  /\ UNCHANGED <<vars, fileVars, work, provisionVars, aim, bound, rowChat, sentTo>>

\* The mapping as x has read it is saved as completed, if it is not yet.
SavesCompleted(x, clean) ==
  mapping' = IF clean /\ known[x].status # "completed"
             THEN [known[x] EXCEPT !.status = "completed"] ELSE mapping

FinishesBackfill(x) ==
  /\ FinishBackfill(x)
  /\ SavesCompleted(x, ~execution[x].failed)
  /\ AroundFiles
  /\ Forgets
  /\ UNCHANGED <<dialog, chats, member, provision, cut, raced, bound, rowChat, sentTo>>

FinishesReplay(y) ==
  /\ known[y] # P!NoMapping
  /\ FinishReplay(y)
  /\ SavesCompleted(y, \A m \in Messages : row[m].status \in {"absent", "imported"})
  /\ AroundFiles
  /\ Forgets
  /\ UNCHANGED <<dialog, chats, member, provision, cut, raced, bound, rowChat, sentTo>>

FilesAge == FileAges /\ UNCHANGED <<provisionVars, chatVars>>

TransferNext ==
  \/ Provisioning
  \/ \E x \in Backfills : Start(x) \/ Claims(x) \/ FinishesBackfill(x)
  \/ \E y \in Replays : StartsReplay(y) \/ TakesFailed(y) \/ ReadMapping(y) \/ FinishesReplay(y)
  \/ \E x \in Executors : Delivers(x)
  \/ Registers
  \/ FilesAge

TransferSpec == TransferInit /\ [][TransferNext]_transferVars

-----------------------------------------------------------------------------
(* Properties.                                                             *)

\* The shape of the provisioning, of the delivery and of its attachments.
TransferTypeOK ==
  /\ TypeOK
  /\ FilesTypeOK
  /\ P!ProvisionTypeOK
  /\ known \in [Executors -> P!Mapping]
  /\ aim \in [Executors -> P!Chats]
  /\ bound \in [busy : Nat, faults : Nat]
  /\ rowChat \in [Messages -> P!Chats]
  /\ sentTo \in [Messages -> SUBSET P!Chats]

\* A chat that was created is the target of the mapping, or is being provisioned,
\* unless its creator was cut off before it saved the mapping or two executions
\* created the chat at once: reruns and retries create no second chat.
OneTarget == P!OneTarget

\* Direct adding leaves nobody out unnoticed: when the result is reported, each
\* participant who was resolved is in the chat or is reported as failed.
NobodyForgotten == P!NobodyForgotten

\* A message reaches no chat but the one that the mapping names, however often the
\* migration is repeated, retried and synchronised, unless two executions created
\* the chat at once.
InOneChat == raced \/ \A m \in Messages : sentTo[m] \subseteq {mapping.target}
=============================================================================
