------------------------- MODULE AttachmentDelivery -------------------------
(***************************************************************************)
(* What deliver() does about the attachments of a message, inside the      *)
(* steps of ChatDelivery that only name its outcome: the registry of       *)
(* attachments (migration_attachment_map), the uploads to the file store   *)
(* that come before a send (attachment_stage), and the files that appear   *)
(* in the target chat.                                                     *)
(*                                                                         *)
(* Source: MessageDeliveryService over the two repositories.  The sole     *)
(* attachment of a message that is not in the chat yet is sent inline,     *)
(* with the message; every other one in a message of its own, after it.    *)
(*                                                                         *)
(* A row is claimed by an insert and then marked; nobody owns it, and the  *)
(* rows of two chats are apart in attachment_stage only.  A claim that     *)
(* meets a row in processing or ambiguous raises, and with it deliver().   *)
(* The check that precedes the claim of a follow-up and the claim are one  *)
(* step here; the claim of a failed row is a read and a blind update, two. *)
(*                                                                         *)
(* Left out: the prefetch, which downloads the same files earlier;         *)
(* migrate_media = off, which skips each file; sizes and formats.          *)
(***************************************************************************)
EXTENDS ChatDelivery, FiniteSetsExt

CONSTANTS
  MaxFiles,    \* bound: attachments of a message
  Targets,     \* chats that a message may be delivered to
  StorageMode  \* EXTG_SECURITY__AUDIT_ERROR_PAYLOAD_MODE: "full", "redacted", "none"

ASSUME AttachmentAssumption ==
  /\ MaxFiles \in Nat
  /\ StorageMode \in {"full", "redacted", "none"}

VARIABLES
  files,      \* [Messages -> number of attachments], which does not change
  attachment, \* [Messages -> [file -> row of the attachment registry]]
  stage,      \* [Messages -> [file -> [chat -> row of the upload stages]]]
  filed,      \* [Messages -> [file -> copies of the file in the target chat]]
  blank,      \* [Messages -> files posted as a reference that leads nowhere] (history)
  work        \* [Executors -> what the delivery in hand is about to do]

fileVars == <<files, attachment, stage, filed, blank>>

File == 1 .. MaxFiles

\* why: last_error_payload.phase, or "cancelled" for the error code of a cancellation.
AttachmentStatus == {"absent", "processing", "imported", "failed", "ambiguous", "skipped"}
FailurePhase == {"none", "download", "upload", "send", "cancelled", "unknown"}
AttachmentRow == [status : AttachmentStatus, why : FailurePhase]
NoAttachment == [status |-> "absent", why |-> "none"]
Processing == [status |-> "processing", why |-> "none"]
ImportedFile == [status |-> "imported", why |-> "none"]
SkippedFile == [status |-> "skipped", why |-> "none"]

\* mark_failed and mark_ambiguous keep the phase if the storage mode keeps payloads.
FailedFile(phase) ==
  [status |-> "failed", why |-> IF StorageMode = "none" THEN "unknown" ELSE phase]
AmbiguousFile(phase) == [FailedFile(phase) EXCEPT !.status = "ambiguous"]
CancelledFile == [status |-> "failed", why |-> "cancelled"]

\* ATTACHED, which no guard tells from UPLOADED, is left out.
StageStatus == {"absent", "processing", "uploaded", "failed"}
StageRow == [status : StageStatus, cancelled : BOOLEAN, fresh : BOOLEAN]
NoStage == [status |-> "absent", cancelled |-> FALSE, fresh |-> FALSE]
StageClaimed == [status |-> "processing", cancelled |-> FALSE, fresh |-> TRUE]
StageUploaded == [status |-> "uploaded", cancelled |-> FALSE, fresh |-> FALSE]
StageFailed(cancelled) == [status |-> "failed", cancelled |-> cancelled, fresh |-> FALSE]

\* file: the file in hand.  why: what it is claimed for: "skip" and "download" while
\* files are prepared, "inline" and "deliver" for the two ways of sending, "upload"
\* after an upload that failed.  prepared: files still to be sent.  held: the upload
\* in hand.  writes: the row about to be written.  worst: the outcome so far.
Work ==
  [step : {"prepare", "claim", "retake", "mark", "stage", "restage", "upload", "primary",
           "send", "return"},
   file : 0 .. MaxFiles, why : {"none", "skip", "download", "inline", "deliver", "upload"},
   prepared : SUBSET File, held : {"none", "staged", "redacted", "direct"},
   writes : AttachmentRow, worst : Attachment]

NoWork ==
  [step |-> "prepare", file |-> 0, why |-> "none", prepared |-> {}, held |-> "none",
   writes |-> NoAttachment, worst |-> "ok"]

Step(x, step) == InDeliver(x) /\ work[x].step = step

Works(x, w) == work' = [work EXCEPT ![x] = w]

\* The row of the file in hand, and its row of the uploads to chat c.
Mine(x) == attachment[At(x)][work[x].file]
MyStage(x, c) == stage[At(x)][work[x].file][c]

WriteAttachment(x, r) == attachment' = [attachment EXCEPT ![At(x)][work[x].file] = r]
WriteStage(x, c, r) == stage' = [stage EXCEPT ![At(x)][work[x].file][c] = r]

FilesInit(count) ==
  /\ files = count
  /\ attachment = [m \in Messages |-> [f \in File |-> NoAttachment]]
  /\ stage = [m \in Messages |-> [f \in File |-> [c \in Targets |-> NoStage]]]
  /\ filed = [m \in Messages |-> [f \in File |-> 0]]
  /\ blank = [m \in Messages |-> {}]
  /\ work = [x \in Executors |-> NoWork]

-----------------------------------------------------------------------------
(* The order of deliver().                                                 *)

\* The files that are left are sent one by one, after the message.
Onward(w) ==
  IF w.prepared = {} THEN [w EXCEPT !.step = "return", !.file = 0, !.why = "none"]
  ELSE [w EXCEPT !.step = "claim", !.why = "deliver", !.file = Min(w.prepared),
                 !.prepared = @ \ {Min(w.prepared)}]

\* Seeded fault: the last file is not prepared.
Prepared_BeforeTheEnd(m, reuse, w) ==
  IF w.file + 1 < files[m] THEN [w EXCEPT !.step = "prepare", !.file = @ + 1]
  ELSE IF reuse THEN Onward(w)
  ELSE [w EXCEPT !.step = "primary", !.file = 0]

\* The next file is prepared; after the last, a single file is uploaded and sent
\* with a message that is not in the chat yet.
Prepared(m, reuse, w) ==
  IF w.file < files[m]
  THEN [w EXCEPT !.step = "prepare", !.file = @ + 1, !.why = "none"]
  ELSE IF reuse THEN Onward(w)
  ELSE IF Cardinality(w.prepared) = 1
  THEN [w EXCEPT !.step = "stage", !.why = "inline", !.file = Min(w.prepared),
                 !.prepared = {}]
  ELSE [w EXCEPT !.step = "primary", !.why = "none", !.file = 0]

\* What the outcome of a file, read off its row, means for the message.
Worst(worst, r) ==
  IF r.why # "send" THEN worst
  ELSE IF r.status = "ambiguous" THEN "attachment_unclear"
  ELSE IF r.status = "failed" /\ worst = "ok" THEN "attachment_incomplete"
  ELSE worst

\* The file in hand is done with; r is the row that says how.
Done(x, r) ==
  LET w == [work[x] EXCEPT !.worst = Worst(@, r), !.writes = NoAttachment]
  IN  IF w.why \in {"skip", "download"} THEN Prepared(At(x), execution[x].reuse, w)
      ELSE IF InPhase(x, "send") THEN [w EXCEPT !.step = "primary"]
      ELSE Onward([w EXCEPT !.held = "none"])

Begin(m, reuse) == Prepared(m, reuse, NoWork)

\* deliver() raises, before its send or after it.
Raises(x) ==
  /\ \/ SendUnanswered(x) /\ UNCHANGED copies
     \/ AttachmentBlocks(x)
  /\ Works(x, NoWork)
  /\ UNCHANGED fileVars

-----------------------------------------------------------------------------
(* _prepare_message.                                                       *)

\* A file of a message that is in the chat is left as it is unless it blocks the
\* message; another is skipped for its size, cannot be downloaded or read, or is
\* ready.
Prepare(x) ==
  LET w == work[x]
      r == Mine(x)
      kept == execution[x].reuse /\ r.status # "absent" /\ Worst("ok", r) = "ok"
  IN  /\ Step(x, "prepare")
      /\ execution[x].reuse => InPhase(x, "sent")
      /\ \/ kept /\ Works(x, Prepared(At(x), TRUE, w))
         \/ ~kept /\ \E why \in {"skip", "download"} :
                        Works(x, [w EXCEPT !.step = "claim", !.why = why])
         \/ ~kept /\ Works(x, Prepared(At(x), execution[x].reuse,
                                       [w EXCEPT !.prepared = @ \cup {w.file}]))
      /\ UNCHANGED <<vars, fileVars>>

-----------------------------------------------------------------------------
(* PostgresAttachmentMappingRepository.claim, and what its callers do.     *)

\* retry_failed, as each caller passes it.
RetryFailed(x) ==
  CASE work[x].why = "inline" -> TRUE
    [] work[x].why = "skip" -> FALSE
    [] work[x].why = "download" -> ~execution[x].reuse
    [] OTHER -> x \in Replays

\* A failed row is claimed again.  A follow-up of /retry_failed is not, unless its
\* upload or its send is what failed.
TakesOver(x, r) ==
  /\ r.status = "failed"
  /\ IF work[x].why = "deliver" /\ x \in Replays THEN r.why \in {"send", "upload"}
     ELSE RetryFailed(x) \/ r.why = "cancelled"

\* The row says what there is to say of the file; nothing is written.
Settles(x, r) ==
  CASE work[x].why \in {"deliver", "inline"} ->
         r.status \in {"imported", "skipped"} \/ (r.status = "failed" /\ ~TakesOver(x, r))
    [] work[x].why = "skip" -> r.status = "skipped"
    [] OTHER -> r.status = "failed" /\ ~TakesOver(x, r)

\* What is written about the file without anything being sent now.
MarkFor(x) ==
  CASE work[x].why = "skip" -> SkippedFile
    [] work[x].why = "inline" -> ImportedFile
    [] OTHER -> FailedFile(work[x].why)

Claimed(x) ==
  IF work[x].why = "deliver" THEN [work[x] EXCEPT !.step = "stage"]
  ELSE [work[x] EXCEPT !.step = "mark", !.writes = MarkFor(x)]

\* Seeded fault: a file whose earlier delivery is in doubt is claimed like any other.
ClaimFile_Doubtful(x) ==
  /\ Step(x, "claim")
  /\ IF Settles(x, Mine(x))
     THEN Works(x, Done(x, Mine(x))) /\ UNCHANGED attachment
     ELSE Works(x, Claimed(x)) /\ WriteAttachment(x, Processing)
  /\ UNCHANGED <<vars, files, stage, filed, blank>>

ClaimFile(x) ==
  LET r == Mine(x)
  IN  /\ Step(x, "claim")
      /\ \/ /\ r.status = "absent"
            /\ WriteAttachment(x, Processing)
            /\ Works(x, Claimed(x))
            /\ UNCHANGED <<vars, files, stage, filed, blank>>
         \/ /\ TakesOver(x, r)
            /\ Works(x, [work[x] EXCEPT !.step = "retake"])
            /\ UNCHANGED <<vars, fileVars>>
         \/ /\ Settles(x, r)
            /\ Works(x, Done(x, r))
            /\ UNCHANGED <<vars, fileVars>>
         \/ /\ r.status \in {"processing", "ambiguous"}
            /\ Raises(x)
         \/ /\ r.status \in {"imported", "skipped", "failed"}
            /\ ~TakesOver(x, r) /\ ~Settles(x, r)
            /\ Works(x, Claimed(x))
            /\ UNCHANGED <<vars, fileVars>>

Retake(x) ==
  /\ Step(x, "retake")
  /\ WriteAttachment(x, Processing)
  /\ Works(x, Claimed(x))
  /\ UNCHANGED <<vars, files, stage, filed, blank>>

\* mark_skipped, mark_imported, mark_failed, mark_ambiguous: whatever the row says.
MarkFile(x) ==
  /\ Step(x, "mark")
  /\ WriteAttachment(x, work[x].writes)
  /\ Works(x, Done(x, work[x].writes))
  /\ UNCHANGED <<vars, files, stage, filed, blank>>

-----------------------------------------------------------------------------
(* _ensure_uploaded_attachment.                                            *)

\* The upload is in hand: it goes with the message, or in one of its own.
HasUpload(x, held) ==
  Works(x, [work[x] EXCEPT !.held = held,
                           !.step = IF InPhase(x, "send") THEN "primary" ELSE "send"])

\* An upload found in the registry: its payload was redacted, or was not stored and
\* the file is uploaded again.
Reused(x) ==
  CASE StorageMode = "full" -> HasUpload(x, "staged")
    [] StorageMode = "redacted" -> HasUpload(x, "redacted")
    [] StorageMode = "none" -> Works(x, [work[x] EXCEPT !.step = "upload"])

\* PostgresAttachmentStageRepository.claim: a row in processing is taken over when it
\* is stale, a failed one is claimed again by /retry_failed or after a cancellation.
\* Otherwise a backfill that finds the upload failed goes by the row of the
\* attachment, if there is one, and uploads if there is none.
ClaimStage(x, c) ==
  LET s == MyStage(x, c)
      again == s.status = "failed" /\ (x \in Replays \/ s.cancelled)
  IN  /\ Step(x, "stage")
      /\ \/ /\ s.status = "absent" \/ (s.status = "processing" /\ ~s.fresh)
            /\ WriteStage(x, c, StageClaimed)
            /\ Works(x, [work[x] EXCEPT !.step = "upload"])
            /\ UNCHANGED <<vars, files, attachment, filed, blank>>
         \/ /\ s.status = "processing" /\ s.fresh
            /\ Raises(x)
         \/ /\ s.status = "uploaded"
            /\ Reused(x)
            /\ UNCHANGED <<vars, fileVars>>
         \/ /\ again
            /\ Works(x, [work[x] EXCEPT !.step = "restage"])
            /\ UNCHANGED <<vars, fileVars>>
         \/ /\ s.status = "failed" /\ ~again
            /\ Works(x, IF Mine(x).status = "absent" THEN [work[x] EXCEPT !.step = "upload"]
                        ELSE Done(x, Mine(x)))
            /\ UNCHANGED <<vars, fileVars>>

Restage(x, c) ==
  /\ Step(x, "restage")
  /\ WriteStage(x, c, StageClaimed)
  /\ Works(x, [work[x] EXCEPT !.step = "upload"])
  /\ UNCHANGED <<vars, files, attachment, filed, blank>>

UploadSucceeds(x, c) ==
  /\ Step(x, "upload")
  /\ WriteStage(x, c, StageUploaded)
  /\ HasUpload(x, "staged")
  /\ UNCHANGED <<vars, files, attachment, filed, blank>>

\* A file whose upload failed for its preview is sent as it is.
SendsDirectly(x) == HasUpload(x, "direct")

UploadFails(x, c) ==
  /\ Step(x, "upload")
  /\ WriteStage(x, c, StageFailed(FALSE))
  /\ \/ SendsDirectly(x)
     \/ Works(x, [work[x] EXCEPT !.step = "claim", !.why = "upload"])
  /\ UNCHANGED <<vars, files, attachment, filed, blank>>

-----------------------------------------------------------------------------
(* The sends.                                                              *)

\* The file of the send in hand appears in the chat.  A redacted upload is refused,
\* and the file itself is sent, or is taken and shows nothing.
FileArrives(x, f) ==
  \/ filed' = [filed EXCEPT ![At(x)][f] = @ + 1] /\ UNCHANGED blank
  \/ /\ work[x].held = "redacted"
     /\ blank' = [blank EXCEPT ![At(x)] = @ \cup {f}]
     /\ UNCHANGED filed

\* The file goes with the primary message.
WithPrimary(x) ==
  IF work[x].held = "none" THEN UNCHANGED <<filed, blank>>
  ELSE FileArrives(x, work[x].file)

\* A message that is in the chat is not sent again: its files are prepared now.
PrimaryReady(x) == IF execution[x].reuse THEN InPhase(x, "send") ELSE Step(x, "primary")

\* Seeded fault: an inline file is marked as imported though its upload failed.
PrimaryAnswered_MarksInline(x) ==
  /\ PrimaryReady(x)
  /\ SendAnswered(x)
  /\ IF execution[x].reuse THEN UNCHANGED <<work, filed, blank>>
     ELSE /\ WithPrimary(x)
          /\ Works(x, IF work[x].file = 0 THEN Onward(work[x])
                      ELSE [work[x] EXCEPT !.step = "claim", !.why = "inline"])
  /\ UNCHANGED <<files, attachment, stage>>

PrimaryAnswered(x) ==
  /\ PrimaryReady(x)
  /\ SendAnswered(x)
  /\ IF execution[x].reuse THEN UNCHANGED <<work, filed, blank>>
     ELSE /\ WithPrimary(x)
          /\ Works(x, IF work[x].held = "none" THEN Onward(work[x])
                      ELSE [work[x] EXCEPT !.step = "claim", !.why = "inline"])
  /\ UNCHANGED <<files, attachment, stage>>

\* The file goes with the first part of a long message.
PrimaryBreaksOff(x) ==
  /\ PrimaryReady(x)
  /\ PartArrives(x)
  /\ WithPrimary(x)
  /\ UNCHANGED <<files, attachment, stage, work>>

\* Refused, or failed before a file was prepared.
PrimaryRefused(x) ==
  /\ SendRefused(x)
  /\ PrimaryReady(x) \/ work[x] = Begin(At(x), execution[x].reuse)
  /\ Works(x, NoWork)
  /\ UNCHANGED fileVars

PrimaryUnanswered(x) ==
  /\ Step(x, "primary")
  /\ SendUnanswered(x)
  /\ \/ copies' # copies /\ WithPrimary(x)
     \/ UNCHANGED <<copies, filed, blank>>
  /\ Works(x, NoWork)
  /\ UNCHANGED <<files, attachment, stage>>

\* The result of the send in hand is to be written.
WillMark(x, r) == Works(x, [work[x] EXCEPT !.step = "mark", !.writes = r])

FileSent(x) ==
  /\ Step(x, "send")
  /\ FileArrives(x, work[x].file)
  /\ WillMark(x, ImportedFile)
  /\ UNCHANGED <<vars, files, attachment, stage>>

FileRefused(x) ==
  /\ Step(x, "send")
  /\ WillMark(x, FailedFile("send"))
  /\ UNCHANGED <<vars, fileVars>>

\* Whether the file is in the chat is not known.
FileUnanswered(x) ==
  /\ Step(x, "send")
  /\ FileArrives(x, work[x].file) \/ UNCHANGED <<filed, blank>>
  /\ WillMark(x, AmbiguousFile("send"))
  /\ UNCHANGED <<vars, files, attachment, stage>>

\* deliver() returns.
Return(x) ==
  /\ Step(x, "return")
  /\ InPhase(x, "sent")
  /\ DeliverReturns(x)
  /\ execution'[x].outcome = work[x].worst
  /\ Works(x, NoWork)
  /\ UNCHANGED fileVars

-----------------------------------------------------------------------------
(* Cancellation, age, and the steps of ChatDelivery outside deliver().     *)

\* The file in hand is a follow-up.
FollowUp(x) == InPhase(x, "sent") /\ work[x].why \in {"deliver", "upload"}

\* A cancellation marks the follow-up in hand and its upload, or the inline file
\* that is about to be marked.  The mark of a follow-up that has no row yet raises,
\* and the execution dies.
CancelFiles(x, c) ==
  /\ Cancel(x)
  /\ FollowUp(x) => Mine(x).status # "absent"
  /\ IF FollowUp(x) \/ (work[x].why = "inline" /\ Step(x, "mark"))
     THEN WriteAttachment(x, CancelledFile)
     ELSE UNCHANGED attachment
  /\ IF \/ Step(x, "upload")
        \/ FollowUp(x) /\ MyStage(x, c).status = "processing"
     THEN WriteStage(x, c, StageFailed(TRUE))
     ELSE UNCHANGED stage
  /\ Works(x, NoWork)
  /\ UNCHANGED <<files, filed, blank>>

\* An upload outlives its owner, or takes too long itself.
StageGrowsStale(m, f, c) ==
  /\ stage[m][f][c].fresh
  /\ ~\E x \in Executors : Step(x, "upload") /\ At(x) = m /\ work[x].file = f
  /\ stage' = [stage EXCEPT ![m][f][c].fresh = FALSE]
  /\ UNCHANGED <<vars, files, attachment, filed, blank, work>>

OutlastedFiles(m) ==
  /\ Outlasted(m)
  /\ \/ UNCHANGED stage
     \/ stage' = [stage EXCEPT ![m] =
          [f \in File |-> [c \in Targets |-> [@[f][c] EXCEPT !.fresh = FALSE]]]]
  /\ UNCHANGED <<files, attachment, filed, blank, work>>

\* A step outside deliver(), or one that enters it or breaks it off.
AroundFiles ==
  /\ work' = [x \in Executors |->
       IF execution'[x].phase \notin {"send", "sent"} THEN NoWork
       ELSE IF InDeliver(x) THEN work[x]
       ELSE Begin(execution'[x].at, execution'[x].reuse)]
  /\ UNCHANGED fileVars

\* The steps of x inside deliver(), for a message that goes to chat c.
FileStep(x, c) ==
  \/ Prepare(x) \/ ClaimFile(x) \/ Retake(x) \/ MarkFile(x)
  \/ ClaimStage(x, c) \/ Restage(x, c)
  \/ UploadSucceeds(x, c) \/ UploadFails(x, c)
  \/ PrimaryAnswered(x) \/ PrimaryBreaksOff(x) \/ PrimaryRefused(x) \/ PrimaryUnanswered(x)
  \/ FileSent(x) \/ FileRefused(x) \/ FileUnanswered(x) \/ Return(x)
  \/ CancelFiles(x, c)

FileAges ==
  \/ \E m \in Messages, f \in File, c \in Targets : StageGrowsStale(m, f, c)
  \/ \E m \in Messages : OutlastedFiles(m)

-----------------------------------------------------------------------------
(* Properties.                                                             *)

\* The shape of the two registries.
FilesTypeOK ==
  /\ files \in [Messages -> 0 .. MaxFiles]
  /\ attachment \in [Messages -> [File -> AttachmentRow]]
  /\ stage \in [Messages -> [File -> [Targets -> StageRow]]]
  /\ filed \in [Messages -> [File -> Nat]]
  /\ blank \in [Messages -> SUBSET File]
  /\ work \in [Executors -> Work]

\* A file is in the target chat once, unless its message is in doubt: neither a rerun
\* nor /retry_failed sends again a file that was sent.
FilesOnce ==
  \A m \in Messages \ doubtful : \A f \in File : filed[m][f] <= 1

\* An attachment that the registry calls imported was posted.
FileIsInChat ==
  \A m \in Messages : \A f \in File :
     attachment[m][f].status = "imported" => filed[m][f] > 0 \/ f \in blank[m]

\* A message that is imported, not in doubt, and in nobody's hands leaves no attachment
\* behind that the registry has not heard of: each was posted, was skipped, is reported
\* as failed, or may have been posted.  Only a cancellation or a crash between the claim
\* of a row and its mark leaves a row in processing that a later execution goes by.
FilesAccounted ==
  \A m \in Messages \ doubtful :
     (row[m].status = "imported" /\ ~\E x \in Executors : AtWork(x, m)) =>
       \A f \in 1 .. files[m] :
          \/ attachment[m][f].status \in {"imported", "skipped", "failed", "ambiguous"}
          \/ attachment[m][f].status = "processing" /\ faults > 0
=============================================================================
