------------------------- MODULE ChatTransferProofs -------------------------
(***************************************************************************)
(* Proofs about ChatTransfer: the transfer with its provisioning and its   *)
(* attachments implements ChatDelivery, so that what is proved of the      *)
(* delivery holds of the transfer; what the registry of attachments calls  *)
(* imported was posted; people, chats and messages stay together: nobody   *)
(* who was to be added is forgotten, a chat that was created is the target *)
(* of the mapping, and no message reaches another; a file is sent once,    *)
(* and no file of an imported message is forgotten.                        *)
(***************************************************************************)
EXTENDS ChatTransfer, ChatDeliveryProofs, WellFoundedInduction, FiniteSetTheorems

-----------------------------------------------------------------------------
(* Refinement.                                                             *)

\* What deliver() does about files is a step of the delivery or none.
LEMMA FileStepDelivers ==
  ASSUME NEW x \in Executors, NEW c, FileStep(x, c)
  PROVE  [Next]_vars
  <1>1. ASSUME Raises(x) PROVE SendUnanswered(x) \/ AttachmentBlocks(x)
    BY <1>1 DEF Raises
  <1>2. \/ UNCHANGED vars
        \/ SendAnswered(x) \/ PartArrives(x) \/ SendRefused(x) \/ SendUnanswered(x)
        \/ AttachmentBlocks(x) \/ DeliverReturns(x) \/ Cancel(x)
    BY <1>1 DEF FileStep, Prepare, ClaimFile, Retake, MarkFile, ClaimStage, Restage,
       UploadSucceeds, UploadFails, PrimaryAnswered, PrimaryBreaksOff, PrimaryRefused,
       PrimaryUnanswered, FileSent, FileRefused, FileUnanswered, Return, CancelFiles
  <1> QED
    BY <1>2 DEF Next, DeliveryStep, FaultStep

\* Each step of the transfer is a step of the delivery or none.
LEMMA TransferStepDelivers == [TransferNext]_transferVars => [Next]_vars
  <1> SUFFICES ASSUME [TransferNext]_transferVars PROVE [Next]_vars
    OBVIOUS
  <1>1. CASE Provisioning \/ UNCHANGED transferVars
    BY <1>1 DEF Provisioning, transferVars
  <1>2. ASSUME NEW x \in Backfills, Start(x) \/ Claims(x) \/ FinishesBackfill(x)
        PROVE  Next
    BY <1>2 DEF Start, Claims, FinishesBackfill, Next, BackfillStep
  <1>3. ASSUME NEW y \in Replays,
               StartsReplay(y) \/ TakesFailed(y) \/ ReadMapping(y) \/ FinishesReplay(y)
        PROVE  [Next]_vars
    BY <1>3 DEF StartsReplay, TakesFailed, ReadMapping, FinishesReplay, Next, ReplayStep
  <1>4. ASSUME NEW x \in Executors, Delivers(x) PROVE [Next]_vars
    BY <1>4, FileStepDelivers DEF Delivers
  <1>5. CASE Registers
    BY <1>5 DEF Registers, Next, BackfillStep, DeliveryStep, FaultStep
  <1>6. CASE FilesAge
    <2>1. \/ UNCHANGED vars
          \/ \E m \in Messages : Outlasted(m)
      BY <1>6 DEF FilesAge, FileAges, StageGrowsStale, OutlastedFiles
    <2> QED
      BY <2>1 DEF Next, FaultStep
  <1> QED
    BY <1>1, <1>2, <1>3, <1>4, <1>5, <1>6 DEF TransferNext

\* The transfer of a chat, with its target chat provisioned beside it and its
\* attachments uploaded and sent one by one, is a delivery as ChatDelivery has it:
\* what deliver() does about attachments shows in the outcome it reports, and
\* nothing else of it reaches the registry of messages.
THEOREM TransferImplementsDelivery == TransferSpec => Spec
  <1>1. TransferInit => Init
    BY DEF TransferInit
  <1> QED
    BY <1>1, TransferStepDelivers, PTL DEF TransferSpec, Spec

\* A message is in the target chat once also where its attachments, the provisioning
\* of the chat and /add_users go on beside its delivery, unless a fault or a
\* /retry_failed that met another execution made it doubtful.
THEOREM TransferSendsOnce == TransferSpec => []SentOnce
  BY TransferImplementsDelivery, MessagesAreSentOnce, PTL

-----------------------------------------------------------------------------
(* Types of the registry of attachments.                                   *)

Before == {p \in Nat \X Nat : p[1] < p[2]}

\* The first of some files is one of them.
LEMMA FirstFile ==
  ASSUME NEW S \in SUBSET File, S # {}
  PROVE  Min(S) \in S
  <1>1. S \subseteq Nat
    BY DEF File
  <1>2. IsWellFoundedOn(Before, Nat)
    BY NatLessThanWellFounded DEF OpToRel, Before
  <1>3. PICK f \in S : \A g \in S : <<g, f>> \notin Before
    BY <1>1, <1>2, WFMin
  <1>4. ASSUME NEW g \in S PROVE f <= g
    <2>1. ~(g < f)
      BY <1>1, <1>3 DEF Before
    <2> QED
      BY <1>1, <2>1
  <1> QED
    BY <1>4 DEF Min

\* The work in hand neither marks a file nor claims one that went with its message.
Harmless(w) == w.step \notin {"mark", "retake"} /\ (w.step = "claim" => w.why # "inline")

\* There is a file in hand unless all are done with, or the message goes without one;
\* while files are prepared no upload is in hand; what is uploaded is to be sent.
Shaped(w) ==
  /\ w.file = 0 => w.step = "return" \/ (w.step = "primary" /\ w.held = "none")
  /\ w.step = "prepare" \/ w.why \in {"skip", "download"} => w.held = "none"
  /\ w.step \in {"stage", "restage", "upload"} => w.why \in {"inline", "deliver"}

LEMMA NoFile == 0 \in 0 .. MaxFiles
  BY AttachmentAssumption DEF AttachmentAssumption

LEMMA OnwardWork ==
  ASSUME NEW w \in Work
  PROVE  Onward(w) \in Work /\ Harmless(Onward(w)) /\ Shaped(Onward(w))
  <1>1. CASE w.prepared = {}
    <2>1. Onward(w) = [w EXCEPT !.step = "return", !.file = 0, !.why = "none"]
      BY <1>1 DEF Onward
    <2> QED
      BY <2>1, NoFile DEF Work, Harmless, Shaped
  <1>2. CASE w.prepared # {}
    <2>1. PICK f \in File : f = Min(w.prepared)
      BY <1>2, FirstFile DEF Work
    <2>2. Onward(w) = [w EXCEPT !.step = "claim", !.why = "deliver", !.file = f,
                                !.prepared = @ \ {f}]
      BY <1>2, <2>1 DEF Onward
    <2>3. f \in 0 .. MaxFiles /\ f # 0
      BY AttachmentAssumption DEF AttachmentAssumption, File
    <2>4. Onward(w) \in Work
      BY <2>2, <2>3 DEF Work
    <2> QED
      BY <2>2, <2>3, <2>4 DEF Work, Harmless, Shaped
  <1> QED
    BY <1>1, <1>2

LEMMA PreparedWork ==
  ASSUME NEW m \in Messages, NEW reuse, NEW w \in Work,
         files[m] \in 0 .. MaxFiles, w.held = "none"
  PROVE  /\ Prepared(m, reuse, w) \in Work
         /\ Harmless(Prepared(m, reuse, w)) /\ Shaped(Prepared(m, reuse, w))
  <1>1. CASE w.file < files[m]
    <2>1. w.file + 1 \in 0 .. MaxFiles /\ w.file + 1 # 0
      BY <1>1, AttachmentAssumption DEF AttachmentAssumption, Work
    <2> QED
      BY <1>1, <2>1 DEF Prepared, Work, Harmless, Shaped
  <1>2. CASE ~(w.file < files[m]) /\ reuse
    BY <1>2, OnwardWork DEF Prepared
  <1>3. CASE ~(w.file < files[m]) /\ ~reuse /\ Cardinality(w.prepared) = 1
    <2>1. w.prepared # {}
      BY <1>3, FS_EmptySet
    <2>2. PICK f \in 0 .. MaxFiles \ {0} : f = Min(w.prepared)
      BY <2>1, FirstFile DEF Work, File
    <2>3. Prepared(m, reuse, w) = [w EXCEPT !.step = "stage", !.why = "inline", !.file = f,
                                            !.prepared = {}]
      BY <1>3, <2>2 DEF Prepared
    <2> QED
      BY <2>3 DEF Work, Harmless, Shaped
  <1>4. CASE ~(w.file < files[m]) /\ ~reuse /\ Cardinality(w.prepared) # 1
    BY <1>4, NoFile DEF Prepared, Work, Harmless, Shaped
  <1> QED
    BY <1>1, <1>2, <1>3, <1>4

LEMMA RowsOfFiles ==
  /\ {NoAttachment, Processing, ImportedFile, SkippedFile, CancelledFile} \subseteq AttachmentRow
  /\ \A phase \in FailurePhase : {FailedFile(phase), AmbiguousFile(phase)} \subseteq AttachmentRow
  /\ {StageClaimed, StageUploaded, StageFailed(TRUE), StageFailed(FALSE)} \subseteq StageRow
  BY DEF NoAttachment, Processing, ImportedFile, SkippedFile, CancelledFile, AttachmentRow,
         FailedFile, AmbiguousFile, AttachmentStatus, FailurePhase, StageClaimed,
         StageUploaded, StageFailed, StageRow, StageStatus

LEMMA DoneWork ==
  ASSUME NEW x \in Executors, At(x) \in Messages,
         work[x] \in Work, files[At(x)] \in 0 .. MaxFiles, NEW r,
         Shaped(work[x]), work[x].file # 0
  PROVE  Done(x, r) \in Work /\ Harmless(Done(x, r)) /\ Shaped(Done(x, r))
  <1> DEFINE w == [work[x] EXCEPT !.worst = Worst(@, r), !.writes = NoAttachment]
  <1>1. /\ w \in Work /\ w.file # 0 /\ w.held = work[x].held /\ w.why = work[x].why
        /\ w.why \in {"skip", "download"} => w.held = "none"
    BY RowsOfFiles DEF Work, Worst, Attachment, Shaped
  <1>2. w.why \notin {"skip", "download"} =>
          LET v == [w EXCEPT !.step = "primary"]
          IN  v \in Work /\ Harmless(v) /\ Shaped(v)
    BY <1>1 DEF Work, Harmless, Shaped
  <1>3. [w EXCEPT !.held = "none"] \in Work
    BY <1>1 DEF Work
  <1> HIDE DEF w
  <1>4. Done(x, r) = IF w.why \in {"skip", "download"}
                     THEN Prepared(At(x), execution[x].reuse, w)
                     ELSE IF InPhase(x, "send") THEN [w EXCEPT !.step = "primary"]
                     ELSE Onward([w EXCEPT !.held = "none"])
    BY DEF Done, w
  <1> QED
    BY <1>1, <1>2, <1>3, <1>4, PreparedWork, OnwardWork

LEMMA NoWorkTyped == NoWork \in Work
  BY RowsOfFiles, NoFile DEF NoWork, Work, Attachment

LEMMA BeginWork ==
  ASSUME NEW m \in Messages, NEW reuse, files[m] \in 0 .. MaxFiles
  PROVE  Begin(m, reuse) \in Work /\ Harmless(Begin(m, reuse)) /\ Shaped(Begin(m, reuse))
  BY NoWorkTyped, PreparedWork DEF Begin, NoWork

-----------------------------------------------------------------------------
(* What the registry of attachments calls imported was posted.             *)

Posted(m, f) == filed[m][f] > 0 \/ f \in blank[m]

\* The work of x on the file in hand takes it for posted: it writes that it is, or
\* claims it after it went with its message.
TakesForPosted(w) ==
  \/ w.step = "mark" /\ w.writes.status = "imported"
  \/ w.step \in {"claim", "retake"} /\ w.why = "inline"

\* The strengthening: what an execution takes for posted was posted.
FileInv ==
  /\ FilesTypeOK
  /\ FileIsInChat
  /\ \A x \in Executors :
        InDeliver(x) /\ TakesForPosted(work[x]) /\ work[x].file \in File =>
          Posted(At(x), work[x].file)
  /\ \A x \in Executors : InDeliver(x) => Shaped(work[x])

LEMMA HarmlessTakesNothing ==
  ASSUME NEW w, Harmless(w) PROVE ~TakesForPosted(w)
  BY DEF Harmless, TakesForPosted

LEMMA FileInvInit == TransferInit => FileInv
  <1> SUFFICES ASSUME TransferInit PROVE FileInv
    OBVIOUS
  <1>1. files \in [Messages -> 0 .. MaxFiles]
    BY TransferAssumption DEF TransferAssumption, TransferInit, FilesInit
  <1>2. NoStage \in StageRow
    BY DEF NoStage, StageRow, StageStatus
  <1>3. FilesTypeOK
    BY <1>1, <1>2, NoWorkTyped, RowsOfFiles DEF TransferInit, FilesInit, FilesTypeOK
  <1>4. \A x \in Executors : ~InDeliver(x)
    BY DEF TransferInit, Init, IdleExecution, InDeliver, InPhase
  <1>5. FileIsInChat
    BY DEF TransferInit, FilesInit, FileIsInChat, NoAttachment
  <1> QED
    BY <1>3, <1>4, <1>5 DEF FileInv

PostedAfter(m, f) == filed'[m][f] > 0 \/ f \in blank'[m]

\* Nothing is taken back from the chat.
PostsGrow ==
  /\ filed' \in [Messages -> [File -> Nat]]
  /\ blank' \in [Messages -> SUBSET File]
  /\ \A m \in Messages : \A f \in File : Posted(m, f) => PostedAfter(m, f)

\* The rows of the attachments after a step that writes at most the row in hand of x.
RowsAfter(x) ==
  /\ attachment' \in [Messages -> [File -> AttachmentRow]]
  /\ stage' \in [Messages -> [File -> [Targets -> StageRow]]]
  /\ files' = files
  /\ FileIsInChat'

LEMMA PostsStay ==
  ASSUME FileInv, UNCHANGED <<filed, blank>>
  PROVE  PostsGrow
  BY DEF FileInv, FilesTypeOK, PostsGrow, Posted, PostedAfter

LEMMA RowsStay ==
  ASSUME FileInv, PostsGrow, NEW x \in Executors, UNCHANGED <<attachment, stage, files>>
  PROVE  RowsAfter(x)
  BY DEF FileInv, FilesTypeOK, PostsGrow, Posted, PostedAfter, RowsAfter, FileIsInChat

LEMMA RowWritten ==
  ASSUME FileInv, PostsGrow, NEW x \in Executors, At(x) \in Messages,
         NEW r \in AttachmentRow, WriteAttachment(x, r),
         r.status = "imported" /\ work[x].file \in File => PostedAfter(At(x), work[x].file),
         stage' \in [Messages -> [File -> [Targets -> StageRow]]], files' = files
  PROVE  RowsAfter(x)
  <1>1. attachment \in [Messages -> [File -> AttachmentRow]]
    BY DEF FileInv, FilesTypeOK
  <1>2. attachment' \in [Messages -> [File -> AttachmentRow]]
    BY <1>1 DEF WriteAttachment
  <1>3. ASSUME NEW m \in Messages, NEW f \in File, attachment'[m][f].status = "imported"
        PROVE  PostedAfter(m, f)
    <2>1. CASE m = At(x) /\ f = work[x].file
      BY <1>1, <1>3, <2>1 DEF WriteAttachment
    <2>2. CASE ~(m = At(x) /\ f = work[x].file)
      <3>1. attachment'[m][f] = attachment[m][f]
        BY <1>1, <2>2 DEF WriteAttachment
      <3> QED
        BY <1>3, <3>1 DEF FileInv, FileIsInChat, PostsGrow, Posted
    <2> QED
      BY <2>1, <2>2
  <1>4. FileIsInChat'
    BY <1>3 DEF FileIsInChat, PostedAfter
  <1> QED
    BY <1>2, <1>4 DEF RowsAfter

LEMMA StageWritten ==
  ASSUME FileInv, NEW x \in Executors, NEW c, NEW r \in StageRow, WriteStage(x, c, r)
  PROVE  stage' \in [Messages -> [File -> [Targets -> StageRow]]]
  <1>1. stage \in [Messages -> [File -> [Targets -> StageRow]]]
    BY DEF FileInv, FilesTypeOK
  <1> QED
    BY <1>1 DEF WriteStage

\* The others keep their message in hand, and x keeps its own.
HandsKept(x) ==
  /\ \A y \in Executors : execution'[y].at = execution[y].at
  /\ \A y \in Executors \ {x} : execution'[y].phase = execution[y].phase

\* x goes on to w, which takes for posted only what was posted, or is done.
LEMMA WorkGoesOn ==
  ASSUME TypeInv, FileInv, PostsGrow, NEW x \in Executors, RowsAfter(x), HandsKept(x),
         NEW w \in Work, Works(x, w),
         InDeliver(x)' =>
           /\ TakesForPosted(w) /\ w.file \in File => PostedAfter(At(x), w.file)
           /\ Shaped(w)
  PROVE  FileInv'
  <1>1. work \in [Executors -> Work] /\ files \in [Messages -> 0 .. MaxFiles]
    BY DEF FileInv, FilesTypeOK
  <1>2. FilesTypeOK'
    BY <1>1 DEF RowsAfter, PostsGrow, FilesTypeOK, Works
  <1>3. ASSUME NEW y \in Executors, InDeliver(y)', TakesForPosted(work'[y]),
               work'[y].file \in File
        PROVE  PostedAfter(At(y)', work'[y].file)
    <2>1. At(y)' = At(y)
      BY DEF HandsKept, At
    <2>2. CASE y = x
      BY <1>1, <1>3, <2>1, <2>2 DEF Works
    <2>3. CASE y # x
      <3>1. work'[y] = work[y] /\ InDeliver(y)
        BY <1>1, <1>3, <2>3 DEF Works, HandsKept, InDeliver, InPhase
      <3>2. At(y) \in Messages
        BY <3>1 DEF TypeInv, PhaseInv, InDeliver, InPhase
      <3>3. Posted(At(y), work[y].file)
        BY <1>3, <3>1 DEF FileInv
      <3> QED
        BY <1>3, <2>1, <3>1, <3>2, <3>3 DEF PostsGrow
    <2> QED
      BY <2>2, <2>3
  <1>4. ASSUME NEW y \in Executors, InDeliver(y)' PROVE Shaped(work'[y])
    <2>1. CASE y = x
      BY <1>1, <1>4, <2>1 DEF Works
    <2>2. CASE y # x
      BY <1>1, <1>4, <2>2 DEF Works, HandsKept, InDeliver, InPhase, FileInv
    <2> QED
      BY <2>1, <2>2
  <1> QED
    BY <1>2, <1>3, <1>4 DEF FileInv, RowsAfter, Posted, PostedAfter

\* The common case.
LEMMA HarmlessGoesOn ==
  ASSUME TypeInv, FileInv, NEW x \in Executors, UNCHANGED <<filed, blank>>,
         RowsAfter(x), HandsKept(x), NEW w \in Work, Harmless(w), Shaped(w),
         Works(x, w)
  PROVE  FileInv'
  <1>1. ~TakesForPosted(w)
    BY HarmlessTakesNothing
  <1> QED
    BY <1>1, PostsStay, WorkGoesOn

\* x is done with the message.
LEMMA WorkEnds ==
  ASSUME TypeInv, FileInv, PostsGrow, NEW x \in Executors, RowsAfter(x), HandsKept(x),
         Works(x, NoWork), ~InDeliver(x)'
  PROVE  FileInv'
  BY NoWorkTyped, WorkGoesOn

LEMMA FileStepHands ==
  ASSUME TypeInv, NEW x \in Executors, NEW c, FileStep(x, c)
  PROVE  HandsKept(x) /\ InDeliver(x) /\ At(x) \in Messages
  <1>1. execution \in [Executors -> Execution]
    BY DEF TypeInv, TypeOK
  <1>2. \/ UNCHANGED vars
        \/ SendAnswered(x) \/ PartArrives(x) \/ SendRefused(x) \/ SendUnanswered(x)
        \/ AttachmentBlocks(x) \/ DeliverReturns(x) \/ Cancel(x)
    BY DEF FileStep, Prepare, ClaimFile, Retake, MarkFile, ClaimStage, Restage, Raises,
       UploadSucceeds, UploadFails, PrimaryAnswered, PrimaryBreaksOff, PrimaryRefused,
       PrimaryUnanswered, FileSent, FileRefused, FileUnanswered, Return, CancelFiles
  <1>3. InDeliver(x)
    BY DEF FileStep, Prepare, ClaimFile, Retake, MarkFile, ClaimStage, Restage,
       UploadSucceeds, UploadFails, PrimaryAnswered, SendAnswered, PrimaryBreaksOff,
       PartArrives, PrimaryRefused, SendRefused, PrimaryUnanswered, FileSent, FileRefused,
       FileUnanswered, Return, CancelFiles, Cancel, Step, InDeliver
  <1>4. HandsKept(x)
    <2>1. CASE execution' = execution
      BY <2>1 DEF HandsKept
    <2>2. CASE Moves(x) /\ \E p \in Phase : Comes(x, p, At(x))
      BY <2>2 DEF Moves, Comes, HandsKept, At
    <2> QED
      BY <1>2, <2>1, <2>2, DeliverEffects DEF vars, PartArrives, Phase
  <1> QED
    BY <1>3, <1>4 DEF TypeInv, PhaseInv, InDeliver, InPhase

\* x is inside deliver(), and its message stays in hand.
Working(x) == TypeInv /\ FileInv /\ HandsKept(x) /\ InDeliver(x) /\ At(x) \in Messages

\* What is known of x while it works on its files.
LEMMA InHand ==
  ASSUME NEW x \in Executors, Working(x)
  PROVE  /\ work[x] \in Work /\ Shaped(work[x])
         /\ files[At(x)] \in 0 .. MaxFiles
         /\ work[x].file # 0 => work[x].file \in File
         /\ work[x].file \in File => Mine(x) \in AttachmentRow
         /\ work[x].file # 0 => \A r : /\ Done(x, r) \in Work
                                       /\ Harmless(Done(x, r)) /\ Shaped(Done(x, r))
         /\ TakesForPosted(work[x]) /\ work[x].file \in File => Posted(At(x), work[x].file)
  <1>1. work[x] \in Work /\ files[At(x)] \in 0 .. MaxFiles /\ Shaped(work[x])
    BY DEF FileInv, FilesTypeOK, Working
  <1>2. work[x].file # 0 => work[x].file \in File
    BY <1>1, AttachmentAssumption DEF AttachmentAssumption, Work, File
  <1> QED
    BY <1>1, <1>2, DoneWork DEF FileInv, FilesTypeOK, Mine, Working

LEMMA RaisesKeeps ==
  ASSUME NEW x \in Executors, Working(x), Raises(x)
  PROVE  FileInv'
  <1>1. Works(x, NoWork) /\ UNCHANGED fileVars
    BY DEF Raises
  <1>2. execution[x] \in Execution /\ execution \in [Executors -> Execution]
    BY DEF Working, TypeInv, TypeOK
  <1>3. ~InDeliver(x)'
    BY <1>2 DEF Raises, SendUnanswered, AttachmentBlocks, GoTo, Becomes, InDeliver, InPhase,
              Execution
  <1> QED
    BY <1>1, <1>3, PostsStay, RowsStay, WorkEnds DEF fileVars, Working

LEMMA PrepareKeeps ==
  ASSUME NEW x \in Executors, Working(x), Prepare(x)
  PROVE  FileInv'
  <1>1. /\ work[x] \in Work /\ files[At(x)] \in 0 .. MaxFiles /\ work[x].held = "none"
        /\ work[x].file # 0 /\ work[x].file \in File
    BY InHand DEF Shaped, Prepare, Step
  <1>2. PICK w \in Work : Works(x, w) /\ Harmless(w) /\ Shaped(w)
    <2>1. ASSUME NEW why \in {"skip", "download"}
          PROVE  LET w == [work[x] EXCEPT !.step = "claim", !.why = why]
                 IN  w \in Work /\ Harmless(w) /\ Shaped(w)
      BY <1>1 DEF Work, Harmless, Shaped
    <2>2. LET w == [work[x] EXCEPT !.prepared = @ \cup {work[x].file}]
          IN  w \in Work /\ w.held = "none"
      BY <1>1 DEF Work
    <2>3. ASSUME NEW reuse, NEW v \in Work, v.held = "none"
          PROVE  LET w == Prepared(At(x), reuse, v)
                 IN  w \in Work /\ Harmless(w) /\ Shaped(w)
      BY <1>1, <2>3, PreparedWork DEF Working
    <2> QED
      BY <1>1, <2>1, <2>2, <2>3 DEF Prepare
  <1> QED
    BY <1>2, PostsStay, RowsStay, HarmlessGoesOn DEF Prepare, fileVars, Working

\* What is claimed is to be uploaded, or is to be marked as it is.
LEMMA ClaimedWork ==
  ASSUME NEW x \in Executors, Working(x), work[x].step \in {"claim", "retake"}
  PROVE  /\ Claimed(x) \in Work /\ Shaped(Claimed(x)) /\ Claimed(x).file = work[x].file
         /\ TakesForPosted(Claimed(x)) => TakesForPosted(work[x])
  <1>1. work[x] \in Work /\ Shaped(work[x]) /\ work[x].file # 0
    BY InHand DEF Shaped
  <1>2. CASE work[x].why = "deliver"
    BY <1>1, <1>2 DEF Claimed, Work, Shaped, TakesForPosted
  <1>3. CASE work[x].why # "deliver"
    <2>1. /\ MarkFor(x) \in AttachmentRow
          /\ MarkFor(x).status = "imported" => work[x].why = "inline"
      BY <1>1, <1>3, RowsOfFiles DEF MarkFor, FailedFile, SkippedFile, FailurePhase, Work
    <2>2. PICK r \in AttachmentRow : /\ Claimed(x) = [work[x] EXCEPT !.step = "mark", !.writes = r]
                                     /\ r.status = "imported" => work[x].why = "inline"
      BY <1>3, <2>1 DEF Claimed
    <2> QED
      BY <1>1, <2>2 DEF Work, Shaped, TakesForPosted
  <1> QED
    BY <1>2, <1>3

\* A claim leads to no mark of a file that was not posted.
LEMMA ClaimsKeep ==
  ASSUME NEW x \in Executors, Working(x), RowsAfter(x), UNCHANGED <<filed, blank>>,
         work[x].step \in {"claim", "retake"}, Works(x, Claimed(x))
  PROVE  FileInv'
  <1>1. TakesForPosted(Claimed(x)) /\ Claimed(x).file \in File =>
          PostedAfter(At(x), Claimed(x).file)
    BY ClaimedWork, InHand DEF Posted, PostedAfter
  <1> QED
    BY <1>1, ClaimedWork, PostsStay, WorkGoesOn DEF Working

\* A row that is not written as imported.
LEMMA PlainRowWritten ==
  ASSUME NEW x \in Executors, Working(x), UNCHANGED <<filed, blank, files>>,
         NEW r \in AttachmentRow, r.status # "imported", WriteAttachment(x, r),
         stage' \in [Messages -> [File -> [Targets -> StageRow]]]
  PROVE  RowsAfter(x)
  BY PostsStay, RowWritten DEF Working

LEMMA ClaimFileKeeps ==
  ASSUME NEW x \in Executors, Working(x), ClaimFile(x)
  PROVE  FileInv'
  <1>1. /\ work[x] \in Work /\ Shaped(work[x]) /\ work[x].step = "claim" /\ work[x].file # 0
        /\ stage \in [Messages -> [File -> [Targets -> StageRow]]]
        /\ Processing \in AttachmentRow /\ Processing.status # "imported"
    BY InHand, RowsOfFiles DEF ClaimFile, Step, Shaped, Working, FileInv, FilesTypeOK, Processing
  <1>2. CASE Raises(x)
    BY <1>2, RaisesKeeps
  <1>3. CASE Works(x, Claimed(x)) /\ WriteAttachment(x, Processing)
               /\ UNCHANGED <<vars, files, stage, filed, blank>>
    BY <1>1, <1>3, PlainRowWritten, ClaimsKeep
  <1>4. CASE Works(x, Claimed(x)) /\ UNCHANGED <<vars, fileVars>>
    BY <1>1, <1>4, PostsStay, RowsStay, ClaimsKeep DEF fileVars, Working
  <1>5. CASE Works(x, Done(x, Mine(x))) /\ UNCHANGED <<vars, fileVars>>
    BY <1>1, <1>5, InHand, RowsStay, PostsStay, HarmlessGoesOn DEF fileVars, Working
  <1>6. CASE Works(x, [work[x] EXCEPT !.step = "retake"]) /\ UNCHANGED <<vars, fileVars>>
    <2> DEFINE w == [work[x] EXCEPT !.step = "retake"]
    <2>1. /\ w \in Work /\ Shaped(w) /\ w.file = work[x].file
          /\ TakesForPosted(w) => TakesForPosted(work[x])
      BY <1>1 DEF Work, Shaped, TakesForPosted
    <2>2. TakesForPosted(w) /\ w.file \in File => PostedAfter(At(x), w.file)
      BY <1>6, <2>1, InHand DEF Posted, PostedAfter, fileVars
    <2> HIDE DEF w
    <2>3. Works(x, w)
      BY <1>6 DEF w
    <2> QED
      BY <1>6, <2>1, <2>2, <2>3, PostsStay, RowsStay, WorkGoesOn DEF fileVars, Working
  <1> QED
    BY <1>2, <1>3, <1>4, <1>5, <1>6 DEF ClaimFile

LEMMA RetakeKeeps ==
  ASSUME NEW x \in Executors, Working(x), Retake(x)
  PROVE  FileInv'
  <1>1. /\ stage \in [Messages -> [File -> [Targets -> StageRow]]]
        /\ Processing \in AttachmentRow /\ Processing.status # "imported"
    BY RowsOfFiles DEF Working, FileInv, FilesTypeOK, Processing
  <1> QED
    BY <1>1, PlainRowWritten, ClaimsKeep DEF Retake, Step

LEMMA MarkFileKeeps ==
  ASSUME NEW x \in Executors, Working(x), MarkFile(x)
  PROVE  FileInv'
  <1>1. /\ work[x] \in Work /\ work[x].step = "mark" /\ work[x].file # 0
        /\ stage \in [Messages -> [File -> [Targets -> StageRow]]]
    BY InHand DEF MarkFile, Step, Shaped, Working, FileInv, FilesTypeOK
  <1>2. PICK r \in AttachmentRow : r = work[x].writes
    BY <1>1 DEF Work
  <1>3. r.status = "imported" /\ work[x].file \in File => PostedAfter(At(x), work[x].file)
    BY <1>1, <1>2, InHand DEF TakesForPosted, Posted, PostedAfter, MarkFile
  <1>4. RowsAfter(x)
    BY <1>1, <1>2, <1>3, PostsStay, RowWritten DEF MarkFile, Working
  <1> QED
    BY <1>1, <1>4, InHand, HarmlessGoesOn DEF MarkFile, Working

\* The steps of an upload.
LEMMA UploadWork ==
  ASSUME NEW x \in Executors, Working(x), work[x].step \in {"stage", "restage", "upload"}
  PROVE  /\ work[x].file # 0
         /\ \A s \in {"restage", "upload"} : LET w == [work[x] EXCEPT !.step = s]
                                             IN  w \in Work /\ Harmless(w) /\ Shaped(w)
         /\ \A h \in {"staged", "redacted", "direct"} :
               LET w == [work[x] EXCEPT !.held = h,
                           !.step = IF InPhase(x, "send") THEN "primary" ELSE "send"]
               IN  w \in Work /\ Harmless(w) /\ Shaped(w)
         /\ LET w == [work[x] EXCEPT !.step = "claim", !.why = "upload"]
            IN  w \in Work /\ Harmless(w) /\ Shaped(w)
  <1>1. work[x] \in Work /\ Shaped(work[x]) /\ work[x].file # 0
    BY InHand DEF Shaped
  <1>2. ASSUME NEW s \in {"restage", "upload"}
        PROVE  LET w == [work[x] EXCEPT !.step = s]
               IN  w \in Work /\ Harmless(w) /\ Shaped(w)
    BY <1>1 DEF Work, Harmless, Shaped
  <1>3. ASSUME NEW h \in {"staged", "redacted", "direct"}
        PROVE  LET w == [work[x] EXCEPT !.held = h,
                           !.step = IF InPhase(x, "send") THEN "primary" ELSE "send"]
               IN  w \in Work /\ Harmless(w) /\ Shaped(w)
    BY <1>1 DEF Work, Harmless, Shaped
  <1>4. LET w == [work[x] EXCEPT !.step = "claim", !.why = "upload"]
        IN  w \in Work /\ Harmless(w) /\ Shaped(w)
    BY <1>1 DEF Work, Harmless, Shaped
  <1> QED
    BY <1>1, <1>2, <1>3, <1>4

LEMMA StageRowWritten ==
  ASSUME NEW x \in Executors, Working(x), NEW c, NEW r \in StageRow, WriteStage(x, c, r),
         UNCHANGED <<files, attachment, filed, blank>>
  PROVE  RowsAfter(x)
  <1>1. stage' \in [Messages -> [File -> [Targets -> StageRow]]]
    BY StageWritten DEF Working
  <1> QED
    BY <1>1 DEF RowsAfter, Working, FileInv, FilesTypeOK, FileIsInChat

LEMMA ClaimStageKeeps ==
  ASSUME NEW x \in Executors, NEW c, Working(x), ClaimStage(x, c)
  PROVE  FileInv'
  <1>1. work[x].step = "stage"
    BY DEF ClaimStage, Step
  <1>2. CASE Raises(x)
    BY <1>2, RaisesKeeps
  <1>3. CASE WriteStage(x, c, StageClaimed) /\ Works(x, [work[x] EXCEPT !.step = "upload"])
               /\ UNCHANGED <<vars, files, attachment, filed, blank>>
    BY <1>1, <1>3, UploadWork, RowsOfFiles, StageRowWritten, HarmlessGoesOn DEF Working
  <1>4. CASE UNCHANGED <<vars, fileVars>> /\ ~Raises(x)
    <2>1. RowsAfter(x) /\ UNCHANGED <<filed, blank>>
      BY <1>4, PostsStay, RowsStay DEF fileVars, Working
    <2>2. CASE Works(x, [work[x] EXCEPT !.step = "upload"])
               \/ Works(x, [work[x] EXCEPT !.step = "restage"])
      BY <1>1, <2>1, <2>2, UploadWork, HarmlessGoesOn DEF Working
    <2>3. ASSUME NEW h \in {"staged", "redacted"}, HasUpload(x, h) PROVE FileInv'
      BY <1>1, <2>1, <2>3, UploadWork, HarmlessGoesOn DEF Working, HasUpload
    <2>4. CASE Works(x, Done(x, Mine(x)))
      BY <1>1, <2>1, <2>4, UploadWork, InHand, HarmlessGoesOn DEF Working
    <2>5. Reused(x) => \/ \E h \in {"staged", "redacted"} : HasUpload(x, h)
                       \/ Works(x, [work[x] EXCEPT !.step = "upload"])
      BY AttachmentAssumption DEF AttachmentAssumption, Reused
    <2>6. CASE Reused(x)
      BY <2>2, <2>3, <2>5, <2>6
    <2>7. CASE Works(x, IF Mine(x).status = "absent" THEN [work[x] EXCEPT !.step = "upload"]
                        ELSE Done(x, Mine(x)))
      BY <2>2, <2>4, <2>7
    <2>8. CASE WriteStage(x, c, StageClaimed) /\ Works(x, [work[x] EXCEPT !.step = "upload"])
      BY <2>2, <2>8
    <2> QED
      BY <1>4, <2>2, <2>6, <2>7, <2>8 DEF ClaimStage
  <1> QED
    BY <1>2, <1>3, <1>4 DEF ClaimStage

LEMMA UploadsKeep ==
  ASSUME NEW x \in Executors, NEW c, Working(x),
         Restage(x, c) \/ UploadSucceeds(x, c) \/ UploadFails(x, c)
  PROVE  FileInv'
  <1>1. work[x].step \in {"restage", "upload"} /\ UNCHANGED <<filed, blank>>
    BY DEF Restage, UploadSucceeds, UploadFails, Step
  <1>2. RowsAfter(x)
    BY StageRowWritten, RowsOfFiles DEF Restage, UploadSucceeds, UploadFails
  <1>3. PICK w \in Work : Works(x, w) /\ Harmless(w) /\ Shaped(w)
    BY <1>1, UploadWork DEF Restage, UploadSucceeds, UploadFails, HasUpload, SendsDirectly
  <1> QED
    BY <1>1, <1>2, <1>3, HarmlessGoesOn DEF Working

\* A file that appears stays, and so do the others.
LEMMA Arrival ==
  ASSUME NEW x \in Executors, Working(x), work[x].file # 0, FileArrives(x, work[x].file)
  PROVE  PostsGrow /\ PostedAfter(At(x), work[x].file)
  <1>1. /\ work[x].file \in File /\ At(x) \in Messages
        /\ filed \in [Messages -> [File -> Nat]] /\ blank \in [Messages -> SUBSET File]
    BY InHand DEF Working, FileInv, FilesTypeOK
  <1>2. CASE filed' = [filed EXCEPT ![At(x)][work[x].file] = @ + 1] /\ UNCHANGED blank
    <2>1. /\ filed' \in [Messages -> [File -> Nat]]
          /\ \A m \in Messages : \A f \in File : filed'[m][f] >= filed[m][f]
          /\ filed'[At(x)][work[x].file] > 0
      BY <1>1, <1>2
    <2>2. \A m \in Messages : \A f \in File : filed'[m][f] \in Nat /\ filed[m][f] \in Nat
      BY <1>1, <2>1
    <2> QED
      BY <1>1, <1>2, <2>1, <2>2 DEF PostsGrow, Posted, PostedAfter
  <1>3. CASE blank' = [blank EXCEPT ![At(x)] = @ \cup {work[x].file}] /\ UNCHANGED filed
    BY <1>1, <1>3 DEF PostsGrow, Posted, PostedAfter
  <1> QED
    BY <1>2, <1>3 DEF FileArrives

LEMMA WithPrimaryGrows ==
  ASSUME NEW x \in Executors, Working(x), work[x].step = "primary", WithPrimary(x)
  PROVE  /\ PostsGrow
         /\ work[x].held # "none" =>
              work[x].file # 0 /\ PostedAfter(At(x), work[x].file)
  <1>1. work[x].held # "none" => work[x].file # 0
    BY InHand DEF Shaped
  <1> QED
    BY <1>1, Arrival, PostsStay DEF WithPrimary, Working

LEMMA WorkStays ==
  ASSUME NEW x \in Executors, Working(x), PostsGrow, RowsAfter(x), UNCHANGED work
  PROVE  FileInv'
  <1>1. Works(x, work[x])
    BY DEF Works, Working, FileInv, FilesTypeOK
  <1>2. TakesForPosted(work[x]) /\ work[x].file \in File => PostedAfter(At(x), work[x].file)
    BY InHand DEF PostsGrow, Working
  <1> QED
    BY <1>1, <1>2, InHand, WorkGoesOn DEF Working

LEMMA PrimaryKeeps ==
  ASSUME NEW x \in Executors, Working(x), PrimaryAnswered(x) \/ PrimaryBreaksOff(x)
  PROVE  FileInv'
  <1>1. UNCHANGED <<files, attachment, stage>>
    BY DEF PrimaryAnswered, PrimaryBreaksOff
  <1>2. CASE UNCHANGED <<work, filed, blank>>
    BY <1>1, <1>2, PostsStay, RowsStay, WorkStays DEF Working
  <1>3. CASE PrimaryBreaksOff(x)
    <2>1. work[x].step = "primary" /\ WithPrimary(x) /\ UNCHANGED work
      BY <1>3 DEF PrimaryBreaksOff, PrimaryReady, PartArrives, Step
    <2> QED
      BY <1>1, <2>1, WithPrimaryGrows, RowsStay, WorkStays DEF Working
  <1>4. CASE PrimaryAnswered(x) /\ ~execution[x].reuse
    <2>1. work[x].step = "primary" /\ WithPrimary(x)
      BY <1>4 DEF PrimaryAnswered, PrimaryReady, Step
    <2>2. PostsGrow /\ RowsAfter(x)
      BY <1>1, <2>1, WithPrimaryGrows, RowsStay DEF Working
    <2>3. CASE work[x].held = "none"
      <3>1. Works(x, Onward(work[x]))
        BY <1>4, <2>3 DEF PrimaryAnswered
      <3>2. Onward(work[x]) \in Work /\ Shaped(Onward(work[x])) /\ Harmless(Onward(work[x]))
        BY InHand, OnwardWork
      <3> QED
        BY <2>2, <3>1, <3>2, HarmlessTakesNothing, WorkGoesOn DEF Working
    <2>4. CASE work[x].held # "none"
      <3> DEFINE w == [work[x] EXCEPT !.step = "claim", !.why = "inline"]
      <3>1. Works(x, w)
        BY <1>4, <2>4 DEF PrimaryAnswered
      <3>2. w \in Work /\ Shaped(w) /\ w.file = work[x].file
        BY <2>1, <2>4, InHand, WithPrimaryGrows DEF Work, Shaped
      <3> HIDE DEF w
      <3> QED
        BY <2>1, <2>2, <2>4, <3>1, <3>2, WithPrimaryGrows, WorkGoesOn DEF Working
    <2> QED
      BY <2>3, <2>4
  <1> QED
    BY <1>2, <1>3, <1>4 DEF PrimaryAnswered

\* deliver() ends, in one way or another.
LEMMA EndsKeep ==
  ASSUME NEW x \in Executors, NEW c, Working(x),
         PrimaryRefused(x) \/ PrimaryUnanswered(x) \/ Return(x) \/ CancelFiles(x, c)
  PROVE  FileInv'
  <1>1. Works(x, NoWork)
    BY DEF PrimaryRefused, PrimaryUnanswered, Return, CancelFiles
  <1>2. ~InDeliver(x)'
    <2>1. PICK p \in {"failing", "unclear", "imported", "cancelled"} : Comes(x, p, At(x))
      BY DeliverEffects DEF PrimaryRefused, PrimaryUnanswered, Return, CancelFiles, Working
    <2> QED
      BY <2>1 DEF Comes, InDeliver, InPhase
  <1>3. CASE UNCHANGED <<files, attachment, stage>> /\ PostsGrow
    BY <1>1, <1>2, <1>3, RowsStay, WorkEnds DEF Working
  <1>4. CASE PrimaryRefused(x) \/ Return(x)
    BY <1>3, <1>4, PostsStay DEF PrimaryRefused, Return, fileVars, Working
  <1>5. CASE PrimaryUnanswered(x)
    BY <1>3, <1>5, PostsStay, WithPrimaryGrows DEF PrimaryUnanswered, Step, Working
  <1>6. CASE CancelFiles(x, c)
    <2>1. stage' \in [Messages -> [File -> [Targets -> StageRow]]]
      BY <1>6, StageWritten, RowsOfFiles DEF CancelFiles, Working, FileInv, FilesTypeOK
    <2>2. RowsAfter(x)
      <3>1. CASE WriteAttachment(x, CancelledFile)
        BY <1>6, <2>1, <3>1, PlainRowWritten, RowsOfFiles DEF CancelFiles, CancelledFile
      <3>2. CASE UNCHANGED attachment
        BY <1>6, <2>1, <3>2
           DEF CancelFiles, RowsAfter, Working, FileInv, FilesTypeOK, FileIsInChat
      <3> QED
        BY <1>6, <3>1, <3>2 DEF CancelFiles
    <2> QED
      BY <1>1, <1>2, <1>6, <2>2, PostsStay, WorkEnds DEF CancelFiles, Working
  <1> QED
    BY <1>4, <1>5, <1>6

LEMMA FollowUpKeeps ==
  ASSUME NEW x \in Executors, Working(x), FileSent(x) \/ FileRefused(x) \/ FileUnanswered(x)
  PROVE  FileInv'
  <1>1. /\ work[x] \in Work /\ Shaped(work[x]) /\ work[x].step = "send" /\ work[x].file # 0
        /\ UNCHANGED <<files, attachment, stage>>
    BY InHand DEF FileSent, FileRefused, FileUnanswered, Step, Shaped, fileVars
  <1>2. PICK r \in AttachmentRow :
          /\ WillMark(x, r)
          /\ \/ r.status # "imported" /\ UNCHANGED <<filed, blank>>
             \/ FileArrives(x, work[x].file)
    BY <1>1, RowsOfFiles DEF FileSent, FileRefused, FileUnanswered, FailedFile,
       AmbiguousFile, FailurePhase, fileVars
  <1> DEFINE w == [work[x] EXCEPT !.step = "mark", !.writes = r]
  <1>3. Works(x, w)
    BY <1>2 DEF WillMark
  <1>4. /\ w \in Work /\ Shaped(w) /\ w.file = work[x].file
        /\ TakesForPosted(w) => r.status = "imported"
    BY <1>1 DEF Work, Shaped, TakesForPosted
  <1> HIDE DEF w
  <1>5. PostsGrow /\ (TakesForPosted(w) => PostedAfter(At(x), w.file))
    BY <1>1, <1>2, <1>4, Arrival, PostsStay DEF Working
  <1>6. RowsAfter(x)
    BY <1>1, <1>5, RowsStay DEF Working
  <1> QED
    BY <1>3, <1>4, <1>5, <1>6, WorkGoesOn DEF Working
\* A step inside deliver() keeps the registry of attachments true.
LEMMA FileStepKeeps ==
  ASSUME TypeInv, FileInv, NEW x \in Executors, NEW c, FileStep(x, c)
  PROVE  FileInv'
  <1>1. Working(x)
    BY FileStepHands DEF Working
  <1> QED
    BY <1>1, PrepareKeeps, ClaimFileKeeps, RetakeKeeps, MarkFileKeeps, ClaimStageKeeps,
       UploadsKeep, PrimaryKeeps, EndsKeep, FollowUpKeeps DEF FileStep

\* So does a step that enters deliver() or leaves it.
LEMMA AroundKeeps ==
  ASSUME TypeInv, TypeInv', FileInv, AroundFiles,
         \A x \in Executors : InDeliver(x) /\ InDeliver(x)' => At(x)' = At(x)
  PROVE  FileInv'
  <1>1. /\ files \in [Messages -> 0 .. MaxFiles] /\ work \in [Executors -> Work]
        /\ UNCHANGED <<files, attachment, stage, filed, blank>>
    BY DEF FileInv, FilesTypeOK, AroundFiles, fileVars
  <1>2. ASSUME NEW x \in Executors
        PROVE  /\ work'[x] \in Work
               /\ InDeliver(x)' => \/ InDeliver(x) /\ work'[x] = work[x] /\ At(x)' = At(x)
                                   \/ Harmless(work'[x]) /\ Shaped(work'[x])
    <2>1. CASE ~InDeliver(x)'
      BY <2>1, NoWorkTyped DEF AroundFiles, InDeliver, InPhase
    <2>2. CASE InDeliver(x)' /\ InDeliver(x)
      BY <1>1, <2>2 DEF AroundFiles, InDeliver, InPhase
    <2>3. CASE InDeliver(x)' /\ ~InDeliver(x)
      <3>1. work'[x] = Begin(execution'[x].at, execution'[x].reuse)
        BY <2>3 DEF AroundFiles, InDeliver, InPhase
      <3>2. PICK m \in Messages : m = execution'[x].at
        BY <2>3 DEF TypeInv, PhaseInv, InDeliver, InPhase, At
      <3> QED
        BY <1>1, <3>1, <3>2, BeginWork
    <2> QED
      BY <2>1, <2>2, <2>3
  <1>3. work' = [x \in Executors |-> work'[x]]
    BY DEF AroundFiles
  <1>4. FilesTypeOK'
    BY <1>1, <1>2, <1>3 DEF FileInv, FilesTypeOK
  <1>5. FileIsInChat'
    BY <1>1 DEF FileInv, FileIsInChat
  <1> QED
    BY <1>1, <1>2, <1>4, <1>5, HarmlessTakesNothing DEF FileInv, Posted

LEMMA FilesAgeKeeps ==
  ASSUME FileInv, FileAges
  PROVE  FileInv'
  <1>1. UNCHANGED <<execution, files, attachment, filed, blank, work>>
    BY DEF FileAges, StageGrowsStale, OutlastedFiles, Outlasted, vars
  <1>2. stage' \in [Messages -> [File -> [Targets -> StageRow]]]
    <2>1. /\ stage \in [Messages -> [File -> [Targets -> StageRow]]]
          /\ \A r \in StageRow : [r EXCEPT !.fresh = FALSE] \in StageRow
      BY DEF FileInv, FilesTypeOK, StageRow
    <2>2. ASSUME NEW m \in Messages, NEW f \in File, NEW c \in Targets,
                 stage' = [stage EXCEPT ![m][f][c].fresh = FALSE]
          PROVE  stage' \in [Messages -> [File -> [Targets -> StageRow]]]
      <3>1. PICK r \in StageRow : r = [stage[m][f][c] EXCEPT !.fresh = FALSE]
        <4>1. PICK old \in StageRow : old = stage[m][f][c]
          BY <2>1
        <4> QED
          BY <2>1, <4>1
      <3>2. stage' = [stage EXCEPT ![m][f][c] = r]
        BY <2>2, <3>1
      <3> QED
        BY <2>1, <3>2
    <2>3. ASSUME NEW m \in Messages,
                 stage' = [stage EXCEPT ![m] =
                   [f \in File |-> [c \in Targets |-> [@[f][c] EXCEPT !.fresh = FALSE]]]]
          PROVE  stage' \in [Messages -> [File -> [Targets -> StageRow]]]
      <3> DEFINE new == [f \in File |-> [c \in Targets |->
                                           [stage[m][f][c] EXCEPT !.fresh = FALSE]]]
      <3>1. new \in [File -> [Targets -> StageRow]]
        BY <2>1
      <3>2. stage' = [stage EXCEPT ![m] = new]
        BY <2>3
      <3> HIDE DEF new
      <3> QED
        BY <2>1, <3>1, <3>2
    <2> QED
      BY <2>1, <2>2, <2>3 DEF FileAges, StageGrowsStale, OutlastedFiles
  <1> QED
    BY <1>1, <1>2 DEF FileInv, FilesTypeOK, FileIsInChat, InDeliver, InPhase, Posted, At

LEMMA FileInvStep == TypeInv /\ FileInv /\ [TransferNext]_transferVars => FileInv'
  <1> SUFFICES ASSUME TypeInv, FileInv, [TransferNext]_transferVars PROVE FileInv'
    OBVIOUS
  <1>1. TypeInv'
    BY TransferStepDelivers, TypeInvStep
  <1>2. CASE UNCHANGED <<execution, fileVars, work>>
    BY <1>2 DEF FileInv, FilesTypeOK, FileIsInChat, InDeliver, InPhase, Posted, At, fileVars
  <1>3. ASSUME AroundFiles, NEW x \in Executors, Moves(x), ~InDeliver(x) \/ ~InDeliver(x)'
        PROVE  FileInv'
    BY <1>1, <1>3, AroundKeeps DEF Moves, At
  <1>4. ASSUME NEW x \in Backfills, Start(x) \/ Claims(x) \/ FinishesBackfill(x)
        PROVE  FileInv'
    <2>1. x \in Executors
      BY DEF Executors
    <2>2. Moves(x) /\ ~InDeliver(x)
      BY <1>4, <2>1, ClaimEffect, ReclaimEffect, RestEffects
         DEF Start, Claims, FinishesBackfill, StartBackfill, Claim, Reclaim, FinishBackfill,
             Rests, Writes, InDeliver, InPhase
    <2> QED
      BY <1>3, <1>4, <2>1, <2>2 DEF Start, Claims, FinishesBackfill
  <1>5. ASSUME NEW y \in Replays,
               StartsReplay(y) \/ TakesFailed(y) \/ ReadMapping(y) \/ FinishesReplay(y)
        PROVE  FileInv'
    <2>1. y \in Executors
      BY DEF Executors
    <2>2. CASE ReadMapping(y)
      BY <1>2, <2>2 DEF ReadMapping, vars
    <2>3. CASE ~ReadMapping(y)
      <3>1. AroundFiles /\ Moves(y) /\ ~InDeliver(y)
        BY <1>5, <2>1, <2>3, TakeFailedEffect, RestEffects
           DEF StartsReplay, TakesFailed, FinishesReplay, StartReplay, TakeFailed,
               FinishReplay, Rests, InDeliver, InPhase
      <3> QED
        BY <1>3, <2>1, <3>1
    <2> QED
      BY <2>2, <2>3
  <1>6. CASE Registers
    <2>1. AroundFiles
      BY <1>6 DEF Registers
    <2>2. ASSUME NEW x \in Executors, NextMessage(x) \/ SaveCheckpoint(x) \/ Marking(x)
          PROVE  Moves(x) /\ ~InDeliver(x)
      BY <2>2, NextMessageEffect, RestEffects, MarkEffects
         DEF NextMessage, SaveCheckpoint, Marking, MarkImported, MarkFailed, MarkAmbiguous,
             MarkCancelled, Rests, Writes, InDeliver, InPhase
    <2>3. ASSUME NEW x \in Executors, Die(x) PROVE Moves(x) /\ ~InDeliver(x)'
      BY <2>3, RestEffects DEF Rests, InDeliver, InPhase
    <2>4. ASSUME NEW m \in Messages, GrowsStale(m) PROVE FileInv'
      BY <1>1, <2>1, <2>4, AroundKeeps DEF GrowsStale, At
    <2> QED
      BY <1>3, <1>6, <2>1, <2>2, <2>3, <2>4 DEF Registers, Executors, Marking
  <1>7. CASE FilesAge
    BY <1>7, FilesAgeKeeps DEF FilesAge
  <1>8. ASSUME NEW x \in Executors, Delivers(x) PROVE FileInv'
    BY <1>8, FileStepKeeps DEF Delivers
  <1>9. CASE Provisioning \/ UNCHANGED transferVars
    BY <1>2, <1>9 DEF Provisioning, transferVars, vars
  <1> QED
    BY <1>4, <1>5, <1>6, <1>7, <1>8, <1>9 DEF TransferNext

\* An attachment that the registry calls imported was posted, in whatever order
\* executions claim, upload, send and mark, and wherever they break off: a file that
\* goes with its message is marked only when the message has been answered.
THEOREM ImportedFilesWerePosted == TransferSpec => []FileIsInChat
  <1>1. TransferInit => TypeInv
    BY TypeInvInit DEF TransferInit
  <1>2. TypeInv /\ [TransferNext]_transferVars => TypeInv'
    BY TransferStepDelivers, TypeInvStep
  <1>3. FileInv => FileIsInChat
    BY DEF FileInv
  <1> QED
    BY <1>1, <1>2, <1>3, FileInvInit, FileInvStep, PTL DEF TransferSpec

-----------------------------------------------------------------------------
(* Types of the provisioning.                                              *)

Provisioners == Backfills \cup Adders

\* The participants of the dialog are people, each on a server.
DialogOK ==
  /\ P!Participants \subseteq People
  /\ \A t \in P!Participants : dialog.host[t] \in P!Host

LEMMA DialogPeople == ASSUME P!ProvisionTypeOK PROVE DialogOK
  <1>1. PICK some \in SUBSET People : dialog.host \in [some -> P!Host]
    BY DEF P!ProvisionTypeOK, P!Dialog
  <1> QED
    BY <1>1 DEF DialogOK, P!Participants

LEMMA NoProvision ==
  /\ MaxChats \in Nat /\ 0 \in P!Chats
  /\ P!NoMapping \in P!Mapping
  /\ P!IdleProvision \in P!Provision
  <1>1. MaxChats \in Nat /\ 0 \in P!Chats
    BY TransferAssumption DEF TransferAssumption, P!ProvisioningAssumption, P!Chats
  <1>2. P!NoMapping \in P!Mapping
    BY <1>1 DEF P!NoMapping, P!Mapping
  <1> QED
    BY <1>1, <1>2 DEF P!IdleProvision, P!Provision

\* What the steps of a provisioning leave alone: the chat, the mapping as it was read,
\* and the people to be brought into the chat.
Keeps(p, q) ==
  q \in P!Provision /\ q.chat = p.chat /\ q.old = p.old /\ q.targets = p.targets

\* The people of p who are in its chat, or reported as failed, or still to be added.
Reaching == {"hosts", "batch", "single", "link", "invite", "report"}

Pending(p, t) ==
  \/ p.phase \in {"hosts", "batch", "single"} /\ dialog.host[t] \in p.hosts
  \/ p.phase \in {"batch", "single"} /\ t \in p.batch

\* The strengthening of NobodyForgotten, with who is in which chat as a parameter:
\* those who were named at the creation are members, and direct adding still has each
\* of the others to deal with, or has dealt with them.
Placed(p, mem) ==
  /\ p.targets \subseteq P!Participants
  /\ p.phase \in Reaching \cup {"promote"} => P!Seeds(p) \subseteq mem[p.chat]
  /\ p.phase \in Reaching /\ dialog.access = "direct_add" =>
       \A t \in p.targets : t \in mem[p.chat] \cup p.failed \/ Pending(p, t)

\* Everybody stays in the chats.
MembersGrow(mem, more) == \A c \in P!Chats : mem[c] \subseteq more[c]

LEMMA PlacedStays ==
  ASSUME NEW p \in P!Provision, NEW mem, NEW more, MembersGrow(mem, more), Placed(p, mem)
  PROVE  Placed(p, more)
  <1>1. mem[p.chat] \subseteq more[p.chat]
    BY DEF MembersGrow, P!Provision
  <1> QED
    BY <1>1 DEF Placed

LEMMA SeedsKept ==
  ASSUME NEW p, NEW q, Keeps(p, q)
  PROVE  P!Seeds(q) = P!Seeds(p) /\ P!Recipients(q) = P!Recipients(p)
  BY DEF Keeps, P!Seeds, P!Recipients, P!IsNew

LEMMA AccessApplied ==
  ASSUME P!ProvisionTypeOK, NEW p \in P!Provision, p.targets \subseteq P!Participants,
         NEW mem, P!Seeds(p) \subseteq mem[p.chat]
  PROVE  /\ Keeps(p, P!AppliesAccess(p))
         /\ P!AppliesAccess(p).phase \in {"link", "hosts"}
         /\ Placed(P!AppliesAccess(p), mem)
  <1> DEFINE q == P!AppliesAccess(p)
             others == {dialog.host[t] : t \in P!Recipients(p)}
  <1>1. P!Recipients(p) \subseteq p.targets /\ p.targets \subseteq People
    BY DEF P!Recipients, P!Provision
  <1>2. CASE dialog.access = "invite_link" \/ P!Recipients(p) = {}
    <2>1. q = [p EXCEPT !.phase = "link", !.fallback = P!Recipients(p)]
      BY <1>2 DEF P!AppliesAccess
    <2>2. Keeps(p, q) /\ q.phase = "link"
      BY <1>1, <2>1 DEF Keeps, P!Provision
    <2> HIDE DEF q
    <2>3. dialog.access = "direct_add" => p.targets \subseteq mem[p.chat]
      BY <1>2 DEF P!Recipients
    <2> QED
      BY <2>2, <2>3, SeedsKept DEF Placed, Keeps, q
  <1>3. CASE ~(dialog.access = "invite_link" \/ P!Recipients(p) = {})
    <2>1. others \subseteq P!Host
      BY <1>1, DialogPeople DEF DialogOK
    <2>2. q = [p EXCEPT !.phase = "hosts", !.hosts = others]
      BY <1>3 DEF P!AppliesAccess
    <2>3. \A t \in p.targets : t \in P!Seeds(p) \/ dialog.host[t] \in others
      BY DEF P!Recipients
    <2> HIDE DEF others, q
    <2>4. Keeps(p, q) /\ q.phase = "hosts" /\ q.hosts = others
      BY <2>1, <2>2 DEF Keeps, P!Provision
    <2>5. P!Seeds(q) \subseteq mem[q.chat]
      BY <2>4, SeedsKept DEF Keeps
    <2>6. ASSUME NEW t \in q.targets PROVE t \in mem[q.chat] \/ Pending(q, t)
      BY <2>3, <2>4, <2>5, <2>6, SeedsKept DEF Keeps, Pending
    <2> QED
      BY <2>4, <2>5, <2>6 DEF Placed, Keeps, q
  <1> QED
    BY <1>2, <1>3

LEMMA AfterHostKeeps ==
  ASSUME NEW p \in P!Provision
  PROVE  /\ Keeps(p, P!AfterHost(p))
         /\ P!AfterHost(p).failed = p.failed /\ P!AfterHost(p).hosts = p.hosts
         /\ \/ P!AfterHost(p).phase = "hosts"
            \/ P!AfterHost(p).phase \in {"link", "report"} /\ p.hosts = {}
  BY DEF P!AfterHost, Keeps, P!Provision

LEMMA GivenUpKeeps ==
  ASSUME NEW p \in P!Provision, NEW people \in SUBSET People
  PROVE  /\ Keeps(p, P!GivenUp(p, people))
         /\ P!GivenUp(p, people).failed = p.failed \cup people
         /\ P!GivenUp(p, people).hosts = p.hosts /\ P!GivenUp(p, people).batch = p.batch
         /\ P!GivenUp(p, people).phase = p.phase
  BY DEF P!GivenUp, Keeps, P!Provision

\* x goes on to q, and nobody else moves.
Takes(x, q) ==
  /\ provision' \in [Provisioners -> P!Provision]
  /\ provision'[x] = q
  /\ \A y \in Provisioners \ {x} : provision'[y] = provision[y]

LEMMA GoesTo ==
  ASSUME P!ProvisionTypeOK, NEW x \in Provisioners, NEW q \in P!Provision, P!Goes(x, q)
  PROVE  Takes(x, q)
  BY DEF P!ProvisionTypeOK, P!Goes, Takes, Provisioners

\* x goes on with the chat and the mapping it has.
GoesOnTo(x, q) ==
  /\ q \in P!Provision /\ P!Goes(x, q)
  /\ q.chat = provision[x].chat /\ q.old = provision[x].old
  /\ \/ q.phase \in Reaching
     \/ q.phase = "create" /\ P!IsNew(provision[x]) /\ provision[x].phase = "resolve"

Membership == member' \in [P!Chats -> SUBSET People] /\ MembersGrow(member, member')

Proceeds(x) ==
  /\ Membership
  /\ \E q \in P!Provision : GoesOnTo(x, q) /\ Placed(q, member')
  /\ UNCHANGED <<dialog, mapping, chats, cut, raced>>

LEMMA SameMembers == ASSUME P!ProvisionTypeOK, member' = member PROVE Membership
  BY DEF P!ProvisionTypeOK, Membership, MembersGrow

LEMMA MembersAdded ==
  ASSUME P!ProvisionTypeOK, NEW c \in P!Chats, NEW S \in SUBSET People,
         member' = [member EXCEPT ![c] = @ \cup S]
  PROVE  Membership /\ member'[c] = member[c] \cup S
  BY DEF P!ProvisionTypeOK, Membership, MembersGrow

LEMMA ResolveProceeds ==
  ASSUME P!ProvisionTypeOK, NEW x \in Provisioners, P!Resolve(x)
  PROVE  Proceeds(x)
  <1>1. PICK targets \in SUBSET P!Participants :
          LET p == [provision[x] EXCEPT !.targets = targets]
          IN  P!Goes(x, IF P!IsNew(p) THEN [p EXCEPT !.phase = "create"]
                        ELSE P!AppliesAccess(p))
    BY DEF P!Resolve
  <1> DEFINE p == [provision[x] EXCEPT !.targets = targets]
  <1>2. /\ p \in P!Provision /\ p.targets = targets /\ p.phase = "resolve"
        /\ p.chat = provision[x].chat /\ p.old = provision[x].old
    BY DialogPeople DEF DialogOK, P!ProvisionTypeOK, P!Provision, Provisioners, P!Resolve, P!In
  <1>3. P!Goes(x, IF P!IsNew(p) THEN [p EXCEPT !.phase = "create"] ELSE P!AppliesAccess(p))
    BY <1>1
  <1>4. Membership /\ UNCHANGED <<dialog, mapping, chats, member, cut, raced>>
    BY SameMembers DEF P!Resolve
  <1> HIDE DEF p
  <1>5. CASE P!IsNew(p)
    <2> DEFINE q == [p EXCEPT !.phase = "create"]
    <2>1. q \in P!Provision /\ Keeps(p, q) /\ q.phase = "create"
      BY <1>2 DEF P!Provision, Keeps
    <2>2. P!Goes(x, q)
      BY <1>3, <1>5
    <2> HIDE DEF q
    <2>3. Placed(q, member')
      BY <1>2, <2>1 DEF Placed, Keeps, Reaching
    <2>4. GoesOnTo(x, q)
      BY <1>2, <1>5, <2>1, <2>2 DEF GoesOnTo, Keeps, P!IsNew, P!Resolve, P!In
    <2> QED
      BY <1>4, <2>1, <2>3, <2>4 DEF Proceeds
  <1>6. CASE ~P!IsNew(p)
    <2>1. P!Seeds(p) \subseteq member'[p.chat]
      BY <1>6 DEF P!Seeds
    <2>2. /\ Keeps(p, P!AppliesAccess(p)) /\ P!AppliesAccess(p).phase \in Reaching
          /\ Placed(P!AppliesAccess(p), member')
      BY <1>2, <2>1, AccessApplied DEF Reaching
    <2>3. GoesOnTo(x, P!AppliesAccess(p))
      BY <1>2, <1>3, <1>6, <2>2 DEF Keeps, GoesOnTo
    <2> QED
      BY <1>4, <2>2, <2>3 DEF Proceeds, Keeps
  <1> QED
    BY <1>5, <1>6

LEMMA PromoteProceeds ==
  ASSUME P!ProvisionTypeOK, NEW x \in Provisioners, Placed(provision[x], member),
         P!Promote(x)
  PROVE  Proceeds(x)
  <1> DEFINE p == provision[x]
  <1>1. p \in P!Provision /\ p.phase = "promote"
    BY DEF P!ProvisionTypeOK, Provisioners, P!Promote, P!In
  <1>2. P!Goes(x, P!AppliesAccess(p)) /\ Membership
    BY SameMembers DEF P!Promote
  <1>3. UNCHANGED <<dialog, mapping, chats, member, cut, raced>>
    BY DEF P!Promote
  <1>4. p.targets \subseteq P!Participants /\ P!Seeds(p) \subseteq member'[p.chat]
    BY <1>1, <1>3 DEF Placed
  <1> HIDE DEF p
  <1>5. /\ Keeps(p, P!AppliesAccess(p)) /\ P!AppliesAccess(p).phase \in Reaching
        /\ Placed(P!AppliesAccess(p), member')
    BY <1>1, <1>4, AccessApplied DEF Reaching
  <1>6. GoesOnTo(x, P!AppliesAccess(p))
    BY <1>2, <1>5 DEF Keeps, GoesOnTo, p
  <1> QED
    BY <1>2, <1>3, <1>5, <1>6 DEF Proceeds, Keeps

\* The provisioning in hand while people are being added.
Adding(x) ==
  /\ P!ProvisionTypeOK
  /\ Placed(provision[x], member)
  /\ provision[x] \in P!Provision
  /\ provision[x].phase \in Reaching
  /\ UNCHANGED <<dialog, mapping, chats, cut, raced>>

\* Those of the targets that a step has not dealt with are pending, as before.
LEMMA AddingProceeds ==
  ASSUME NEW x \in Provisioners, Adding(x), Membership, NEW q, Keeps(provision[x], q),
         P!Goes(x, q), q.phase \in Reaching,
         \A t \in q.targets :
            t \in provision[x].failed \/ Pending(provision[x], t) =>
              t \in member'[q.chat] \cup q.failed \/ Pending(q, t)
  PROVE  Proceeds(x)
  <1>1. /\ P!Seeds(q) = P!Seeds(provision[x]) /\ q.chat \in P!Chats
        /\ member[q.chat] \subseteq member'[q.chat]
    BY SeedsKept DEF Adding, Keeps, P!Provision, Membership, MembersGrow
  <1>2. Placed(q, member')
    BY <1>1 DEF Placed, Keeps, Adding
  <1> QED
    BY <1>2 DEF Proceeds, GoesOnTo, Keeps, Adding

LEMMA TakeHostProceeds ==
  ASSUME NEW x \in Provisioners, Adding(x), P!TakeHost(x)
  PROVE  Proceeds(x)
  <1>1. PICK host \in provision[x].hosts :
          LET p == [provision[x] EXCEPT !.hosts = @ \ {host}]
              people == {t \in P!Recipients(p) : dialog.host[t] = host}
          IN  \/ P!Goes(x, [p EXCEPT !.phase = "batch", !.batch = people])
              \/ P!Goes(x, P!AfterHost(P!GivenUp(p, people)))
    BY DEF P!TakeHost
  <1> DEFINE p == [provision[x] EXCEPT !.hosts = @ \ {host}]
             people == {t \in P!Recipients(p) : dialog.host[t] = host}
             q == [p EXCEPT !.phase = "batch", !.batch = people]
             r == P!GivenUp(p, people)
  <1>2. provision[x].phase = "hosts" /\ Membership
    BY SameMembers DEF P!TakeHost, P!In, Adding
  <1>3. /\ Keeps(provision[x], p) /\ p.phase = "hosts" /\ p.failed = provision[x].failed
        /\ p.hosts = provision[x].hosts \ {host}
    BY <1>2 DEF Adding, P!Provision, Keeps
  <1>4. people \in SUBSET People /\ p \in P!Provision
    BY <1>3 DEF Keeps, P!Provision, P!Recipients
  <1>5. P!Goes(x, q) \/ P!Goes(x, P!AfterHost(r))
    BY <1>1
  \* Those of the server who are not recipients were named at the creation.
  <1>6. \A t \in provision[x].targets :
           dialog.host[t] = host => t \in people \/ t \in member'[provision[x].chat]
    <2>1. P!Seeds(provision[x]) \subseteq member[provision[x].chat]
      BY DEF Adding, Placed
    <2>2. member' = member
      BY DEF P!TakeHost
    <2> QED
      BY <1>3, <2>1, <2>2, SeedsKept DEF P!Recipients, Keeps
  <1> HIDE DEF p, people
  <1>7. CASE P!Goes(x, q)
    <2>1. Keeps(p, q) /\ q.phase = "batch" /\ q.hosts = p.hosts /\ q.batch = people
          /\ q.failed = p.failed
      BY <1>4 DEF Keeps, P!Provision
    <2> HIDE DEF q
    <2>2. Keeps(provision[x], q) /\ q.phase \in Reaching
      BY <1>3, <2>1 DEF Keeps, Reaching
    <2>3. ASSUME NEW t \in q.targets, t \in provision[x].failed \/ Pending(provision[x], t)
          PROVE  t \in member'[q.chat] \cup q.failed \/ Pending(q, t)
      <3>1. CASE t \in provision[x].failed
        BY <1>3, <2>1, <3>1
      <3>2. CASE Pending(provision[x], t)
        <4>1. dialog.host[t] = host \/ dialog.host[t] \in q.hosts
          BY <1>2, <1>3, <2>1, <3>2 DEF Pending
        <4> QED
          BY <1>3, <1>6, <2>1, <2>2, <4>1 DEF Pending, Keeps
      <3> QED
        BY <2>3, <3>1, <3>2
    <2> QED
      BY <1>2, <1>7, <2>2, <2>3, AddingProceeds
  <1>8. CASE P!Goes(x, P!AfterHost(r))
    <2> DEFINE s == P!AfterHost(r)
    <2>1. Keeps(p, r) /\ r.failed = p.failed \cup people /\ r.hosts = p.hosts
      BY <1>4, GivenUpKeeps
    <2>2. /\ Keeps(r, s) /\ s.failed = r.failed /\ s.hosts = r.hosts
          /\ \/ s.phase = "hosts"
             \/ s.phase \in {"link", "report"} /\ s.hosts = {}
      BY <2>1, AfterHostKeeps DEF Keeps
    <2> HIDE DEF r, s
    <2>3. Keeps(provision[x], s) /\ s.phase \in Reaching
      BY <1>3, <2>1, <2>2 DEF Keeps, Reaching
    <2>4. ASSUME NEW t \in s.targets, t \in provision[x].failed \/ Pending(provision[x], t)
          PROVE  t \in member'[s.chat] \cup s.failed \/ Pending(s, t)
      <3>1. CASE t \in provision[x].failed
        BY <1>3, <2>1, <2>2, <3>1
      <3>2. CASE Pending(provision[x], t)
        <4>1. dialog.host[t] = host \/ dialog.host[t] \in s.hosts
          BY <1>2, <1>3, <2>1, <2>2, <3>2 DEF Pending
        <4> QED
          BY <1>3, <1>6, <2>1, <2>2, <2>3, <4>1 DEF Pending, Keeps
      <3> QED
        BY <2>4, <3>1, <3>2
    <2> QED
      BY <1>2, <1>8, <2>3, <2>4, AddingProceeds DEF s
  <1> QED
    BY <1>5, <1>7, <1>8

\* One call for the people of a server, or for one of them.
LEMMA BatchAdded ==
  ASSUME NEW x \in Provisioners, Adding(x), provision[x].phase \in {"batch", "single"},
         Membership, NEW q, Keeps(provision[x], q), q.hosts = provision[x].hosts,
         provision[x].failed \subseteq q.failed, P!Goes(x, q),
         \/ q.phase = "hosts"
         \/ q.phase \in {"link", "report"} /\ q.hosts = {}
         \/ q.phase = "single",
         \A t \in provision[x].batch :
            t \in member'[q.chat] \cup q.failed \/ (q.phase = "single" /\ t \in q.batch)
  PROVE  Proceeds(x)
  <1>1. q.phase \in Reaching
    BY DEF Reaching
  <1>2. ASSUME NEW t \in q.targets, t \in provision[x].failed \/ Pending(provision[x], t)
        PROVE  t \in member'[q.chat] \cup q.failed \/ Pending(q, t)
    BY <1>2 DEF Pending
  <1> QED
    BY <1>1, <1>2, AddingProceeds

LEMMA BatchProceeds ==
  ASSUME NEW x \in Provisioners, Adding(x), P!AddBatch(x)
  PROVE  Proceeds(x)
  <1> DEFINE p == provision[x]
  <1>1. p \in P!Provision /\ p.phase = "batch" /\ p.chat \in P!Chats /\ p.batch \subseteq People
    BY DEF P!AddBatch, P!In, Adding, P!Provision
  <1>2. CASE /\ member' = [member EXCEPT ![p.chat] = @ \cup p.batch]
             /\ P!Goes(x, P!AfterHost([p EXCEPT !.changed =
                                         @ \/ ~(p.batch \subseteq member[p.chat])]))
    <2> DEFINE more == ~(p.batch \subseteq member[p.chat])
               r == [p EXCEPT !.changed = @ \/ more]
               q == P!AfterHost(r)
    <2>1. Membership /\ member'[p.chat] = member[p.chat] \cup p.batch
      BY <1>1, <1>2, MembersAdded DEF Adding
    <2>2. P!Goes(x, q)
      BY <1>2
    <2>3. more \in BOOLEAN
      OBVIOUS
    <2> HIDE DEF more
    <2>4. Keeps(p, r) /\ r.hosts = p.hosts /\ r.failed = p.failed
      BY <1>1, <2>3 DEF Keeps, P!Provision
    <2> HIDE DEF r
    <2>5. /\ Keeps(r, q) /\ q.failed = r.failed /\ q.hosts = r.hosts
          /\ \/ q.phase = "hosts"
             \/ q.phase \in {"link", "report"} /\ q.hosts = {}
      BY <2>4, AfterHostKeeps DEF Keeps
    <2> HIDE DEF q
    <2>6. Keeps(p, q) /\ q.hosts = p.hosts /\ p.failed \subseteq q.failed
      BY <2>4, <2>5 DEF Keeps
    <2>7. \A t \in p.batch : t \in member'[q.chat]
      BY <2>1, <2>6 DEF Keeps
    <2> QED
      BY <1>1, <2>1, <2>2, <2>5, <2>6, <2>7, BatchAdded
  <1>3. ASSUME P!Joins(p, p.batch) PROVE Membership
    BY <1>1, <1>3, MembersAdded DEF P!Joins, Adding
  <1>4. CASE P!Joins(p, p.batch) /\ P!Goes(x, [p EXCEPT !.phase = "single"])
    <2> DEFINE q == [p EXCEPT !.phase = "single"]
    <2>1. /\ Keeps(p, q) /\ q.hosts = p.hosts /\ q.failed = p.failed
          /\ q.batch = p.batch /\ q.phase = "single"
      BY <1>1 DEF Keeps, P!Provision
    <2>2. P!Goes(x, q)
      BY <1>4
    <2> HIDE DEF q
    <2> QED
      BY <1>1, <1>3, <1>4, <2>1, <2>2, BatchAdded
  <1>5. CASE P!Joins(p, p.batch) /\ P!Goes(x, P!AfterHost(P!GivenUp(p, p.batch)))
    <2> DEFINE r == P!GivenUp(p, p.batch)
               q == P!AfterHost(r)
    <2>1. Keeps(p, r) /\ r.failed = p.failed \cup p.batch /\ r.hosts = p.hosts
      BY <1>1, GivenUpKeeps
    <2>2. /\ Keeps(r, q) /\ q.failed = r.failed /\ q.hosts = r.hosts
          /\ \/ q.phase = "hosts"
             \/ q.phase \in {"link", "report"} /\ q.hosts = {}
      BY <2>1, AfterHostKeeps DEF Keeps
    <2>3. P!Goes(x, q)
      BY <1>5
    <2> HIDE DEF r, q
    <2>4. Keeps(p, q)
      BY <2>1, <2>2 DEF Keeps
    <2> QED
      BY <1>1, <1>3, <1>5, <2>1, <2>2, <2>3, <2>4, BatchAdded
  <1> QED
    BY <1>2, <1>4, <1>5 DEF P!AddBatch

LEMMA SingleProceeds ==
  ASSUME NEW x \in Provisioners, Adding(x), P!AddSingle(x)
  PROVE  Proceeds(x)
  <1>1. PICK t \in provision[x].batch :
          LET p == [provision[x] EXCEPT !.batch = @ \ {t}]
              onward(q) == IF q.batch = {} THEN P!AfterHost(q) ELSE q
          IN  \/ /\ member' = [member EXCEPT ![p.chat] = @ \cup {t}]
                 /\ P!Goes(x, onward([p EXCEPT !.changed = @ \/ t \notin member[p.chat]]))
              \/ /\ P!Joins(p, {t})
                 /\ P!Goes(x, onward(P!GivenUp(p, {t})))
    BY DEF P!AddSingle
  <1> DEFINE p == [provision[x] EXCEPT !.batch = @ \ {t}]
             onward(q) == IF q.batch = {} THEN P!AfterHost(q) ELSE q
             more == t \notin member[p.chat]
             told == [p EXCEPT !.changed = @ \/ more]
             given == P!GivenUp(p, {t})
  <1>2. provision[x].phase = "single"
    BY DEF P!AddSingle, P!In
  <1>3. /\ Keeps(provision[x], p) /\ p.phase = "single" /\ p.failed = provision[x].failed
        /\ p.hosts = provision[x].hosts /\ p.batch = provision[x].batch \ {t}
        /\ t \in People
    BY <1>2 DEF Adding, P!Provision, Keeps
  <1>4. p \in P!Provision /\ p.chat \in P!Chats /\ more \in BOOLEAN
    BY <1>3 DEF Keeps, P!Provision
  <1>5. \/ member' = [member EXCEPT ![p.chat] = @ \cup {t}] /\ P!Goes(x, onward(told))
        \/ P!Joins(p, {t}) /\ P!Goes(x, onward(given))
    BY <1>1
  <1> HIDE DEF p, more
  <1>6. /\ Keeps(p, told) /\ told.hosts = p.hosts /\ told.failed = p.failed
        /\ told.batch = p.batch /\ told.phase = p.phase
    BY <1>4 DEF Keeps, P!Provision
  <1>7. /\ Keeps(p, given) /\ given.hosts = p.hosts /\ given.failed = p.failed \cup {t}
        /\ given.batch = p.batch /\ given.phase = p.phase
    BY <1>3, <1>4, GivenUpKeeps
  <1> HIDE DEF told, given
  <1>8. ASSUME NEW q, Keeps(p, q), q.hosts = p.hosts, p.failed \subseteq q.failed,
               q.batch = p.batch, q.phase = p.phase, P!Goes(x, onward(q)), Membership,
               t \in member'[p.chat] \/ t \in q.failed
        PROVE  Proceeds(x)
    <2>1. CASE q.batch = {}
      <3>1. /\ Keeps(q, P!AfterHost(q)) /\ P!AfterHost(q).failed = q.failed
            /\ P!AfterHost(q).hosts = q.hosts
            /\ \/ P!AfterHost(q).phase = "hosts"
               \/ P!AfterHost(q).phase \in {"link", "report"} /\ P!AfterHost(q).hosts = {}
        BY <1>8, AfterHostKeeps DEF Keeps
      <3>2. P!Goes(x, P!AfterHost(q))
        BY <1>8, <2>1
      <3>3. Keeps(provision[x], P!AfterHost(q)) /\ provision[x].batch \subseteq {t}
        BY <1>3, <1>8, <2>1, <3>1 DEF Keeps
      <3> QED
        BY <1>2, <1>3, <1>8, <3>1, <3>2, <3>3, BatchAdded DEF Keeps
    <2>2. CASE q.batch # {}
      <3>1. P!Goes(x, q)
        BY <1>8, <2>2
      <3>2. /\ Keeps(provision[x], q) /\ q.phase = "single" /\ q.chat = p.chat
            /\ q.hosts = provision[x].hosts /\ provision[x].failed \subseteq q.failed
            /\ q.batch = provision[x].batch \ {t}
        BY <1>3, <1>8 DEF Keeps
      <3> QED
        BY <1>2, <1>8, <3>1, <3>2, BatchAdded
    <2> QED
      BY <2>1, <2>2
  <1>9. CASE member' = [member EXCEPT ![p.chat] = @ \cup {t}] /\ P!Goes(x, onward(told))
    <2> DEFINE S == {t}
    <2>1. S \in SUBSET People /\ t \in S /\ member' = [member EXCEPT ![p.chat] = @ \cup S]
      BY <1>3, <1>9
    <2> HIDE DEF S
    <2>2. P!ProvisionTypeOK /\ p.chat \in P!Chats
      BY <1>4 DEF Adding
    <2>3. Membership /\ member'[p.chat] = member[p.chat] \cup S
      BY <2>1, <2>2, MembersAdded
    <2> QED
      BY <1>6, <1>8, <1>9, <2>1, <2>3
  <1>10. CASE P!Joins(p, {t}) /\ P!Goes(x, onward(given))
    <2>1. Membership
      BY <1>3, <1>4, <1>10, MembersAdded DEF P!Joins, Adding
    <2> QED
      BY <1>7, <1>8, <1>10, <2>1
  <1> QED
    BY <1>5, <1>9, <1>10

LEMMA InvitationsProceed ==
  ASSUME NEW x \in Provisioners, Adding(x), P!MakeLink(x) \/ P!Invite(x)
  PROVE  Proceeds(x)
  <1> DEFINE p == provision[x]
             leads(q) == /\ P!Goes(x, q) /\ Keeps(p, q)
                         /\ q.failed = p.failed /\ q.phase \in {"invite", "report"}
  <1>1. p \in P!Provision /\ p.phase \in {"link", "invite"} /\ Membership
    BY SameMembers DEF P!MakeLink, P!Invite, P!In, Adding
  <1>2. \E q : leads(q)
    <2>1. ASSUME NEW q, P!Goes(x, q),
                 \/ q = [p EXCEPT !.phase = "invite"]
                 \/ q = [p EXCEPT !.phase = "report", !.fallback = {}]
                 \/ q = [p EXCEPT !.phase = "report"]
          PROVE  leads(q)
      BY <1>1, <2>1 DEF Keeps, P!Provision
    <2>2. CASE P!MakeLink(x)
      BY <2>1, <2>2 DEF P!MakeLink
    <2>4. ASSUME p.phase = "invite", NEW t \in p.fallback,
                 LET q == [p EXCEPT !.fallback = @ \ {t}]
                 IN  P!Goes(x, q) \/ P!Goes(x, [q EXCEPT !.changed = TRUE])
          PROVE  \E q : leads(q)
      <3> DEFINE q == [p EXCEPT !.fallback = @ \ {t}]
                 r == [q EXCEPT !.changed = TRUE]
      <3>1. Keeps(p, q) /\ q.failed = p.failed /\ q.phase = "invite"
        BY <1>1, <2>4 DEF Keeps, P!Provision
      <3>2. P!Goes(x, q) \/ P!Goes(x, r)
        BY <2>4
      <3> HIDE DEF q
      <3>3. Keeps(q, r) /\ r.failed = q.failed /\ r.phase = q.phase
        BY <3>1 DEF Keeps, P!Provision
      <3> HIDE DEF r
      <3>4. leads(q) \/ leads(r)
        BY <2>4, <3>1, <3>2, <3>3 DEF Keeps
      <3> QED
        BY <3>4
    <2>3. CASE P!Invite(x) /\ P!Goes(x, [p EXCEPT !.phase = "report"])
      BY <2>1, <2>3
    <2> QED
      BY <2>2, <2>3, <2>4 DEF P!Invite, P!In
  <1>3. PICK q : leads(q)
    BY <1>2
  <1>4. \A t \in q.targets : ~Pending(p, t)
    BY <1>1 DEF Pending
  <1> QED
    BY <1>1, <1>3, <1>4, AddingProceeds DEF Reaching

-----------------------------------------------------------------------------
(* Who is left out.                                                        *)

\* What is known of a provisioning whatever the others do, while n chats have been
\* created: only a backfill makes a chat, and has none before; the others have the
\* chat of the mapping they have read.
Sound(x, p, n) ==
  /\ p.chat <= n /\ p.old.target <= n
  /\ p.phase # "idle" =>
       /\ P!IsNew(p) => x \in Backfills /\ p.phase # "ready"
       /\ P!IsNew(p) /\ p.phase \in {"resolve", "create"} => p.chat = 0
       /\ ~P!IsNew(p) => p.phase # "create" /\ p.chat = p.old.target

SoundMapping(m, n) == m.target <= n /\ (m.status = "none" => m.target = 0)

\* The strengthening of NobodyForgotten.
ProvisionInv ==
  /\ P!ProvisionTypeOK
  /\ SoundMapping(mapping, chats)
  /\ \A x \in Provisioners :
        Sound(x, provision[x], chats) /\ Placed(provision[x], member)

\* The members of the chats that are there stay.
MembersStay == \A c \in P!Chats : c <= chats => member[c] \subseteq member'[c]

\* x goes on, alone, to q.
LEMMA ProvisionGoesOn ==
  ASSUME ProvisionInv, NEW x \in Provisioners, NEW q \in P!Provision, P!Goes(x, q),
         Sound(x, q, chats'), Placed(q, member'),
         dialog' = dialog, mapping' \in P!Mapping, SoundMapping(mapping', chats'),
         chats' \in P!Chats, chats <= chats', member' \in [P!Chats -> SUBSET People],
         MembersStay, cut' \in SUBSET P!Chats, raced' \in BOOLEAN
  PROVE  ProvisionInv'
  <1>1. Takes(x, q) /\ chats \in Nat /\ chats' \in Nat
    BY GoesTo, NoProvision DEF ProvisionInv, P!ProvisionTypeOK, P!Chats
  <1>2. ASSUME NEW y \in Provisioners
        PROVE  Sound(y, provision'[y], chats') /\ Placed(provision'[y], member')
    <2>1. CASE y = x
      BY <1>1, <2>1 DEF Takes
    <2>2. CASE y # x
      <3>1. provision'[y] = provision[y] /\ provision[y] \in P!Provision
        BY <1>1, <2>2 DEF Takes, ProvisionInv, P!ProvisionTypeOK, Provisioners
      <3> DEFINE p == provision[y]
      <3>2. /\ Sound(y, p, chats) /\ Placed(p, member)
            /\ p.chat \in P!Chats /\ p.chat \in Nat /\ p.old.target \in Nat
        BY <3>1, NoProvision DEF ProvisionInv, P!Provision, P!Mapping, P!Chats
      <3> HIDE DEF p
      <3>3. Sound(y, p, chats') /\ p.chat <= chats
        BY <1>1, <3>2 DEF Sound
      <3>4. Placed(p, member')
        BY <3>2, <3>3 DEF Placed, MembersStay
      <3> QED
        BY <3>1, <3>3, <3>4 DEF p
    <2> QED
      BY <2>1, <2>2
  <1>3. P!ProvisionTypeOK'
    BY <1>1 DEF ProvisionInv, P!ProvisionTypeOK, Takes, Provisioners
  <1> QED
    BY <1>2, <1>3
       DEF ProvisionInv, SoundMapping, Sound, Placed, Pending, P!Seeds, P!IsNew, P!Alone,
           P!Participants

\* A provisioning that has not begun, or that is ready to deliver.
LEMMA NothingPlaced ==
  ASSUME NEW p, NEW mem, p.targets = {}, p.phase \notin Reaching
  PROVE  Placed(p, mem)
  BY DEF Placed, P!Seeds

LEMMA IdlePlaced ==
  ASSUME NEW x \in Provisioners, NEW n \in Nat, NEW mem
  PROVE  /\ P!IdleProvision \in P!Provision
         /\ Sound(x, P!IdleProvision, n) /\ Placed(P!IdleProvision, mem)
  BY NoProvision, NothingPlaced DEF Sound, P!IdleProvision, P!NoMapping, Reaching

\* An execution that begins, is about to save or is ready: what it has are a chat and
\* a mapping.
Settling(phase, c, m) == [P!IdleProvision EXCEPT !.phase = phase, !.old = m, !.chat = c]

LEMMA SettlingTyped ==
  ASSUME NEW phase \in {"resolve", "save", "ready"}, NEW c \in P!Chats, NEW m \in P!Mapping,
         NEW mem
  PROVE  /\ Settling(phase, c, m) \in P!Provision
         /\ Settling(phase, c, m).phase = phase /\ Settling(phase, c, m).chat = c
         /\ Settling(phase, c, m).old = m
         /\ Placed(Settling(phase, c, m), mem)
  <1> DEFINE q == Settling(phase, c, m)
  <1>1. /\ q \in P!Provision /\ q.phase = phase /\ q.chat = c /\ q.old = m
        /\ q.targets = {}
    BY NoProvision DEF Settling, P!IdleProvision, P!Provision
  <1> HIDE DEF q
  <1>2. Placed(q, mem)
    BY <1>1, NothingPlaced DEF Reaching
  <1> QED
    BY <1>1, <1>2 DEF q

\* What a step of the provisioning is for the question of the target chat: x goes on
\* with what it has; takes up the mapping; creates a chat; saves the mapping; or is
\* done, and is cut off if it was about to save.
Engaged(x) == ~P!In(x, "idle")
Making(x) == Engaged(x) /\ P!IsNew(provision[x])

Stays(x) ==
  /\ Engaged(x) /\ provision'[x].phase # "idle"
  /\ provision'[x].chat = provision[x].chat /\ provision'[x].old = provision[x].old
  /\ UNCHANGED <<mapping, chats, cut, raced>>

Begins(x) ==
  /\ ~Engaged(x)
  /\ provision'[x].chat = mapping.target /\ provision'[x].old = mapping
  /\ mapping.status = "none" => x \in Backfills
  /\ ~raced' => ~raced /\ (mapping.status = "none" => \A y \in Backfills : ~Making(y))
  /\ UNCHANGED <<mapping, chats, cut>>

Creates(x) ==
  /\ Making(x) /\ x \in Backfills /\ provision[x].chat = 0
  /\ chats' = chats + 1
  /\ \/ /\ provision'[x].phase # "idle"
        /\ provision'[x].chat = chats + 1 /\ provision'[x].old = provision[x].old
        /\ cut' = cut
     \/ provision'[x].phase = "idle" /\ cut' = cut \cup {chats + 1}
  /\ UNCHANGED <<mapping, raced>>

Saves(x) ==
  /\ Engaged(x) /\ x \in Backfills
  /\ mapping' = P!SavedMapping(provision[x])
  /\ provision'[x].phase = "ready"
  /\ provision'[x].chat = mapping'.target /\ provision'[x].old = mapping'
  /\ UNCHANGED <<chats, cut, raced>>

Leaves(x) ==
  /\ Engaged(x) /\ provision'[x].phase = "idle"
  /\ cut \subseteq cut'
  /\ x \in Backfills /\ P!IsNew(provision[x]) /\ provision[x].chat # 0 =>
       provision[x].chat \in cut'
  /\ UNCHANGED <<mapping, chats, raced>>

\* x takes such a step, and the others none.
Provisions(x) ==
  /\ provision' \in [Provisioners -> P!Provision]
  /\ \A y \in Provisioners \ {x} : provision'[y] = provision[y]
  /\ Stays(x) \/ Begins(x) \/ Creates(x) \/ Saves(x) \/ Leaves(x)

LEMMA ProvisionTypes ==
  ASSUME ProvisionInv, NEW x \in Provisioners
  PROVE  /\ provision[x] \in P!Provision /\ P!ProvisionTypeOK
         /\ Sound(x, provision[x], chats) /\ Placed(provision[x], member)
         /\ provision[x].chat \in P!Chats /\ provision[x].old \in P!Mapping
         /\ provision[x].chat \in Nat /\ provision[x].old.target \in Nat
         /\ chats \in Nat /\ chats \in P!Chats /\ mapping \in P!Mapping
         /\ mapping.target \in P!Chats /\ mapping.target \in Nat
         /\ member \in [P!Chats -> SUBSET People]
         /\ cut \subseteq P!Chats /\ raced \in BOOLEAN /\ SoundMapping(mapping, chats)
  <1>1. /\ provision[x] \in P!Provision /\ mapping \in P!Mapping
        /\ provision[x].chat \in P!Chats /\ provision[x].old \in P!Mapping
        /\ provision[x].old.target \in P!Chats /\ mapping.target \in P!Chats
        /\ chats \in P!Chats
    BY DEF ProvisionInv, P!ProvisionTypeOK, Provisioners, P!Provision, P!Mapping
  <1>2. \A c \in P!Chats : c \in Nat
    BY NoProvision DEF P!Chats
  <1> QED
    BY <1>1, <1>2 DEF ProvisionInv, P!ProvisionTypeOK

LEMMA ProceedsKeeps ==
  ASSUME ProvisionInv, NEW x \in Provisioners, Proceeds(x), Engaged(x)
  PROVE  ProvisionInv' /\ Provisions(x)
  <1>1. PICK q \in P!Provision : GoesOnTo(x, q) /\ Placed(q, member')
    BY DEF Proceeds
  <1>2. Takes(x, q)
    BY <1>1, GoesTo DEF GoesOnTo, ProvisionInv
  <1>3. UNCHANGED <<dialog, mapping, chats, cut, raced>> /\ Membership
    BY DEF Proceeds
  <1>4. Sound(x, q, chats')
    BY <1>1, <1>3, ProvisionTypes
       DEF GoesOnTo, Sound, Reaching, Engaged, P!In, P!IsNew
  <1>5. ProvisionInv'
    BY <1>1, <1>3, <1>4, ProvisionTypes, ProvisionGoesOn
       DEF GoesOnTo, Membership, MembersGrow, MembersStay
  <1>6. Stays(x)
    BY <1>1, <1>2, <1>3 DEF Stays, GoesOnTo, Takes, Reaching
  <1> QED
    BY <1>2, <1>5, <1>6 DEF Provisions, Takes

LEMMA EnsureKeeps ==
  ASSUME ProvisionInv, NEW x \in Backfills, P!EnsureTarget(x)
  PROVE  ProvisionInv' /\ Provisions(x)
  <1> DEFINE q == Settling(P!FirstPhase, mapping.target, mapping)
  <1>1. x \in Provisioners /\ P!FirstPhase \in {"resolve", "save", "ready"}
    BY DEF Provisioners, P!FirstPhase
  <1>2. P!Goes(x, q) /\ UNCHANGED <<dialog, mapping, chats, member, cut>> /\ ~Engaged(x)
    BY DEF P!EnsureTarget, Settling, Engaged
  <1>3. /\ q \in P!Provision /\ q.phase = P!FirstPhase /\ q.chat = mapping.target
        /\ q.old = mapping /\ Placed(q, member')
    <2>1. mapping \in P!Mapping /\ mapping.target \in P!Chats
      BY <1>1, ProvisionTypes
    <2> QED
      BY <1>1, <2>1, SettlingTyped
  <1>4. q.phase = "ready" => mapping.status # "none"
    BY <1>3 DEF P!FirstPhase
  <1> HIDE DEF q
  <1>5. Sound(x, q, chats')
    BY <1>1, <1>2, <1>3, <1>4, ProvisionTypes
       DEF Sound, SoundMapping, P!IsNew, P!FirstPhase, P!Mapping
  <1>6. Takes(x, q)
    BY <1>1, <1>2, <1>3, GoesTo DEF ProvisionInv
  <1>7. /\ raced' \in BOOLEAN
        /\ ~raced' => ~raced /\ (mapping.status = "none" => \A y \in Backfills : ~Making(y))
    BY DEF P!EnsureTarget, Making, Engaged
  <1>8. MembersStay
    BY <1>2 DEF MembersStay
  <1>9. ProvisionInv'
    BY <1>1, <1>2, <1>3, <1>5, <1>7, <1>8, ProvisionTypes, ProvisionGoesOn
  <1>10. Begins(x)
    BY <1>2, <1>3, <1>6, <1>7 DEF Begins, Takes
  <1> QED
    BY <1>6, <1>9, <1>10 DEF Provisions, Takes

LEMMA AddMembersKeeps ==
  ASSUME ProvisionInv, NEW a \in Adders, P!AddMembers(a)
  PROVE  ProvisionInv' /\ Provisions(a)
  <1>1. PICK targets \in SUBSET P!Participants :
          LET p == [P!IdleProvision EXCEPT !.chat = mapping.target, !.old = mapping,
                                           !.targets = targets]
          IN  P!Goes(a, P!AppliesAccess(p))
    BY DEF P!AddMembers
  <1> DEFINE p == [P!IdleProvision EXCEPT !.chat = mapping.target, !.old = mapping,
                                          !.targets = targets]
             q == P!AppliesAccess(p)
  <1>2. /\ a \in Provisioners /\ P!Goes(a, q) /\ mapping.status # "none" /\ ~Engaged(a)
        /\ UNCHANGED <<dialog, mapping, chats, member, cut, raced>>
    BY <1>1 DEF P!AddMembers, Provisioners, Engaged
  <1>3. /\ p \in P!Provision /\ p.targets = targets /\ p.chat = mapping.target
        /\ p.old = mapping
    BY <1>2, NoProvision, ProvisionTypes, DialogPeople
       DEF DialogOK, P!IdleProvision, P!Provision
  <1> HIDE DEF p
  <1>4. P!Seeds(p) \subseteq member'[p.chat]
    BY <1>2, <1>3 DEF P!Seeds, P!IsNew
  <1>5. Keeps(p, q) /\ q.phase \in {"link", "hosts"} /\ Placed(q, member')
    BY <1>2, <1>3, <1>4, ProvisionTypes, AccessApplied
  <1> HIDE DEF q
  <1>6. q \in P!Provision /\ q.chat = mapping.target /\ q.old = mapping
    BY <1>3, <1>5 DEF Keeps
  <1>7. Sound(a, q, chats')
    BY <1>2, <1>5, <1>6, ProvisionTypes DEF Sound, SoundMapping, P!IsNew
  <1>8. Takes(a, q)
    BY <1>2, <1>6, GoesTo DEF ProvisionInv
  <1>9. ProvisionInv'
    BY <1>2, <1>5, <1>6, <1>7, ProvisionTypes, ProvisionGoesOn DEF MembersStay
  <1>10. Begins(a)
    BY <1>2, <1>6, <1>8 DEF Begins, Takes
  <1> QED
    BY <1>8, <1>9, <1>10 DEF Provisions, Takes

LEMMA CreateKeeps ==
  ASSUME ProvisionInv, NEW x \in Backfills, P!Create(x)
  PROVE  ProvisionInv' /\ Provisions(x)
  <1> DEFINE p == provision[x]
             n == chats + 1
             q == [p EXCEPT !.phase = "promote", !.chat = n]
  <1>1. /\ x \in Provisioners /\ p.phase = "create" /\ chats < MaxChats
        /\ chats' = n /\ member' = [member EXCEPT ![n] = P!Seeds(p)]
        /\ UNCHANGED <<dialog, mapping, raced>>
    BY DEF Provisioners, P!Create, P!In
  <1>2. /\ n \in P!Chats /\ chats \in Nat /\ n > chats
        /\ p \in P!Provision /\ Sound(x, p, chats)
        /\ p.targets \subseteq P!Participants /\ mapping \in P!Mapping
    BY <1>1, NoProvision, ProvisionTypes DEF P!Chats, Placed
  <1>3. Making(x) /\ p.chat = 0
    BY <1>1, <1>2 DEF Making, Engaged, P!In, Sound
  <1>4. P!Seeds(p) \in SUBSET People
    BY <1>2 DEF P!Seeds, P!Provision
  <1>5. /\ member' \in [P!Chats -> SUBSET People] /\ member'[n] = P!Seeds(p)
        /\ MembersStay
    BY <1>1, <1>2, <1>4, ProvisionTypes DEF MembersStay
  <1>6. /\ q \in P!Provision /\ q.phase = "promote" /\ q.chat = n /\ q.old = p.old
        /\ q.targets = p.targets
    BY <1>2 DEF P!Provision
  <1>7. mapping' \in P!Mapping /\ SoundMapping(mapping', chats') /\ chats <= chats'
    BY <1>1, <1>2, ProvisionTypes DEF SoundMapping
  <1>8. CASE P!Goes(x, q) /\ cut' = cut
    <2> HIDE DEF q
    <2>1. P!Seeds(q) = P!Seeds(p) /\ P!IsNew(q)
      BY <1>3, <1>6 DEF P!Seeds, P!IsNew, Making
    <2>2. Placed(q, member')
      BY <1>2, <1>5, <1>6, <2>1 DEF Placed, Reaching
    <2>3. Sound(x, q, chats')
      BY <1>1, <1>2, <1>6, <2>1, ProvisionTypes DEF Sound
    <2>4. Takes(x, q)
      BY <1>1, <1>6, <1>8, GoesTo DEF ProvisionInv
    <2>5. ProvisionInv'
      BY <1>1, <1>2, <1>5, <1>6, <1>7, <1>8, <2>2, <2>3, ProvisionTypes, ProvisionGoesOn
    <2>6. Creates(x)
      BY <1>1, <1>3, <1>6, <1>8, <2>4 DEF Creates, Takes
    <2> QED
      BY <2>4, <2>5, <2>6 DEF Provisions, Takes
  <1>9. CASE P!Goes(x, P!IdleProvision) /\ cut' = cut \cup {n}
    <2>1. /\ P!IdleProvision \in P!Provision /\ Placed(P!IdleProvision, member')
          /\ Sound(x, P!IdleProvision, chats')
      BY <1>1, <1>2, IdlePlaced
    <2>2. Takes(x, P!IdleProvision)
      BY <1>1, <1>9, <2>1, GoesTo DEF ProvisionInv
    <2>3. cut' \in SUBSET P!Chats
      BY <1>1, <1>2, <1>9, ProvisionTypes
    <2>4. ProvisionInv'
      BY <1>1, <1>2, <1>5, <1>7, <1>9, <2>1, <2>3, ProvisionTypes, ProvisionGoesOn
    <2>5. Creates(x)
      BY <1>1, <1>3, <1>9, <2>2 DEF Creates, Takes, P!IdleProvision
    <2> QED
      BY <2>2, <2>4, <2>5 DEF Provisions, Takes
  <1> QED
    BY <1>8, <1>9 DEF P!Create

LEMMA SaveKeeps ==
  ASSUME ProvisionInv, NEW x \in Backfills, P!SaveMapping(x)
  PROVE  ProvisionInv' /\ Provisions(x)
  <1> DEFINE p == provision[x]
             saved == P!SavedMapping(p)
             q == Settling("ready", saved.target, saved)
  <1>1. /\ x \in Provisioners /\ p.phase = "save" /\ mapping' = saved
        /\ P!Goes(x, q) /\ UNCHANGED <<dialog, chats, member, cut, raced>>
    BY DEF Provisioners, P!SaveMapping, P!In, Settling
  <1>2. /\ p \in P!Provision /\ Sound(x, p, chats) /\ p.chat \in P!Chats
        /\ p.old \in P!Mapping
    BY <1>1, ProvisionTypes
  <1>3. saved \in P!Mapping /\ saved.status # "none" /\ saved.target <= chats
    BY <1>2 DEF P!SavedMapping, P!Mapping, P!IsNew, Sound
  <1> HIDE DEF saved
  <1>4. saved.target \in P!Chats
    BY <1>3 DEF P!Mapping
  <1>5. /\ q \in P!Provision /\ q.phase = "ready" /\ q.chat = saved.target
        /\ q.old = saved /\ Placed(q, member')
    BY <1>3, <1>4, SettlingTyped
  <1> HIDE DEF q
  <1>6. Sound(x, q, chats') /\ SoundMapping(mapping', chats')
    BY <1>1, <1>3, <1>5 DEF Sound, SoundMapping, P!IsNew
  <1>7. Takes(x, q)
    BY <1>1, <1>5, GoesTo DEF ProvisionInv
  <1>8. ProvisionInv'
    BY <1>1, <1>3, <1>5, <1>6, ProvisionTypes, ProvisionGoesOn DEF MembersStay
  <1>9. Saves(x)
    BY <1>1, <1>5, <1>7 DEF Saves, Takes, Engaged, P!In, saved
  <1> QED
    BY <1>7, <1>8, <1>9 DEF Provisions, Takes

\* x is done with its provisioning, or breaks it off.
LEMMA LeavingKeeps ==
  ASSUME ProvisionInv, NEW x \in Provisioners, Engaged(x), P!Goes(x, P!IdleProvision),
         Membership, cut \subseteq cut', cut' \in SUBSET P!Chats,
         x \in Backfills /\ P!IsNew(provision[x]) /\ provision[x].chat # 0 =>
           provision[x].chat \in cut',
         UNCHANGED <<dialog, mapping, chats, raced>>
  PROVE  ProvisionInv' /\ Provisions(x)
  <1>1. /\ P!IdleProvision \in P!Provision /\ Placed(P!IdleProvision, member')
        /\ Sound(x, P!IdleProvision, chats')
    BY IdlePlaced, ProvisionTypes
  <1>2. Takes(x, P!IdleProvision)
    BY <1>1, GoesTo DEF ProvisionInv
  <1>3. ProvisionInv'
    BY <1>1, ProvisionTypes, ProvisionGoesOn DEF Membership, MembersGrow, MembersStay
  <1>4. Leaves(x)
    BY <1>2 DEF Leaves, Takes, P!IdleProvision
  <1> QED
    BY <1>2, <1>3, <1>4 DEF Provisions, Takes

LEMMA ReportKeeps ==
  ASSUME ProvisionInv, NEW x \in Provisioners, P!Report(x)
  PROVE  ProvisionInv' /\ Provisions(x)
  <1> DEFINE p == provision[x]
  <1>1. /\ p.phase = "report" /\ Engaged(x) /\ Membership
        /\ UNCHANGED <<dialog, mapping, chats, member, cut, raced>>
    BY SameMembers DEF P!Report, P!In, Engaged, ProvisionInv
  <1>2. CASE x \in Adders
    <2>1. ~P!IsNew(p)
      BY <1>1, <1>2, ProvisionTypes, TransferAssumption
         DEF TransferAssumption, P!ProvisioningAssumption, Sound
    <2>2. P!Goes(x, P!IdleProvision)
      BY <1>2 DEF P!Report
    <2> QED
      BY <1>1, <2>1, <2>2, ProvisionTypes, LeavingKeeps
  <1>3. CASE x \notin Adders
    <2> DEFINE phase == IF P!IsNew(p) \/ p.changed THEN "save" ELSE "ready"
               q == Settling(phase, p.chat, p.old)
    <2>1. phase \in {"save", "ready"} /\ (phase = "ready" => ~P!IsNew(p))
      OBVIOUS
    <2>2. P!Goes(x, q)
      BY <1>3 DEF P!Report, Settling
    <2>3. p.chat \in P!Chats /\ p.old \in P!Mapping /\ Sound(x, p, chats) /\ x \in Backfills
      BY <1>3, ProvisionTypes DEF Provisioners
    <2> HIDE DEF phase
    <2>4. /\ q \in P!Provision /\ q.phase = phase /\ q.chat = p.chat /\ q.old = p.old
          /\ Placed(q, member')
      BY <2>1, <2>3, SettlingTyped
    <2> HIDE DEF q
    <2>5. Sound(x, q, chats')
      BY <1>1, <2>1, <2>3, <2>4 DEF Sound, P!IsNew
    <2>6. Takes(x, q)
      BY <2>2, <2>4, GoesTo DEF ProvisionInv
    <2>7. ProvisionInv'
      BY <1>1, <2>2, <2>4, <2>5, ProvisionTypes, ProvisionGoesOn DEF MembersStay
    <2>8. Stays(x)
      BY <1>1, <2>1, <2>4, <2>6 DEF Stays, Takes
    <2> QED
      BY <2>6, <2>7, <2>8 DEF Provisions, Takes
  <1> QED
    BY <1>2, <1>3

LEMMA FailingKeeps ==
  ASSUME ProvisionInv, NEW x \in Provisioners, P!ProvisionFails(x)
  PROVE  ProvisionInv' /\ Provisions(x)
  <1> DEFINE p == provision[x]
  <1>1. /\ Engaged(x) /\ P!Goes(x, P!IdleProvision)
        /\ cut' = IF P!IsNew(p) /\ p.chat # 0 THEN cut \cup {p.chat} ELSE cut
        /\ UNCHANGED <<dialog, mapping, chats, raced>>
    BY DEF P!ProvisionFails, Engaged
  <1>2. Membership
    <2>1. PICK people \in P!AskedFor(x) : P!Joins(p, people)
      BY DEF P!ProvisionFails
    <2>2. people \in SUBSET People /\ p.chat \in P!Chats
      <3>1. p \in P!Provision
        BY ProvisionTypes
      <3>2. \/ people = p.batch
            \/ \E t \in p.batch : people = {t}
            \/ people = {}
        BY <2>1 DEF P!AskedFor
      <3> QED
        BY <3>1, <3>2 DEF P!Provision
    <2> QED
      BY <2>1, <2>2, MembersAdded DEF P!Joins, ProvisionInv
  <1>3. cut' \in SUBSET P!Chats /\ cut \subseteq cut'
    BY <1>1, ProvisionTypes
  <1> QED
    BY <1>1, <1>2, <1>3, LeavingKeeps

LEMMA ProvisionStepKeeps ==
  ASSUME ProvisionInv, P!ProvisionStep
  PROVE  ProvisionInv' /\ \E x \in Provisioners : Provisions(x)
  <1>1. \A x \in Provisioners : P!ProvisionTypeOK /\ Placed(provision[x], member)
    BY DEF ProvisionInv
  <1>2. ASSUME NEW x \in Provisioners,
               \/ P!TakeHost(x) \/ P!AddBatch(x) \/ P!AddSingle(x)
               \/ P!MakeLink(x) \/ P!Invite(x)
        PROVE  Proceeds(x) /\ Engaged(x)
    <2>1. Adding(x)
      BY <1>1, <1>2, ProvisionTypes
         DEF P!TakeHost, P!AddBatch, P!AddSingle, P!MakeLink, P!Invite, P!In, Adding,
             Reaching
    <2>2. Engaged(x)
      BY <1>2 DEF P!TakeHost, P!AddBatch, P!AddSingle, P!MakeLink, P!Invite, P!In, Engaged
    <2> QED
      BY <1>2, <2>1, <2>2, TakeHostProceeds, BatchProceeds, SingleProceeds,
         InvitationsProceed
  <1>3. ASSUME NEW x \in Backfills, P!Resolve(x) \/ P!Promote(x)
        PROVE  Proceeds(x) /\ Engaged(x) /\ x \in Provisioners
    <2>1. x \in Provisioners /\ Engaged(x)
      BY <1>3 DEF Provisioners, P!Resolve, P!Promote, P!In, Engaged
    <2> QED
      BY <1>1, <1>3, <2>1, ResolveProceeds, PromoteProceeds
  <1> QED
    BY <1>2, <1>3, ProceedsKeeps, EnsureKeeps, CreateKeeps, SaveKeeps, AddMembersKeeps,
       ReportKeeps, FailingKeeps DEF P!ProvisionStep, Provisioners

-----------------------------------------------------------------------------
(* Which chat is the target.                                               *)

HasTarget(c) == mapping.status # "none" /\ mapping.target = c

\* Unless two executions created the chat at once: one execution at a time makes a
\* chat, while there is none; and all that names a chat names that of the mapping.
Targeted ==
  /\ \A x, y \in Backfills : Making(x) /\ Making(y) => x = y
  /\ \A x \in Backfills : Making(x) => mapping.status = "none"
  /\ \A x \in Provisioners : Engaged(x) /\ ~Making(x) => HasTarget(provision[x].chat)
  /\ \A x \in Executors : known[x].status # "none" => HasTarget(known[x].target)
  /\ \A x \in Backfills : ~InPhase(x, "idle") => HasTarget(aim[x])
  /\ \A x \in Executors : InDeliver(x) => HasTarget(aim[x])
  /\ \A m \in Messages : Tried(m) => HasTarget(rowChat[m])
  /\ \A m \in Messages : \A c \in sentTo[m] : HasTarget(c)

\* The strengthening of OneTarget and InOneChat.
TargetInv == OneTarget /\ (raced \/ Targeted)

\* What the executions know of the mapping and of chats.
ChatInv ==
  /\ known \in [Executors -> P!Mapping]
  /\ aim \in [Executors -> P!Chats]
  /\ bound \in [busy : Nat, faults : Nat]
  /\ rowChat \in [Messages -> P!Chats]
  /\ sentTo \in [Messages -> SUBSET P!Chats]
  /\ \A x \in Executors :
        /\ known[x].target <= chats
        /\ known[x].status = "none" => known[x] = P!NoMapping
  /\ \A x \in Backfills : ~InPhase(x, "idle") => known[x].status # "none"

\* A step that leaves the provisioning and what is known of chats alone, or changes
\* the mapping to one with the same target.
LEMMA ProvisionsKeepTarget ==
  ASSUME ProvisionInv, ProvisionInv', TargetInv, NEW x \in Provisioners, Provisions(x),
         UNCHANGED <<vars, chatVars>>
  PROVE  TargetInv'
  <1> DEFINE p == provision[x]
             q == provision'[x]
  <1>0. x \in Adders => ~Making(x)
    BY TransferAssumption DEF TransferAssumption, P!ProvisioningAssumption, ProvisionInv,
       Sound, Making, Engaged, P!In
  <1>1. ~raced' => ~raced
    BY DEF Provisions, Stays, Begins, Creates, Saves, Leaves
  <1>2. \A y \in Provisioners \ {x} :
           /\ Engaged(y)' <=> Engaged(y)
           /\ Making(y)' <=> Making(y)
           /\ provision'[y] = provision[y]
    BY DEF Provisions, Engaged, Making, P!In, P!IsNew
  <1>3. /\ Engaged(x) <=> p.phase # "idle"
        /\ Engaged(x)' <=> q.phase # "idle"
        /\ Making(x) <=> p.phase # "idle" /\ p.old.status = "none"
        /\ Making(x)' <=> q.phase # "idle" /\ q.old.status = "none"
    BY DEF Engaged, Making, P!In, P!IsNew
  <1>4. /\ p.old \in P!Mapping /\ p.chat \in Nat /\ mapping.target \in Nat /\ chats \in Nat
        /\ Sound(x, p, chats) /\ SoundMapping(mapping, chats)
    BY ProvisionTypes
  <1>5. Backfills \subseteq Provisioners
    BY DEF Provisioners
  <1>6. ASSUME ~raced, Engaged(x), ~Making(x) PROVE HasTarget(p.chat) /\ p.chat = p.old.target
    BY <1>3, <1>4, <1>6 DEF TargetInv, Targeted, Sound, P!IsNew
  \* The target stays.
  <1>7. ASSUME ~raced', NEW c, HasTarget(c) PROVE HasTarget(c)'
    <2>1. CASE Saves(x)
      <3>1. ~Making(x)
        BY <1>1, <1>7, <2>1 DEF TargetInv, Targeted, Saves, HasTarget
      <3>2. mapping' = p.old /\ p.old.status # "none"
        BY <1>3, <2>1, <3>1 DEF Saves, P!SavedMapping, P!IsNew
      <3>3. p.old.target = mapping.target
        BY <1>1, <1>6, <1>7, <2>1, <3>1 DEF Saves, HasTarget
      <3> QED
        BY <1>7, <3>2, <3>3 DEF HasTarget
    <2>2. CASE mapping' = mapping
      BY <1>7, <2>2 DEF HasTarget
    <2> QED
      BY <2>1, <2>2 DEF Provisions, Stays, Begins, Creates, Leaves
  <1>8. ASSUME ~raced', Making(x)'
        PROVE  /\ mapping'.status = "none"
               /\ \A y \in Backfills \ {x} : ~Making(y)
    <2>1. CASE Begins(x)
      BY <1>3, <1>8, <2>1 DEF Begins
    <2>2. CASE Stays(x) \/ Creates(x)
      <3>1. Making(x) /\ x \in Backfills /\ mapping' = mapping
        BY <1>0, <1>3, <1>8, <2>2 DEF Stays, Creates, Provisioners
      <3> QED
        BY <1>1, <1>8, <3>1 DEF TargetInv, Targeted
    <2>3. CASE Saves(x)
      BY <1>3, <1>4, <1>8, <2>3 DEF Saves, P!SavedMapping, P!IsNew
    <2> QED
      BY <1>3, <1>8, <2>1, <2>2, <2>3 DEF Provisions, Leaves
  <1>9. ASSUME ~raced', NEW y \in Backfills \ {x}, Making(y)
        PROVE  mapping'.status = "none"
    <2>1. mapping.status = "none"
      BY <1>1, <1>9 DEF TargetInv, Targeted
    <2>2. CASE Saves(x)
      <3>1. Making(x)
        BY <1>1, <1>6, <1>9, <2>1, <2>2 DEF HasTarget, Saves
      <3> QED
        BY <1>1, <1>9, <2>2, <3>1 DEF TargetInv, Targeted, Saves
    <2> QED
      BY <2>1, <2>2 DEF Provisions, Stays, Begins, Creates, Leaves
  <1>10. ASSUME ~raced', Engaged(x)', ~Making(x)'
         PROVE  mapping'.status # "none" /\ mapping'.target = q.chat
    <2>1. CASE Begins(x)
      BY <1>3, <1>10, <2>1 DEF Begins, HasTarget
    <2>2. CASE Stays(x)
      <3>1. Engaged(x) /\ ~Making(x) /\ q.chat = p.chat
        BY <1>3, <1>10, <2>2 DEF Stays
      <3> QED
        BY <1>1, <1>6, <1>7, <1>10, <3>1 DEF HasTarget
    <2>3. CASE Saves(x)
      BY <1>3, <1>10, <2>3 DEF Saves, HasTarget
    <2>4. CASE Creates(x)
      BY <1>3, <1>10, <2>4 DEF Creates
    <2> QED
      BY <1>3, <1>10, <2>1, <2>2, <2>3, <2>4 DEF Provisions, Leaves
  <1>11. raced' \/ Targeted'
    <2> SUFFICES ASSUME ~raced' PROVE Targeted'
      OBVIOUS
    <2>1. Targeted /\ UNCHANGED <<known, aim, rowChat, sentTo, execution, row>>
      BY <1>1 DEF TargetInv, chatVars, vars
    <2>2. \A c : HasTarget(c) => HasTarget(c)'
      BY <1>7
    <2>3. \A y \in Backfills : Making(y)' => mapping'.status = "none"
      BY <1>2, <1>5, <1>8, <1>9
    <2>4. \A y, z \in Backfills : Making(y)' /\ Making(z)' => y = z
      BY <1>2, <1>5, <1>8, <2>1 DEF Targeted
    <2>5. ASSUME NEW y \in Provisioners, Engaged(y)', ~Making(y)'
          PROVE  HasTarget(provision[y].chat)'
      <3>1. CASE y = x
        BY <1>10, <2>5, <3>1 DEF HasTarget
      <3>2. CASE y # x
        <4>1. HasTarget(provision[y].chat) /\ provision'[y] = provision[y]
          BY <1>2, <2>1, <2>5, <3>2 DEF Targeted
        <4> QED
          BY <1>7, <4>1 DEF HasTarget
      <3> QED
        BY <3>1, <3>2
    <2>6. /\ \A y \in Executors : known'[y].status # "none" => HasTarget(known[y].target)'
          /\ \A y \in Backfills : ~InPhase(y, "idle")' => HasTarget(aim[y])'
          /\ \A y \in Executors : InDeliver(y)' => HasTarget(aim[y])'
          /\ \A m \in Messages : Tried(m)' => HasTarget(rowChat[m])'
          /\ \A m \in Messages : \A c \in sentTo'[m] : HasTarget(c)'
      BY <2>1, <2>2 DEF Targeted, HasTarget, Tried, InDeliver, InPhase
    <2> QED
      BY <2>3, <2>4, <2>5, <2>6 DEF Targeted
  <1>12. OneTarget'
    <2> SUFFICES ASSUME ~raced', NEW c \in 1 .. chats'
                 PROVE  \/ c \in cut'
                        \/ mapping'.target = c
                        \/ \E y \in Backfills : Engaged(y)' /\ provision'[y].chat = c
      BY DEF OneTarget, P!OneTarget, Engaged
    <2>1. c \in Nat /\ c # 0 /\ (c \in 1 .. chats \/ (Creates(x) /\ c = chats + 1))
      BY <1>4 DEF Provisions, Stays, Begins, Creates, Saves, Leaves
    <2>2. CASE Creates(x) /\ c = chats + 1
      BY <1>3, <2>2 DEF Creates
    <2>3. CASE c \in 1 .. chats
      <3>1. \/ c \in cut
            \/ mapping.target = c
            \/ \E y \in Backfills : Engaged(y) /\ provision[y].chat = c
        BY <1>1, <2>3 DEF TargetInv, OneTarget, P!OneTarget, Engaged
      <3>2. CASE c \in cut
        BY <3>2 DEF Provisions, Stays, Begins, Creates, Saves, Leaves
      <3>3. CASE mapping.target = c
        <4>1. HasTarget(c)
          BY <1>4, <2>1, <3>3 DEF HasTarget, SoundMapping
        <4> QED
          BY <1>7, <4>1 DEF HasTarget
      <3>4. ASSUME NEW y \in Backfills \ {x}, Engaged(y), provision[y].chat = c
            PROVE  Engaged(y)' /\ provision'[y].chat = c
        BY <1>2, <1>5, <3>4
      <3>5. CASE x \in Backfills /\ Engaged(x) /\ p.chat = c
        <4>1. CASE Stays(x)
          BY <1>3, <3>5, <4>1 DEF Stays
        <4>2. CASE Saves(x)
          <5>1. CASE Making(x)
            BY <3>5, <4>2, <5>1 DEF Saves, P!SavedMapping, Making
          <5>2. CASE ~Making(x)
            <6>1. HasTarget(c)
              BY <1>1, <1>6, <3>5, <5>2
            <6> QED
              BY <1>7, <6>1 DEF HasTarget
          <5> QED
            BY <5>1, <5>2
        <4>3. CASE Leaves(x)
          <5>1. CASE Making(x)
            BY <2>1, <3>5, <4>3, <5>1 DEF Leaves, Making
          <5>2. CASE ~Making(x)
            BY <1>1, <1>6, <3>5, <4>3, <5>2 DEF Leaves, HasTarget
          <5> QED
            BY <5>1, <5>2
        <4> QED
          BY <2>1, <3>5, <4>1, <4>2, <4>3 DEF Provisions, Begins, Creates
      <3> QED
        BY <3>1, <3>2, <3>3, <3>4, <3>5
    <2> QED
      BY <2>1, <2>2, <2>3
  <1> QED
    BY <1>11, <1>12 DEF TargetInv

\* Where a step of the delivery has from what it writes of chats: what x knows of the
\* mapping, the chat it delivers to, the chat of a row, the chats of a message, the
\* mapping itself.
KnownFrom(x) ==
  \/ known'[x] = known[x]
  \/ known'[x] = P!NoMapping
  \/ known'[x] = mapping
  \/ x \in Backfills /\ Engaged(x) /\ ~Making(x) /\ known'[x] = provision[x].old

Aimed(x) == (x \in Backfills /\ ~InPhase(x, "idle")) \/ InDeliver(x)

AimFrom(x) ==
  Aimed(x)' =>
    \/ Aimed(x) /\ aim'[x] = aim[x]
    \/ x \in Backfills /\ Engaged(x) /\ ~Making(x) /\ aim'[x] = provision[x].chat
    \/ \E m \in Messages : Tried(m) /\ aim'[x] = rowChat[m]

RowFrom(m) ==
  Tried(m)' =>
    \/ Tried(m) /\ rowChat'[m] = rowChat[m]
    \/ \E x \in Backfills : Aimed(x) /\ rowChat'[m] = aim[x]

SentFrom(m) ==
  \A c \in sentTo'[m] : c \in sentTo[m] \/ \E x \in Executors : InDeliver(x) /\ c = aim[x]

MappingFrom ==
  \/ mapping' = mapping
  \/ \E x \in Executors : /\ known[x].status # "none"
                          /\ mapping' = [known[x] EXCEPT !.status = "completed"]

ProvisionFrom(x) ==
  \/ provision'[x] = provision[x]
  \/ Engaged(x) /\ ~Making(x) /\ provision'[x] = P!IdleProvision

Chatting ==
  /\ provision' \in [Provisioners -> P!Provision]
  /\ \A x \in Provisioners : ProvisionFrom(x)
  /\ MappingFrom
  /\ \A x \in Executors : KnownFrom(x) /\ AimFrom(x)
  /\ \A m \in Messages : RowFrom(m) /\ SentFrom(m)
  /\ UNCHANGED <<dialog, chats, member, cut, raced>>

LEMMA SavedCompleted ==
  ASSUME ChatInv, NEW x \in Executors, NEW m, m = [known[x] EXCEPT !.status = "completed"]
  PROVE  m \in P!Mapping /\ m.status = "completed" /\ m.target = known[x].target
  BY DEF ChatInv, P!Mapping

LEMMA ChattingKeepsProvision ==
  ASSUME ProvisionInv, ChatInv, Chatting
  PROVE  ProvisionInv'
  <1>1. mapping' \in P!Mapping /\ SoundMapping(mapping', chats)
    BY SavedCompleted DEF Chatting, MappingFrom, ProvisionInv, P!ProvisionTypeOK, ChatInv,
       SoundMapping
  <1>2. ASSUME NEW x \in Provisioners
        PROVE  Sound(x, provision'[x], chats) /\ Placed(provision'[x], member)
    BY ProvisionTypes, IdlePlaced DEF Chatting, ProvisionFrom
  <1>3. UNCHANGED <<dialog, chats, member, cut, raced>>
    BY DEF Chatting
  <1>4. P!ProvisionTypeOK'
    BY <1>1, <1>3 DEF Chatting, ProvisionInv, P!ProvisionTypeOK, Provisioners
  <1> QED
    BY <1>1, <1>2, <1>3, <1>4
       DEF ProvisionInv, SoundMapping, Sound, Placed, Pending, P!Seeds, P!IsNew, P!Alone,
           P!Participants

LEMMA ChattingKeepsTarget ==
  ASSUME ProvisionInv, ChatInv, TargetInv, Chatting
  PROVE  TargetInv'
  <1>1. raced' = raced /\ chats' = chats /\ cut' = cut
    BY DEF Chatting
  <1>2. ASSUME ~raced, NEW x \in Backfills, Engaged(x), ~Making(x)
        PROVE  HasTarget(provision[x].chat) /\ provision[x].old.target = provision[x].chat
    <2>1. x \in Provisioners /\ Sound(x, provision[x], chats)
      BY ProvisionTypes DEF Provisioners
    <2> QED
      BY <1>2, <2>1 DEF TargetInv, Targeted, Sound, Making, Engaged, P!In
  <1>3. ASSUME ~raced, NEW c, HasTarget(c) PROVE HasTarget(c)'
    <2>1. ASSUME NEW x \in Executors, known[x].status # "none",
                 mapping' = [known[x] EXCEPT !.status = "completed"]
          PROVE  HasTarget(c)'
      <3>1. HasTarget(known[x].target)
        BY <1>3, <2>1 DEF TargetInv, Targeted
      <3> QED
        BY <1>3, <2>1, <3>1, SavedCompleted DEF HasTarget
    <2> QED
      BY <1>3, <2>1 DEF Chatting, MappingFrom, HasTarget
  <1>4. \A x \in Provisioners :
           /\ Engaged(x)' => Engaged(x) /\ provision'[x] = provision[x]
           /\ Making(x)' <=> Making(x)
    BY DEF Chatting, ProvisionFrom, Engaged, Making, P!In, P!IsNew, P!IdleProvision
  <1>5. ASSUME ~raced, mapping.status = "none" PROVE mapping' = mapping
    BY <1>5 DEF Chatting, MappingFrom, TargetInv, Targeted, HasTarget
  <1>6. raced' \/ Targeted'
    <2> SUFFICES ASSUME ~raced PROVE Targeted'
      BY <1>1
    <2>1. Targeted /\ \A c : HasTarget(c) => HasTarget(c)'
      BY <1>3 DEF TargetInv
    <2>2. Backfills \subseteq Provisioners
      BY DEF Provisioners
    <2>3. /\ \A x, y \in Backfills : Making(x)' /\ Making(y)' => x = y
          /\ \A x \in Backfills : Making(x)' => mapping'.status = "none"
      BY <1>4, <1>5, <2>1, <2>2 DEF Targeted
    <2>4. ASSUME NEW x \in Provisioners, Engaged(x)', ~Making(x)'
          PROVE  HasTarget(provision[x].chat)'
      <3>1. HasTarget(provision[x].chat) /\ provision'[x] = provision[x]
        BY <1>4, <2>1, <2>4 DEF Targeted
      <3> QED
        BY <1>3, <3>1 DEF HasTarget
    <2>5. ASSUME NEW x \in Executors, known'[x].status # "none"
          PROVE  HasTarget(known[x].target)'
      <3>1. HasTarget(known'[x].target)
        <4>1. KnownFrom(x)
          BY DEF Chatting
        <4> QED
          BY <1>2, <2>1, <2>5, <4>1 DEF KnownFrom, Targeted, HasTarget, P!NoMapping
      <3> QED
        BY <1>3, <3>1 DEF HasTarget
    <2>6. ASSUME NEW x \in Executors, Aimed(x)' PROVE HasTarget(aim[x])'
      <3>1. HasTarget(aim'[x])
        <4>1. AimFrom(x)
          BY DEF Chatting
        <4> QED
          BY <1>2, <2>1, <2>6, <4>1 DEF AimFrom, Targeted, Aimed
      <3> QED
        BY <1>3, <3>1 DEF HasTarget
    <2>7. ASSUME NEW m \in Messages, Tried(m)' PROVE HasTarget(rowChat[m])'
      <3>1. HasTarget(rowChat'[m])
        BY <2>1, <2>7 DEF Chatting, RowFrom, Targeted, Aimed, Executors
      <3> QED
        BY <1>3, <3>1 DEF HasTarget
    <2>8. ASSUME NEW m \in Messages, NEW c \in sentTo'[m] PROVE HasTarget(c)'
      BY <1>3, <2>1, <2>8 DEF Chatting, SentFrom, Targeted
    <2> QED
      BY <2>3, <2>4, <2>5, <2>6, <2>7, <2>8 DEF Targeted, Aimed, Executors
  <1>7. OneTarget'
    <2> SUFFICES ASSUME ~raced, NEW c \in 1 .. chats
                 PROVE  \/ c \in cut
                        \/ mapping'.target = c
                        \/ \E y \in Backfills : Engaged(y)' /\ provision'[y].chat = c
      BY <1>1 DEF OneTarget, P!OneTarget, Engaged
    <2>1. \/ c \in cut
          \/ mapping.target = c
          \/ \E y \in Backfills : Engaged(y) /\ provision[y].chat = c
      BY DEF TargetInv, OneTarget, P!OneTarget, Engaged
    <2>2. ASSUME HasTarget(c) PROVE mapping'.target = c
      BY <1>3, <2>2 DEF HasTarget
    <2>3. CASE mapping.target = c
      BY <1>5, <2>2, <2>3 DEF HasTarget
    <2>4. ASSUME NEW y \in Backfills, Engaged(y), provision[y].chat = c
          PROVE  mapping'.target = c \/ (Engaged(y)' /\ provision'[y].chat = c)
      <3>1. CASE Making(y)
        BY <1>4, <2>4, <3>1 DEF Provisioners, Making, Chatting, ProvisionFrom
      <3>2. CASE ~Making(y)
        BY <1>2, <2>2, <2>4, <3>2
      <3> QED
        BY <3>1, <3>2
    <2> QED
      BY <2>1, <2>3, <2>4
  <1> QED
    BY <1>6, <1>7 DEF TargetInv

\* Nobody takes up a message.
Quieter ==
  /\ \A y \in Executors : InDeliver(y)' => InDeliver(y)
  /\ \A y \in Backfills : InPhase(y, "idle") => InPhase(y, "idle")'
  /\ \A m \in Messages : Tried(m)' => Tried(m)

LEMMA NoFirstClaim ==
  ASSUME TypeInv, OrderInv, [Next]_vars,
         \A x \in Executors : InPhase(x, "claim") => InPhase(x, "claim")'
  PROVE  \A m \in Messages : Tried(m)' => Tried(m)
  <1> SUFFICES ASSUME NEW m \in Messages, Tried(m)' PROVE Tried(m)
    OBVIOUS
  <1>1. ASSUME NEW x \in Executors, Claim(x) PROVE FALSE
    <2>1. InPhase(x, "claim")'
      BY <1>1 DEF Claim
    <2> QED
      BY <1>1, <2>1, ClaimEffect DEF InPhase, Comes, Rests
  <1> QED
    BY <1>1, TriedSteps DEF Executors

\* x moves, and neither begins, nor claims, nor takes up a message.
LEMMA MovesQuietly ==
  ASSUME TypeInv, OrderInv, [Next]_vars, NEW x \in Executors, Moves(x),
         ~InPhase(x, "claim"), InDeliver(x)' => InDeliver(x),
         x \in Backfills => ~InPhase(x, "idle")
  PROVE  Quieter
  <1>1. \A y \in Executors \ {x} : execution'[y].phase = execution[y].phase
    BY DEF Moves
  <1>2. \A y \in Executors : InPhase(y, "claim") => InPhase(y, "claim")'
    BY <1>1 DEF InPhase
  <1> QED
    BY <1>1, <1>2, NoFirstClaim DEF Quieter, InDeliver, InPhase, Executors

\* The chats stay where they are, but for those of an execution that ends.
LEMMA ChatsStay ==
  ASSUME ProvisionInv, ChatInv, TypeInv', Quieter, Forgets \/ UNCHANGED <<known, aim>>,
         UNCHANGED <<dialog, chats, member, cut, raced, provision, bound, rowChat, sentTo>>,
         MappingFrom
  PROVE  Chatting /\ ChatInv'
  <1>1. \A x \in Executors :
           /\ known'[x] \in {known[x], P!NoMapping} /\ aim'[x] \in {aim[x], 0}
           /\ ~InPhase(x, "idle")' => known'[x] = known[x] /\ aim'[x] = aim[x]
    BY DEF Forgets, InPhase
  <1>2. \A x \in Executors : KnownFrom(x) /\ AimFrom(x)
    BY <1>1 DEF KnownFrom, AimFrom, Aimed, Quieter, InDeliver, InPhase
  <1>3. \A m \in Messages : RowFrom(m) /\ SentFrom(m)
    BY DEF RowFrom, SentFrom, Quieter
  <1>4. /\ known' \in [Executors -> P!Mapping] /\ aim' \in [Executors -> P!Chats]
    <2>1. CASE Forgets
      <3>1. \A x \in Executors : known'[x] \in P!Mapping /\ aim'[x] \in P!Chats
        BY <1>1, NoProvision DEF ChatInv
      <3> QED
        BY <2>1, <3>1 DEF Forgets
    <2> QED
      BY <2>1 DEF ChatInv
  <1>5. \A x \in Executors :
           /\ known'[x].target <= chats
           /\ known'[x].status = "none" => known'[x] = P!NoMapping
    BY <1>1 DEF ChatInv, P!NoMapping, ProvisionInv, P!ProvisionTypeOK, P!Chats
  <1>6. \A x \in Backfills : ~InPhase(x, "idle")' => known'[x].status # "none"
    BY <1>1 DEF ChatInv, Quieter, Executors
  <1>7. ChatInv'
    BY <1>4, <1>5, <1>6 DEF ChatInv, InPhase
  <1> QED
    BY <1>2, <1>3, <1>7
       DEF Chatting, ProvisionFrom, ProvisionInv, P!ProvisionTypeOK, Provisioners

LEMMA StartChats ==
  ASSUME TypeInv, OrderInv, ProvisionInv, ChatInv, NEW x \in Backfills, Start(x)
  PROVE  Chatting /\ ChatInv'
  <1> DEFINE p == provision[x]
  <1>1. x \in Executors /\ x \in Provisioners /\ x \notin Replays
    BY DeliveryAssumption DEF Executors, Provisioners
  <1>2. /\ Engaged(x) /\ p.phase = "ready" /\ P!Goes(x, P!IdleProvision)
        /\ known' = [known EXCEPT ![x] = p.old] /\ aim' = [aim EXCEPT ![x] = p.chat]
        /\ UNCHANGED <<dialog, mapping, chats, member, cut, raced, bound, rowChat, sentTo>>
    BY DEF Start, P!In, Engaged
  <1>3. /\ ~P!IsNew(p) /\ p.old \in P!Mapping /\ p.chat \in P!Chats
        /\ p.old.target <= chats /\ p.old.status # "none"
    BY <1>1, <1>2, ProvisionTypes DEF Sound, P!IsNew
  <1>4. Takes(x, P!IdleProvision)
    BY <1>1, <1>2, NoProvision, GoesTo DEF ProvisionInv
  <1>5. \A y \in Provisioners : ProvisionFrom(y)
    BY <1>2, <1>3, <1>4 DEF ProvisionFrom, Takes, Making
  <1>6. Rests(x) /\ row' = row
    BY <1>1, RestEffects DEF Start, StartBackfill
  <1>7. \A y \in Executors \ {x} :
           /\ execution'[y].phase = execution[y].phase
           /\ known'[y] = known[y] /\ aim'[y] = aim[y]
    BY <1>2, <1>6 DEF Rests, Moves, ChatInv
  <1>8. /\ known'[x] = p.old /\ aim'[x] = p.chat
        /\ known' \in [Executors -> P!Mapping] /\ aim' \in [Executors -> P!Chats]
    BY <1>1, <1>2, <1>3 DEF ChatInv
  <1>9. \A y \in Executors : KnownFrom(y) /\ AimFrom(y)
    BY <1>1, <1>2, <1>3, <1>7, <1>8
       DEF KnownFrom, AimFrom, Aimed, InDeliver, InPhase, Making
  <1>10. \A m \in Messages : RowFrom(m) /\ SentFrom(m)
    BY <1>2, <1>6 DEF RowFrom, SentFrom, Tried
  <1>11. Chatting
    BY <1>2, <1>4, <1>5, <1>9, <1>10 DEF Chatting, MappingFrom, Takes
  <1>12. ChatInv'
    BY <1>1, <1>2, <1>3, <1>7, <1>8 DEF ChatInv, InPhase, Executors
  <1> QED
    BY <1>11, <1>12

LEMMA ClaimsChats ==
  ASSUME TypeInv, TypeInv', OrderInv, ProvisionInv, ChatInv, NEW x \in Backfills, Claims(x)
  PROVE  Chatting /\ ChatInv'
  <1>1. /\ x \in Executors /\ At(x) \in Messages
        /\ Claim(x) \/ Reclaim(x)
        /\ Forgets /\ UNCHANGED <<provisionVars, bound, sentTo>>
        /\ ~InPhase(x, "idle") /\ ~InDeliver(x)
    BY ClaimEffect, ReclaimEffect
       DEF Executors, Claims, Claim, Reclaim, InPhase, InDeliver
  <1>2. UNCHANGED <<dialog, mapping, chats, member, cut, raced, provision>>
    BY <1>1 DEF provisionVars
  <1>3. Moves(x)
    BY <1>1, ClaimEffect, ReclaimEffect DEF Writes, Rests
  <1>4. \A y \in Executors \ {x} : execution'[y].phase = execution[y].phase
    BY <1>3 DEF Moves
  <1>5. CASE execution'[x].phase # "send"
    <2>1. row' = row /\ rowChat' = rowChat /\ ~InDeliver(x)'
      BY <1>1, <1>5, ClaimEffect, ReclaimEffect
         DEF Claims, Comes, Rests, InDeliver, InPhase
    <2>2. Quieter
      BY <1>1, <1>4, <2>1 DEF Quieter, Tried, InDeliver, InPhase, Executors
    <2> QED
      BY <1>1, <1>2, <2>1, <2>2, ChatsStay DEF MappingFrom
  <1>6. CASE execution'[x].phase = "send"
    <2>1. rowChat' = [rowChat EXCEPT ![At(x)] = aim[x]]
      BY <1>6 DEF Claims
    <2>2. \A m \in Messages \ {At(x)} : row'[m] = row[m]
      BY <1>1, ClaimEffect, ReclaimEffect DEF Writes
    <2>3. /\ rowChat' \in [Messages -> P!Chats] /\ rowChat'[At(x)] = aim[x]
          /\ \A m \in Messages \ {At(x)} : rowChat'[m] = rowChat[m]
      BY <1>1, <2>1 DEF ChatInv
    <2>4. \A m \in Messages : RowFrom(m) /\ SentFrom(m)
      BY <1>1, <2>2, <2>3 DEF RowFrom, SentFrom, Tried, Aimed
    <2>5. \A y \in Executors :
             /\ known'[y] \in {known[y], P!NoMapping} /\ aim'[y] \in {aim[y], 0}
             /\ ~InPhase(y, "idle")' => known'[y] = known[y] /\ aim'[y] = aim[y]
      BY <1>1 DEF Forgets, InPhase
    <2>6. \A y \in Executors : KnownFrom(y) /\ AimFrom(y)
      BY <1>1, <1>4, <2>5 DEF KnownFrom, AimFrom, Aimed, InDeliver, InPhase
    <2>7. Chatting
      BY <1>2, <2>4, <2>6
         DEF Chatting, ProvisionFrom, MappingFrom, ProvisionInv, P!ProvisionTypeOK,
             Provisioners
    <2>8. known' \in [Executors -> P!Mapping] /\ aim' \in [Executors -> P!Chats]
      <3>1. \A y \in Executors : known'[y] \in P!Mapping /\ aim'[y] \in P!Chats
        BY <2>5, NoProvision DEF ChatInv
      <3> QED
        BY <1>1, <3>1 DEF Forgets
    <2>9. \A y \in Executors :
             /\ known'[y].target <= chats
             /\ known'[y].status = "none" => known'[y] = P!NoMapping
      <3>1. 0 <= chats /\ P!NoMapping.target = 0 /\ P!NoMapping.status = "none"
        BY NoProvision DEF P!NoMapping, ProvisionInv, P!ProvisionTypeOK, P!Chats
      <3>2. \A y \in Executors :
               /\ known[y].target <= chats
               /\ known[y].status = "none" => known[y] = P!NoMapping
        BY DEF ChatInv
      <3> QED
        BY <2>5, <3>1, <3>2
    <2>10. \A y \in Backfills : ~InPhase(y, "idle")' => known'[y].status # "none"
      BY <1>1, <1>4, <2>5 DEF ChatInv, InPhase, Executors
    <2>11. ChatInv'
      BY <1>1, <1>2, <2>3, <2>8, <2>9, <2>10 DEF ChatInv, InPhase
    <2> QED
      BY <2>7, <2>11
  <1> QED
    BY <1>5, <1>6

LEMMA TakesFailedChats ==
  ASSUME TypeInv, TypeInv', OrderInv, ProvisionInv, ChatInv, [Next]_vars, NEW y \in Replays,
         TakesFailed(y)
  PROVE  Chatting /\ ChatInv'
  <1>1. /\ y \in Executors /\ y \notin Backfills /\ TakeFailed(y)
        /\ UNCHANGED <<dialog, mapping, chats, member, cut, raced, provision, known, bound>>
        /\ UNCHANGED <<row, rowChat, sentTo>>
    BY DeliveryAssumption DEF Executors, TakesFailed, TakeFailed, provisionVars
  <1>2. Moves(y)
    BY <1>1, TakeFailedEffect DEF Rests
  <1>3. \A z \in Executors \ {y} : execution'[z].phase = execution[z].phase
    BY <1>2 DEF Moves
  <1>4. CASE execution'[y].phase # "send"
    <2>1. aim' = aim /\ ~InDeliver(y)'
      BY <1>1, <1>4, TakeFailedEffect DEF TakesFailed, Comes, Rests, InDeliver, InPhase
    <2>2. Quieter
      BY <1>1, <1>3, <2>1 DEF Quieter, Tried, InDeliver, InPhase, Executors
    <2> QED
      BY <1>1, <2>1, <2>2, ChatsStay DEF MappingFrom
  <1>5. CASE execution'[y].phase = "send"
    <2>1. PICK m \in Messages : row[m].status = "failed" /\ execution'[y].at = m
      BY <1>1, <1>5, TakeFailedEffect DEF Comes, Rests
    <2>2. aim' = [aim EXCEPT ![y] = rowChat[m]] /\ rowChat[m] \in P!Chats /\ Tried(m)
      BY <1>5, <2>1 DEF TakesFailed, ChatInv, Tried
    <2>3. /\ aim' \in [Executors -> P!Chats] /\ aim'[y] = rowChat[m]
          /\ \A z \in Executors \ {y} : aim'[z] = aim[z]
      BY <1>1, <2>2 DEF ChatInv
    <2>4. \A z \in Executors : KnownFrom(z) /\ AimFrom(z)
      BY <1>1, <1>3, <2>2, <2>3 DEF KnownFrom, AimFrom, Aimed, InDeliver, InPhase
    <2>5. \A n \in Messages : RowFrom(n) /\ SentFrom(n)
      BY <1>1 DEF RowFrom, SentFrom, Tried
    <2>6. Chatting
      BY <1>1, <2>4, <2>5
         DEF Chatting, ProvisionFrom, MappingFrom, ProvisionInv, P!ProvisionTypeOK,
             Provisioners
    <2>7. \A z \in Backfills : ~InPhase(z, "idle")' => known'[z].status # "none"
      BY <1>1, <1>3 DEF ChatInv, InPhase, Executors
    <2>8. ChatInv'
      BY <1>1, <2>3, <2>7 DEF ChatInv, InPhase
    <2> QED
      BY <2>6, <2>8
  <1> QED
    BY <1>4, <1>5

LEMMA ReadMappingChats ==
  ASSUME TypeInv, ProvisionInv, ChatInv, NEW y \in Replays, ReadMapping(y)
  PROVE  Chatting /\ ChatInv'
  <1>1. /\ y \in Executors /\ y \notin Backfills
        /\ known' = [known EXCEPT ![y] = mapping]
        /\ UNCHANGED <<dialog, mapping, chats, member, cut, raced, provision, aim, bound>>
        /\ UNCHANGED <<execution, row, rowChat, sentTo>>
    BY DeliveryAssumption DEF Executors, ReadMapping, provisionVars, vars
  <1>2. /\ mapping \in P!Mapping /\ mapping.target <= chats
        /\ mapping.status = "none" => mapping = P!NoMapping
    BY DEF ProvisionInv, P!ProvisionTypeOK, P!Mapping, SoundMapping, P!NoMapping
  <1>3. /\ known' \in [Executors -> P!Mapping] /\ known'[y] = mapping
        /\ \A z \in Executors \ {y} : known'[z] = known[z]
    BY <1>1, <1>2 DEF ChatInv
  <1>4. Chatting
    BY <1>1, <1>3
       DEF Chatting, ProvisionFrom, MappingFrom, ProvisionInv, P!ProvisionTypeOK,
           Provisioners, KnownFrom, AimFrom, RowFrom, SentFrom, Aimed, InDeliver, InPhase,
           Tried
  <1>5. ChatInv'
    BY <1>1, <1>2, <1>3 DEF ChatInv, InPhase, Executors
  <1> QED
    BY <1>4, <1>5

LEMMA DeliversChats ==
  ASSUME TypeInv, TypeInv', OrderInv, ProvisionInv, ChatInv, [Next]_vars,
         NEW x \in Executors, Delivers(x)
  PROVE  Chatting /\ ChatInv'
  <1>1. /\ HandsKept(x) /\ InDeliver(x) /\ At(x) \in Messages
        /\ UNCHANGED <<dialog, mapping, chats, member, cut, raced, provision>>
        /\ UNCHANGED <<known, aim, bound, rowChat>>
    BY FileStepHands DEF Delivers, provisionVars
  <1>2. /\ \A y \in Executors : InDeliver(y)' => InDeliver(y)
        /\ \A y \in Executors : InPhase(y, "claim") => InPhase(y, "claim")'
        /\ \A y \in Backfills : ~InPhase(y, "idle")' => ~InPhase(y, "idle")
    BY <1>1 DEF HandsKept, InDeliver, InPhase, Executors
  <1>3. \A m \in Messages : Tried(m)' => Tried(m)
    BY <1>2, NoFirstClaim
  <1>4. /\ sentTo' \in [Messages -> SUBSET P!Chats]
        /\ \A m \in Messages : \A c \in sentTo'[m] : c \in sentTo[m] \/ c = aim[x]
    <2>1. CASE sentTo' = sentTo
      BY <2>1 DEF ChatInv
    <2>2. CASE sentTo' = [sentTo EXCEPT ![At(x)] = @ \cup {aim[x]}]
      BY <1>1, <2>2 DEF ChatInv
    <2> QED
      BY <2>1, <2>2 DEF Delivers
  <1>5. Chatting
    BY <1>1, <1>2, <1>3, <1>4
       DEF Chatting, ProvisionFrom, MappingFrom, ProvisionInv, P!ProvisionTypeOK,
           Provisioners, KnownFrom, AimFrom, RowFrom, SentFrom, Aimed
  <1>6. ChatInv'
    BY <1>1, <1>2, <1>4 DEF ChatInv
  <1> QED
    BY <1>5, <1>6

LEMMA FinishingChats ==
  ASSUME TypeInv, TypeInv', OrderInv, ProvisionInv, ChatInv, [Next]_vars,
         NEW x \in Executors,
         \/ x \in Backfills /\ FinishesBackfill(x)
         \/ x \in Replays /\ FinishesReplay(x)
  PROVE  Chatting /\ ChatInv'
  <1>1. /\ InPhase(x, "next") /\ Rests(x) /\ Forgets
        /\ UNCHANGED <<dialog, chats, member, provision, cut, raced, bound, rowChat, sentTo>>
    BY RestEffects
       DEF FinishesBackfill, FinishesReplay, FinishBackfill, FinishReplay
  <1>2. known[x].status # "none"
    <2>1. CASE x \in Backfills
      BY <1>1, <2>1 DEF ChatInv, InPhase
    <2>2. CASE x \notin Backfills
      BY <2>2 DEF ChatInv, FinishesReplay
    <2> QED
      BY <2>1, <2>2
  <1>3. MappingFrom
    BY <1>2 DEF MappingFrom, FinishesBackfill, FinishesReplay, SavesCompleted
  <1>4. Quieter
    BY <1>1, MovesQuietly DEF Rests, InPhase, InDeliver
  <1> QED
    BY <1>1, <1>3, <1>4, ChatsStay

LEMMA RegistersChats ==
  ASSUME TypeInv, TypeInv', OrderInv, ProvisionInv, ChatInv, [Next]_vars, Registers
  PROVE  Chatting /\ ChatInv'
  <1>1. /\ UNCHANGED <<dialog, mapping, chats, member, cut, raced, provision>>
        /\ Forgets /\ UNCHANGED <<bound, rowChat, sentTo>>
    BY DEF Registers, provisionVars
  <1>2. ASSUME NEW x \in Backfills, NextMessage(x) \/ SaveCheckpoint(x) PROVE Quieter
    <2>1. /\ x \in Executors /\ Moves(x) /\ execution[x].phase \in {"next", "save"}
          /\ execution'[x].phase \in {"next", "save", "claim", "idle"}
      BY <1>2, NextMessageEffect, RestEffects
         DEF Executors, Rests, Comes, NextMessage, SaveCheckpoint, InPhase
    <2> QED
      BY <2>1, MovesQuietly DEF InDeliver, InPhase
  <1>3. ASSUME NEW x \in Executors, Marking(x) PROVE Quieter
    <2>1. /\ Moves(x) /\ execution[x].phase \notin {"idle", "claim"}
          /\ execution'[x].phase \notin {"send", "sent"}
      BY <1>3, MarkEffects DEF Marking, Rests, Writes, Comes
    <2> QED
      BY <2>1, MovesQuietly DEF InDeliver, InPhase
  <1>4. ASSUME NEW x \in Executors, Die(x) PROVE Quieter
    <2>1. Rests(x) /\ row' = row /\ ~InPhase(x, "idle")
      BY <1>4, RestEffects DEF Die
    <2> QED
      BY <2>1 DEF Quieter, Rests, Moves, Tried, InDeliver, InPhase, Executors
  <1>5. ASSUME NEW m \in Messages, GrowsStale(m) PROVE Quieter
    <2>1. execution' = execution
      BY <1>5 DEF GrowsStale
    <2> QED
      BY <2>1, NoFirstClaim DEF Quieter, InDeliver, InPhase
  <1>6. Quieter
    BY <1>2, <1>3, <1>4, <1>5 DEF Registers, Marking
  <1> QED
    BY <1>1, <1>6, ChatsStay DEF MappingFrom

\* Every step but those of the provisioning is such a step.
LEMMA ChatStep ==
  ASSUME TypeInv, TypeInv', OrderInv, ProvisionInv, ChatInv, [TransferNext]_transferVars
  PROVE  Provisioning \/ (Chatting /\ ChatInv')
  <1>0. [Next]_vars
    BY TransferStepDelivers
  <1>1. CASE FilesAge \/ UNCHANGED transferVars
    <2>1. /\ execution' = execution
          /\ UNCHANGED <<dialog, mapping, chats, member, cut, raced, provision>>
          /\ UNCHANGED <<known, aim, bound, rowChat, sentTo>>
      BY <1>1 DEF FilesAge, FileAges, StageGrowsStale, OutlastedFiles, Outlasted, vars,
         transferVars, provisionVars, chatVars
    <2>2. Quieter
      BY <1>0, <2>1, NoFirstClaim DEF Quieter, InDeliver, InPhase
    <2> QED
      BY <2>1, <2>2, ChatsStay DEF MappingFrom
  <1>2. ASSUME NEW y \in Replays, StartsReplay(y) PROVE Chatting /\ ChatInv'
    <2>1. /\ y \in Executors /\ y \notin Backfills /\ Rests(y) /\ row' = row
          /\ UNCHANGED <<dialog, mapping, chats, member, cut, raced, provision>>
          /\ UNCHANGED <<known, aim, bound, rowChat, sentTo>>
      BY <1>2, DeliveryAssumption, RestEffects
         DEF Executors, StartsReplay, StartReplay, provisionVars, chatVars
    <2>2. Quieter
      BY <2>1 DEF Quieter, Rests, Moves, Tried, InDeliver, InPhase, Executors
    <2> QED
      BY <2>1, <2>2, ChatsStay DEF MappingFrom
  <1> QED
    BY <1>0, <1>1, <1>2, StartChats, ClaimsChats, TakesFailedChats, ReadMappingChats,
       DeliversChats, FinishingChats, RegistersChats DEF TransferNext, Executors

-----------------------------------------------------------------------------
(* The theorems about chats.                                               *)

ChatsInv == ProvisionInv /\ ChatInv /\ TargetInv

LEMMA ChatsInvInit == TransferInit => ChatsInv
  <1> SUFFICES ASSUME TransferInit PROVE ChatsInv
    OBVIOUS
  <1>1. PICK s \in Settings : P!ProvisionInit(s.dialog, s.mapping) /\ bound = s.bound
    BY DEF TransferInit
  <1>2. /\ s.dialog \in P!Dialog /\ s.mapping \in P!Mapping /\ s.mapping.target = 0
        /\ bound \in [busy : Nat, faults : Nat]
    BY <1>1, TransferAssumption DEF TransferAssumption
  <1>3. /\ dialog = s.dialog /\ mapping = s.mapping /\ chats = 0
        /\ member = [c \in P!Chats |-> {}]
        /\ provision = [x \in Provisioners |-> P!IdleProvision]
        /\ cut = {} /\ raced = FALSE
    BY <1>1 DEF P!ProvisionInit, Provisioners
  <1>4. ProvisionInv
    <2>1. 0 \in Nat
      OBVIOUS
    <2>2. ASSUME NEW x \in Provisioners
          PROVE  /\ Sound(x, provision[x], chats) /\ Placed(provision[x], member)
      <3>1. provision[x] = P!IdleProvision
        BY <1>3
      <3> QED
        BY <1>3, <2>1, <3>1, IdlePlaced
    <2>3. /\ member \in [P!Chats -> SUBSET People]
          /\ provision \in [Backfills \cup Adders -> P!Provision]
      BY <1>3, NoProvision DEF Provisioners
    <2>4. P!ProvisionTypeOK
      BY <1>2, <1>3, <2>3, NoProvision DEF P!ProvisionTypeOK
    <2>5. SoundMapping(mapping, chats)
      BY <1>2, <1>3 DEF SoundMapping
    <2> QED
      BY <2>2, <2>4, <2>5 DEF ProvisionInv
  <1>5. \A x \in Executors : execution[x].phase = "idle"
    BY DEF TransferInit, Init, IdleExecution
  <1>6. ChatInv
    BY <1>2, <1>3, <1>5, NoProvision
       DEF TransferInit, ChatInv, P!NoMapping, InPhase, Executors
  <1>7. Targeted
    BY <1>3, <1>5
       DEF TransferInit, Init, Targeted, Making, Engaged, P!In, P!IdleProvision,
           P!NoMapping, InPhase, InDeliver, Tried, NoRow, Provisioners, Executors
  <1>8. OneTarget
    BY <1>3 DEF OneTarget, P!OneTarget
  <1> QED
    BY <1>4, <1>6, <1>7, <1>8 DEF ChatsInv, TargetInv

LEMMA ChatsInvStep ==
  TypeInv /\ OrderInv /\ ChatsInv /\ [TransferNext]_transferVars => ChatsInv'
  <1> SUFFICES ASSUME TypeInv, OrderInv, ChatsInv, [TransferNext]_transferVars
               PROVE  ChatsInv'
    OBVIOUS
  <1>1. TypeInv' /\ ProvisionInv /\ ChatInv /\ TargetInv
    BY TransferStepDelivers, TypeInvStep DEF ChatsInv
  <1>2. CASE Provisioning
    <2>1. P!ProvisionStep /\ UNCHANGED <<vars, chatVars>>
      BY <1>2 DEF Provisioning
    <2>2. PICK x \in Provisioners : ProvisionInv' /\ Provisions(x)
      BY <1>1, <2>1, ProvisionStepKeeps
    <2>3. TargetInv'
      BY <1>1, <2>1, <2>2, ProvisionsKeepTarget
    <2>4. chats <= chats' /\ chats \in Nat /\ chats' \in Nat
      <3>1. chats \in Nat
        BY <1>1, <2>2, ProvisionTypes
      <3> QED
        BY <2>2, <3>1 DEF Provisions, Stays, Begins, Creates, Saves, Leaves
    <2>5. UNCHANGED <<execution, known, aim, bound, rowChat, sentTo>>
      BY <2>1 DEF vars, chatVars
    <2>6. \A y \in Executors : known[y].target <= chats'
      <3>1. \A y \in Executors : known[y].target <= chats /\ known[y].target \in Nat
        BY <1>1 DEF ChatInv, P!Mapping, P!Chats
      <3> QED
        BY <2>4, <3>1
    <2>7. ChatInv'
      BY <1>1, <2>5, <2>6 DEF ChatInv, InPhase
    <2> QED
      BY <2>2, <2>3, <2>7 DEF ChatsInv
  <1>3. CASE Chatting /\ ChatInv'
    BY <1>1, <1>3, ChattingKeepsProvision, ChattingKeepsTarget DEF ChatsInv
  <1> QED
    BY <1>1, <1>2, <1>3, ChatStep

\* The transfer keeps the invariants of the delivery, and those of the chats.
THEOREM ChatsAreSound == TransferSpec => []ChatsInv
  <1>1. TransferInit => TypeInv /\ OrderInv
    BY TypeInvInit, OrderInvInit DEF TransferInit
  <1>2. TypeInv /\ [TransferNext]_transferVars => TypeInv'
    BY TransferStepDelivers, TypeInvStep
  <1>3. TypeInv /\ OrderInv /\ [TransferNext]_transferVars => OrderInv'
    BY TransferStepDelivers, OrderInvStep
  <1> QED
    BY <1>1, <1>2, <1>3, ChatsInvInit, ChatsInvStep, PTL DEF TransferSpec

\* A chat that was created is the target of the mapping, or is being provisioned, unless
\* its creator was cut off or two executions created the chat at once, for every number
\* of executions, of /retry_failed and of /add_users: each saves the mapping as it has
\* read it, and none of them another chat than the one there is.
THEOREM OneChatIsTheTarget == TransferSpec => []OneTarget
  <1>1. ChatsInv => OneTarget
    BY DEF ChatsInv, TargetInv
  <1> QED
    BY <1>1, ChatsAreSound, PTL

\* No message reaches a chat but the target of the mapping, unless two executions
\* created the chat at once: a backfill has the chat from its provisioning, and
\* /retry_failed from the row that a backfill wrote.
THEOREM MessagesStayInOneChat == TransferSpec => []InOneChat
  <1>1. ChatsInv => InOneChat
    BY DEF ChatsInv, TargetInv, Targeted, HasTarget, InOneChat, ChatInv
  <1> QED
    BY <1>1, ChatsAreSound, PTL

\* When the result of direct adding is reported, each participant who was resolved is in
\* the chat or is reported as failed, for any number of people, of servers and of
\* executions that add people to one chat at once.
THEOREM ParticipantsAreAccountedFor == TransferSpec => []NobodyForgotten
  <1>1. ChatsInv => NobodyForgotten
    <2> SUFFICES ASSUME ProvisionInv, NEW x \in Provisioners, P!In(x, "report"),
                        dialog.access = "direct_add"
                 PROVE  provision[x].targets \subseteq
                          member[provision[x].chat] \cup provision[x].failed
      BY DEF ChatsInv, NobodyForgotten, P!NobodyForgotten, Provisioners
    <2>1. Placed(provision[x], member) /\ provision[x].phase = "report"
      BY DEF ProvisionInv, P!In
    <2> QED
      BY <2>1 DEF Placed, Pending, Reaching
  <1> QED
    BY <1>1, ChatsAreSound, PTL

\* The transfer keeps the shape of the provisioning, of the delivery and of its
\* attachments, for every number of executions, messages and files: no step writes a row,
\* a mapping or a piece of work that the others could not read.
THEOREM TransferTypeCorrect == TransferSpec => []TransferTypeOK
  <1>1. TransferInit => TypeInv
    BY TypeInvInit DEF TransferInit
  <1>2. TypeInv /\ [TransferNext]_transferVars => TypeInv'
    BY TransferStepDelivers, TypeInvStep
  <1>3. TypeInv /\ FileInv /\ ChatsInv => TransferTypeOK
    BY DEF TypeInv, FileInv, ChatsInv, ProvisionInv, ChatInv, TransferTypeOK
  <1> QED
    BY <1>1, <1>2, <1>3, FileInvInit, FileInvStep, ChatsAreSound, PTL DEF TransferSpec

-----------------------------------------------------------------------------
(* The order of the work on the files of a message.                        *)

PlainRow(r) == r.why # "none" => r.status \in {"failed", "ambiguous"}

\* What a mark says of a file.
Said(r) == r.status \in {"imported", "skipped", "failed", "ambiguous"} /\ PlainRow(r)

Preparing(w) == w.step = "prepare" \/ w.why \in {"skip", "download"}

InUpload(w) == w.step \in {"stage", "restage", "upload", "send"}

\* The work fits where deliver() stands: the files of a message that is not in the chat
\* are prepared before it is sent, those of one that is are prepared after; a file is
\* claimed inline only after it went with its message; and only follow-ups are sent.
Fits(phase, reuse, w) ==
  /\ phase = "send" /\ reuse => w.step \in {"prepare", "return"}
  /\ phase = "sent" /\ ~reuse => ~Preparing(w)
  /\ w.why = "deliver" => phase = "sent"
  /\ w.why = "inline" =>
       /\ ~reuse
       /\ phase = "send" <=> w.step \notin {"claim", "retake", "mark"}
  /\ w.step = "send" => w.why = "deliver"
  /\ w.step = "primary" => phase = "send" /\ ~Preparing(w)
  /\ w.step = "return" => w.file = 0 /\ w.why = "none" /\ w.prepared = {}
  /\ w.step = "prepare" => w.why = "none"
  /\ w.step \in {"claim", "retake", "mark"} => w.why # "none"
  /\ w.step = "mark" => Said(w.writes) /\ (w.why = "inline" => w.writes = ImportedFile)
  /\ w.file \notin w.prepared
  /\ Preparing(w) => \A g \in w.prepared : g < w.file

\* File f is still to be dealt with.
Left(w, f) ==
  \/ f \in w.prepared
  \/ IF Preparing(w) THEN f >= w.file
     ELSE f = w.file /\ ~(w.step = "primary" /\ w.held = "none")

\* The upload of f has not been claimed.
Unstaged(w, f) ==
  \/ f \in w.prepared
  \/ Preparing(w) /\ f >= w.file
  \/ f = w.file /\ w.step = "stage"
  \/ f = w.file /\ w.step \in {"claim", "retake"} /\ w.why = "deliver"

\* Where the work goes when it is done with a file: to the preparation of another, to
\* the message, to the upload of the file that goes with it, to a follow-up, or back.
Anew(phase, reuse, w) ==
  \/ w.step \in {"prepare", "primary", "return"}
  \/ w.step = "claim" /\ w.why = "deliver"
  \/ w.step = "stage" /\ w.why = "inline" /\ phase = "send" /\ ~reuse

LEMMA OnwardFits ==
  ASSUME NEW w \in Work, NEW reuse \in BOOLEAN, NEW phase \in {"send", "sent"},
         phase = "sent" \/ w.prepared = {}
  PROVE  /\ Fits(phase, reuse, Onward(w)) /\ Anew(phase, reuse, Onward(w))
         /\ \A f \in File : f \in w.prepared => Left(Onward(w), f)
         /\ \A f \in File : Unstaged(Onward(w), f) => f \in w.prepared
  <1>1. CASE w.prepared = {}
    <2> DEFINE v == [w EXCEPT !.step = "return", !.file = 0, !.why = "none"]
    <2>1. Onward(w) = v
      BY <1>1 DEF Onward
    <2>2. v.step = "return" /\ v.file = 0 /\ v.why = "none" /\ v.prepared = {}
      BY <1>1 DEF Work
    <2> HIDE DEF v
    <2>3. \A f \in File : f # 0
      BY DEF File
    <2> QED
      BY <1>1, <2>1, <2>2, <2>3 DEF Fits, Anew, Left, Unstaged, Preparing
  <1>2. CASE w.prepared # {}
    <2>1. PICK f \in w.prepared : f = Min(w.prepared)
      BY <1>2, FirstFile DEF Work
    <2> DEFINE v == [w EXCEPT !.step = "claim", !.why = "deliver", !.file = f,
                              !.prepared = @ \ {f}]
    <2>2. Onward(w) = v
      BY <1>2, <2>1 DEF Onward
    <2>3. /\ v.step = "claim" /\ v.why = "deliver" /\ v.file = f
          /\ v.prepared = w.prepared \ {f}
      BY DEF Work
    <2> HIDE DEF v
    <2> QED
      BY <1>2, <2>1, <2>2, <2>3 DEF Fits, Anew, Left, Unstaged, Preparing
  <1> QED
    BY <1>1, <1>2

LEMMA SingleFile ==
  ASSUME NEW S \in SUBSET File, Cardinality(S) = 1
  PROVE  S = {Min(S)}
  <1>1. IsFiniteSet(File)
    BY FS_Interval, AttachmentAssumption DEF AttachmentAssumption, File
  <1>2. IsFiniteSet(S)
    BY <1>1, FS_Subset
  <1>3. PICK f : S = {f}
    BY <1>2, FS_Singleton
  <1> QED
    BY <1>3, FirstFile

LEMMA PreparedFits ==
  ASSUME NEW m \in Messages, NEW w \in Work, NEW reuse \in BOOLEAN,
         NEW phase \in {"send", "sent"}, files[m] \in 0 .. MaxFiles,
         w.held = "none", \A g \in w.prepared : g <= w.file,
         IF reuse THEN phase = "sent" \/ w.prepared = {} ELSE phase = "send"
  PROVE  LET v == Prepared(m, reuse, w)
         IN  /\ Fits(phase, reuse, v) /\ Anew(phase, reuse, v)
             /\ \A f \in 1 .. files[m] : f \in w.prepared \/ f > w.file => Left(v, f)
             /\ \A f \in File : Unstaged(v, f) => f \in w.prepared \/ f > w.file
  <1>1. w.file \in Nat /\ files[m] \in Nat /\ w.prepared \subseteq File /\ File \subseteq Nat
    BY AttachmentAssumption DEF AttachmentAssumption, Work, File
  <1>2. \A f \in 1 .. files[m] : f \in File
    BY AttachmentAssumption DEF AttachmentAssumption, File
  <1>3. CASE w.file < files[m]
    <2> DEFINE v == [w EXCEPT !.step = "prepare", !.file = @ + 1, !.why = "none"]
    <2>1. Prepared(m, reuse, w) = v
      BY <1>3 DEF Prepared
    <2>2. /\ v.step = "prepare" /\ v.file = w.file + 1
          /\ v.why = "none" /\ v.prepared = w.prepared
      BY DEF Work
    <2> HIDE DEF v
    <2>3. \A g \in v.prepared : g < v.file
      <3>1. \A g \in w.prepared : g \in Nat /\ g <= w.file
        BY <1>1
      <3> QED
        BY <1>1, <2>2, <3>1
    <2>4. v.file \notin v.prepared
      BY <1>1, <2>2, <2>3
    <2>5. Fits(phase, reuse, v) /\ Anew(phase, reuse, v)
      BY <2>2, <2>3, <2>4 DEF Fits, Anew, Preparing
    <2>6. \A f \in File : f > w.file <=> f >= v.file
      BY <1>1, <2>2
    <2> QED
      BY <1>2, <2>1, <2>2, <2>5, <2>6 DEF Left, Unstaged, Preparing
  <1>4. CASE ~(w.file < files[m]) /\ reuse
    <2>1. Prepared(m, reuse, w) = Onward(w)
      BY <1>4 DEF Prepared
    <2>2. \A f \in 1 .. files[m] : ~(f > w.file)
      BY <1>1, <1>4
    <2> QED
      BY <1>2, <1>4, <2>1, <2>2, OnwardFits
  <1>5. CASE ~(w.file < files[m]) /\ ~reuse /\ Cardinality(w.prepared) = 1
    <2>1. w.prepared = {Min(w.prepared)}
      BY <1>1, <1>5, SingleFile
    <2>2. PICK f : f = Min(w.prepared)
      OBVIOUS
    <2> DEFINE v == [w EXCEPT !.step = "stage", !.why = "inline", !.file = f, !.prepared = {}]
    <2>3. Prepared(m, reuse, w) = v
      BY <1>5, <2>2 DEF Prepared
    <2>4. v.step = "stage" /\ v.why = "inline" /\ v.file = f /\ v.prepared = {}
      BY DEF Work
    <2> HIDE DEF v
    <2>5. \A g \in 1 .. files[m] : ~(g > w.file)
      BY <1>1, <1>5
    <2> QED
      BY <1>5, <2>1, <2>2, <2>3, <2>4, <2>5 DEF Fits, Anew, Left, Unstaged, Preparing
  <1>6. CASE ~(w.file < files[m]) /\ ~reuse /\ Cardinality(w.prepared) # 1
    <2> DEFINE v == [w EXCEPT !.step = "primary", !.why = "none", !.file = 0]
    <2>1. Prepared(m, reuse, w) = v
      BY <1>6 DEF Prepared
    <2>2. v.step = "primary" /\ v.why = "none" /\ v.file = 0 /\ v.prepared = w.prepared
      BY DEF Work
    <2> HIDE DEF v
    <2>3. \A g \in 1 .. files[m] : ~(g > w.file)
      BY <1>1, <1>6
    <2>4. 0 \notin v.prepared
      BY <1>1, <2>2 DEF File
    <2> QED
      BY <1>6, <2>1, <2>2, <2>3, <2>4 DEF Fits, Anew, Left, Unstaged, Preparing
  <1> QED
    BY <1>3, <1>4, <1>5, <1>6

LEMMA BeginFits ==
  ASSUME NEW m \in Messages, NEW reuse \in BOOLEAN, files[m] \in 0 .. MaxFiles
  PROVE  LET v == Begin(m, reuse)
         IN  /\ Fits("send", reuse, v) /\ v.step \in {"prepare", "primary", "return"}
             /\ \A f \in 1 .. files[m] : Left(v, f)
  <1>1. NoWork \in Work /\ NoWork.held = "none" /\ NoWork.prepared = {} /\ NoWork.file = 0
    BY NoWorkTyped DEF NoWork
  <1> DEFINE v == Prepared(m, reuse, NoWork)
  <1>2. /\ Fits("send", reuse, v)
        /\ \A f \in 1 .. files[m] : f \in NoWork.prepared \/ f > NoWork.file => Left(v, f)
    BY <1>1, PreparedFits
  <1>3. \A f \in 1 .. files[m] : f > 0
    OBVIOUS
  <1>4. v.step \in {"prepare", "primary", "return"}
    <2>1. CASE 0 < files[m]
      BY <1>1, <2>1 DEF Prepared, Work
    <2>2. CASE ~(0 < files[m]) /\ reuse
      BY <1>1, <2>2 DEF Prepared, Onward, Work
    <2>3. CASE ~(0 < files[m]) /\ ~reuse
      BY <1>1, <2>3, FS_EmptySet DEF Prepared, Work
    <2> QED
      BY <2>1, <2>2, <2>3
  <1> QED
    BY <1>1, <1>2, <1>3, <1>4 DEF Begin

-----------------------------------------------------------------------------
(* A file is sent once, and none is forgotten.                             *)

FitInv ==
  /\ \A x \in Executors : InDeliver(x) => Fits(execution[x].phase, execution[x].reuse, work[x])
  /\ \A m \in Messages : \A f \in File : PlainRow(attachment[m][f])

\* A row that keeps its file from being sent: nothing turns it into another one.
Lasting == {"imported", "skipped", "ambiguous", "processing"}

\* The file went with its message, and its row is not written yet.
GoesInline(phase, w, f) == phase = "sent" /\ w.why = "inline" /\ w.file = f

\* The work will send the file in hand, or calls it failed.
Sends(w) ==
  \/ InUpload(w)
  \/ w.step = "retake" /\ w.why # "inline"
  \/ w.step = "claim" /\ w.why = "upload"
  \/ w.step = "mark" /\ w.writes.status = "failed"

\* If so the file is not in the chat, and a follow-up has its row.  posts, rows: the
\* copies of the files of the message and the rows.
NotSent(w, posts, rows) ==
  /\ Sends(w) => posts[w.file] = 0
  /\ InUpload(w) /\ w.why = "deliver" => rows[w.file].status = "processing"
  /\ w.step = "claim" /\ w.why \in {"skip", "download"} =>
       posts[w.file] = 0 \/ rows[w.file].status \in {"processing", "ambiguous"}

\* The strengthening of FilesOnce.
OnceFile(m) ==
  /\ \A f \in File :
        /\ filed[m][f] <= 1
        /\ filed[m][f] = 1 =>
             /\ copies[m] > 0
             /\ \/ attachment[m][f].status \in Lasting
                \/ \E x \in Executors :
                      At(x) = m /\ GoesInline(execution[x].phase, work[x], f)
  /\ \A x \in Executors :
        InDeliver(x) /\ At(x) = m /\ work[x].file \in File =>
          NotSent(work[x], filed[m], attachment[m])

\* The registry knows of the file, after n faults.
Handled(r, n) == r.status # "absent" /\ (r.status = "processing" => n > 0)

Complete(m) == \A f \in 1 .. files[m] : Handled(attachment[m][f], faults)

\* The row in processing is that of the work in hand.
Owning(w) ==
  \/ w.step = "mark"
  \/ w.why = "deliver" /\ InUpload(w)
  \/ w.why = "upload" /\ w.step = "claim"

\* The strengthening of FilesAccounted: a file is left to do as long as the registry
\* does not know of it, and a row in processing is somebody's or was left by a fault.
AccountInv(m) ==
  /\ row[m].status = "imported" => Complete(m)
  /\ \A x \in Executors : At(x) = m /\ InPhase(x, "imported") => Complete(m)
  /\ \A x \in Executors : At(x) = m /\ InDeliver(x) =>
        \A f \in 1 .. files[m] : Handled(attachment[m][f], faults) \/ Left(work[x], f)
  /\ \A f \in File : attachment[m][f].status = "processing" =>
        \/ faults > 0
        \/ \E x \in Executors :
              At(x) = m /\ InDeliver(x) /\ work[x].file = f /\ Owning(work[x])

NoFailedUpload(s) == \A c \in Targets : s[c].status # "failed"

\* Without a fault, no upload has failed that a backfill has still to claim: it would
\* go by the row of the attachment, which it has itself claimed.
CalmFiles(m) ==
  /\ row[m].status = "absent" => \A f \in File : NoFailedUpload(stage[m][f])
  /\ \A x \in Backfills : At(x) = m /\ InDeliver(x) =>
       \A f \in File : Unstaged(work[x], f) => NoFailedUpload(stage[m][f])

MessageInv(m) == OnceFile(m) /\ AccountInv(m) /\ (faults = 0 => CalmFiles(m))

MessagesInv == \A m \in Messages \ doubtful : MessageInv(m)

\* What a step of x inside deliver() leaves alone.
Frame(x) ==
  /\ HandsKept(x)
  /\ \A y \in Executors : execution'[y].reuse = execution[y].reuse
  /\ \A y \in Executors \ {x} : work'[y] = work[y]
  /\ files' = files /\ row' = row
  /\ \A m \in Messages : \A f \in File : m # At(x) \/ f # work[x].file =>
        /\ attachment'[m][f] = attachment[m][f]
        /\ filed'[m][f] = filed[m][f]
        /\ stage'[m][f] = stage[m][f]
  /\ \A m \in Messages : copies[m] \in Nat /\ copies'[m] \in Nat /\ copies'[m] >= copies[m]
  /\ faults \in Nat /\ faults' \in Nat /\ faults' >= faults
  /\ doubtful \subseteq doubtful'

\* The file in hand of x, in message m, after a step.
FileAfter(x, m, f) ==
  /\ filed'[m][f] <= 1
  /\ filed'[m][f] = 1 =>
       /\ copies'[m] > 0
       /\ attachment'[m][f].status \in Lasting \/ GoesInline(execution'[x].phase, work'[x], f)
  /\ f \in 1 .. files[m] /\ (Handled(attachment[m][f], faults) \/ Left(work[x], f)) =>
       Handled(attachment'[m][f], faults') \/ Left(work'[x], f)
  /\ attachment'[m][f].status = "processing" =>
       faults' > 0 \/ (work'[x].file = f /\ Owning(work'[x]))
  /\ x \in Backfills /\ faults' = 0 /\ Unstaged(work'[x], f) => NoFailedUpload(stage'[m][f])

\* x goes on inside deliver().
Progresses(x) ==
  /\ InDeliver(x)'
  /\ Fits(execution'[x].phase, execution[x].reuse, work'[x])
  /\ work[x].file \in File => PlainRow(attachment'[At(x)][work[x].file])
  /\ At(x) \notin doubtful' =>
       /\ work'[x].file \in File => NotSent(work'[x], filed'[At(x)], attachment'[At(x)])
       /\ work[x].file \in File => FileAfter(x, At(x), work[x].file)
       /\ \A f \in File \ {work[x].file} :
             /\ f \in 1 .. files[At(x)] /\ Left(work[x], f) => Left(work'[x], f)
             /\ x \in Backfills /\ faults' = 0 /\ Unstaged(work'[x], f) =>
                  Unstaged(work[x], f)

\* x leaves deliver().
Finishes(x) ==
  /\ ~InDeliver(x)'
  /\ work[x].file \in File => PlainRow(attachment'[At(x)][work[x].file])
  /\ At(x) \notin doubtful' =>
       /\ \A f \in File : /\ attachment'[At(x)][f] = attachment[At(x)][f]
                          /\ filed'[At(x)][f] = filed[At(x)][f]
       /\ \A f \in File : ~GoesInline(execution[x].phase, work[x], f)
       /\ execution'[x].phase = "imported" => \A f \in File : ~Left(work[x], f)
       /\ faults' > 0 \/ ~Owning(work[x])

\* Nobody else has the message of x in hand.
Alone(x) == \A y \in Executors \ {x} : ~Holds(y, At(x))

LEMMA OneDeliverer ==
  ASSUME TypeInv, SendInv, NEW x \in Executors, InDeliver(x), At(x) \in Messages,
         At(x) \notin doubtful
  PROVE  /\ Alone(x)
         /\ row[At(x)].status \notin {"absent", "imported"}
         /\ InPhase(x, "send") /\ ~execution[x].reuse => copies[At(x)] = 0
  <1> DEFINE m == At(x)
  <1>1. OnceInv(m) /\ Holds(x, m)
    BY DEF SendInv, Holds, InDeliver, InPhase
  <1>2. Alone(x)
    BY <1>1 DEF OnceInv, Alone
  <1>3. HeldRow(x, m) /\ AtWork(x, m) /\ (x \in Backfills \/ x \in Replays)
    BY <1>1 DEF OnceInv, AtWork, InDeliver, InPhase, Executors
  <1>4. row[m].status \notin {"absent", "imported"}
    BY <1>3 DEF HeldRow
  <1>5. ASSUME InPhase(x, "send"), ~execution[x].reuse PROVE copies[m] = 0
    <2>1. ~row[m].sync
      BY <1>1, <1>3, <1>5 DEF HeldRow, OnceInv, RowShape
    <2>2. ~\E y \in Executors : SentHere(y, m)
      BY <1>2, <1>5 DEF SentHere, SentUnrecorded, Alone, Holds, InPhase
    <2>3. copies[m] \in Nat /\ copies[m] <= 1 /\ copies[m] # 1
      BY <1>1, <2>1, <2>2 DEF OnceInv, TypeInv, TypeOK
    <2> QED
      BY <2>3
  <1> QED
    BY <1>2, <1>4, <1>5

\* The invariants that a step of x inside deliver() finds.
Tracked(x) ==
  /\ TypeInv /\ FileInv /\ CopyInv /\ SendInv /\ FitInv /\ MessagesInv
  /\ InDeliver(x) /\ At(x) \in Messages

LEMMA FileTypes ==
  ASSUME FileInv, AttachmentAssumption
  PROVE  /\ \A m \in Messages : files[m] \in 0 .. MaxFiles
         /\ \A m \in Messages : \A f \in 1 .. files[m] : f \in File
         /\ \A m \in Messages : \A f \in File : filed[m][f] \in Nat
  <1>1. files \in [Messages -> 0 .. MaxFiles] /\ filed \in [Messages -> [File -> Nat]]
    BY DEF FileInv, FilesTypeOK
  <1> QED
    BY <1>1 DEF AttachmentAssumption, File

\* The other messages stay as they are.
LEMMA OthersKeep ==
  ASSUME NEW x \in Executors, Tracked(x), Frame(x),
         NEW m \in Messages \ doubtful', m # At(x)
  PROVE  MessageInv(m)'
  <1>1. MessageInv(m)
    BY DEF Tracked, MessagesInv, Frame
  <1>2. \A f \in File : /\ attachment'[m][f] = attachment[m][f]
                        /\ filed'[m][f] = filed[m][f]
                        /\ stage'[m][f] = stage[m][f]
    BY DEF Frame
  <1>3. /\ row'[m] = row[m] /\ files'[m] = files[m]
        /\ copies[m] \in Nat /\ copies'[m] \in Nat /\ copies'[m] >= copies[m]
        /\ faults \in Nat /\ faults' \in Nat /\ faults' >= faults
    BY DEF Frame
  <1>4. \A y \in Executors : /\ At(y)' = At(y)
                             /\ At(y) = m => y # x
    BY DEF Frame, HandsKept, At
  <1>5. \A y \in Executors : At(y) = m =>
          /\ execution'[y].phase = execution[y].phase
          /\ work'[y] = work[y]
          /\ InDeliver(y)' <=> InDeliver(y)
          /\ InPhase(y, "imported")' <=> InPhase(y, "imported")
    BY <1>4 DEF Frame, HandsKept, InDeliver, InPhase
  <1>6. \A f \in 1 .. files[m] : f \in File
    BY FileTypes, AttachmentAssumption DEF Tracked
  <1>7. OnceFile(m)'
    <2>1. ASSUME NEW f \in File
          PROVE  /\ filed'[m][f] <= 1
                 /\ filed'[m][f] = 1 =>
                      /\ copies'[m] > 0
                      /\ \/ attachment'[m][f].status \in Lasting
                         \/ \E y \in Executors :
                               At(y)' = m /\ GoesInline(execution'[y].phase, work'[y], f)
      <3>1. /\ filed[m][f] <= 1
            /\ filed[m][f] = 1 =>
                 /\ copies[m] > 0
                 /\ \/ attachment[m][f].status \in Lasting
                    \/ \E y \in Executors :
                          At(y) = m /\ GoesInline(execution[y].phase, work[y], f)
        BY <1>1 DEF MessageInv, OnceFile
      <3> QED
        BY <1>2, <1>3, <1>4, <1>5, <3>1
    <2>2. ASSUME NEW y \in Executors, InDeliver(y)', At(y)' = m, work'[y].file \in File
          PROVE  NotSent(work'[y], filed'[m], attachment'[m])
      <3>1. /\ work'[y] = work[y] /\ work[y].file \in File
            /\ NotSent(work[y], filed[m], attachment[m])
        BY <1>1, <1>4, <1>5, <2>2 DEF MessageInv, OnceFile
      <3> QED
        BY <1>2, <3>1 DEF NotSent
    <2> QED
      BY <2>1, <2>2 DEF OnceFile
  <1>8. AccountInv(m)'
    <2>1. ASSUME NEW f \in File
          PROVE  Handled(attachment[m][f], faults) => Handled(attachment'[m][f], faults')
      BY <1>2, <1>3 DEF Handled
    <2>2. Complete(m) => Complete(m)'
      BY <1>3, <1>6, <2>1 DEF Complete
    <2>3. ASSUME NEW f \in File, attachment'[m][f].status = "processing"
          PROVE  \/ faults' > 0
                 \/ \E y \in Executors :
                       At(y)' = m /\ InDeliver(y)' /\ work'[y].file = f /\ Owning(work'[y])
      <3>1. \/ faults > 0
            \/ \E y \in Executors :
                  At(y) = m /\ InDeliver(y) /\ work[y].file = f /\ Owning(work[y])
        BY <1>1, <1>2, <2>3 DEF MessageInv, AccountInv
      <3> QED
        BY <1>3, <1>4, <1>5, <3>1
    <2>4. ASSUME NEW y \in Executors, At(y)' = m, InDeliver(y)', NEW f \in 1 .. files'[m]
          PROVE  Handled(attachment'[m][f], faults') \/ Left(work'[y], f)
      <3>1. Handled(attachment[m][f], faults) \/ Left(work[y], f)
        BY <1>1, <1>3, <1>4, <1>5, <2>4 DEF MessageInv, AccountInv
      <3> QED
        BY <1>3, <1>4, <1>5, <1>6, <2>1, <2>4, <3>1
    <2>5. row'[m].status = "imported" => Complete(m)'
      BY <1>1, <1>3, <2>2 DEF MessageInv, AccountInv
    <2>6. \A y \in Executors : At(y)' = m /\ InPhase(y, "imported")' => Complete(m)'
      BY <1>1, <1>4, <1>5, <2>2 DEF MessageInv, AccountInv
    <2> QED
      BY <2>3, <2>4, <2>5, <2>6 DEF AccountInv
  <1>9. faults' = 0 => CalmFiles(m)'
    <2>1. faults' = 0 => CalmFiles(m)
      BY <1>1, <1>3 DEF MessageInv
    <2>2. \A f \in File : NoFailedUpload(stage[m][f]) => NoFailedUpload(stage'[m][f])
      BY <1>2
    <2>3. \A y \in Backfills : y \in Executors
      BY DEF Executors
    <2> QED
      BY <1>3, <1>4, <1>5, <2>1, <2>2, <2>3 DEF CalmFiles
  <1> QED
    BY <1>7, <1>8, <1>9 DEF MessageInv

\* Nobody but x is at the message in hand, inside deliver() or about to write its result.
LEMMA NobodyElse ==
  ASSUME NEW x \in Executors, Tracked(x), Frame(x), At(x) \notin doubtful
  PROVE  /\ At(x)' = At(x)
         /\ \A y \in Executors \ {x} : At(y)' = At(x) =>
              ~InDeliver(y)' /\ ~InPhase(y, "imported")' /\ execution'[y].phase # "sent"
  <1>1. \A y \in Executors \ {x} : ~Holds(y, At(x))
    BY OneDeliverer DEF Tracked, Alone
  <1> QED
    BY <1>1 DEF Frame, HandsKept, Holds, At, InDeliver, InPhase

\* x goes on with its message.
LEMMA MineGoesOn ==
  ASSUME NEW x \in Executors, Tracked(x), Frame(x), Progresses(x),
         NEW m \in Messages, m = At(x), m \notin doubtful'
  PROVE  MessageInv(m)'
  <1> DEFINE f0 == work[x].file
  <1>1. m \in Messages /\ m \notin doubtful /\ At(x)' = m
    BY NobodyElse DEF Tracked, Frame
  <1>2. MessageInv(m)
    BY <1>1 DEF Tracked, MessagesInv
  <1>3. \A y \in Executors \ {x} : At(y)' = m =>
          ~InDeliver(y)' /\ ~InPhase(y, "imported")' /\ execution'[y].phase # "sent"
    BY <1>1, NobodyElse
  <1>4. /\ InDeliver(x) /\ row'[m] = row[m] /\ files'[m] = files[m]
        /\ row[m].status \notin {"absent", "imported"}
    BY <1>1, OneDeliverer DEF Tracked, Frame
  <1>5. \A f \in 1 .. files[m] : f \in File
    BY <1>1, FileTypes, AttachmentAssumption DEF Tracked
  <1>6. /\ InDeliver(x)'
        /\ work'[x].file \in File => NotSent(work'[x], filed'[m], attachment'[m])
        /\ f0 \in File => FileAfter(x, m, f0)
        /\ \A f \in File \ {f0} :
             /\ f \in 1 .. files[m] /\ Left(work[x], f) => Left(work'[x], f)
             /\ x \in Backfills /\ faults' = 0 /\ Unstaged(work'[x], f) => Unstaged(work[x], f)
    BY DEF Progresses
  <1>7. \A f \in File \ {f0} : /\ attachment'[m][f] = attachment[m][f]
                               /\ filed'[m][f] = filed[m][f]
                               /\ stage'[m][f] = stage[m][f]
    BY <1>1 DEF Frame
  <1>8. /\ copies[m] \in Nat /\ copies'[m] \in Nat /\ copies'[m] >= copies[m]
        /\ faults \in Nat /\ faults' \in Nat /\ faults' >= faults
    BY <1>1 DEF Frame
  <1>9. ~InPhase(x, "imported")' /\ execution'[x].phase \in {"send", "sent"}
    BY <1>6 DEF InDeliver, InPhase
  <1> HIDE DEF f0
  <1>10. OnceFile(m)'
    <2>1. ASSUME NEW f \in File
          PROVE  /\ filed'[m][f] <= 1
                 /\ filed'[m][f] = 1 =>
                      /\ copies'[m] > 0
                      /\ \/ attachment'[m][f].status \in Lasting
                         \/ \E y \in Executors :
                               At(y)' = m /\ GoesInline(execution'[y].phase, work'[y], f)
      <3>1. CASE f = f0
        BY <1>1, <1>6, <3>1 DEF FileAfter
      <3>2. CASE f # f0
        <4>1. /\ filed[m][f] <= 1
              /\ filed[m][f] = 1 =>
                   /\ copies[m] > 0
                   /\ \/ attachment[m][f].status \in Lasting
                      \/ \E y \in Executors :
                            At(y) = m /\ GoesInline(execution[y].phase, work[y], f)
          BY <1>2 DEF MessageInv, OnceFile
        <4>2. ~\E y \in Executors : At(y) = m /\ GoesInline(execution[y].phase, work[y], f)
          <5>1. Alone(x)
            BY <1>1, OneDeliverer DEF Tracked
          <5> QED
            BY <3>2, <5>1 DEF GoesInline, Alone, Holds, f0
        <4> QED
          BY <1>7, <1>8, <3>2, <4>1, <4>2
      <3> QED
        BY <3>1, <3>2
    <2>2. ASSUME NEW y \in Executors, InDeliver(y)', At(y)' = m, work'[y].file \in File
          PROVE  NotSent(work'[y], filed'[m], attachment'[m])
      BY <1>3, <1>6, <2>2
    <2> QED
      BY <2>1, <2>2 DEF OnceFile
  <1>11. AccountInv(m)'
    <2>1. row'[m].status # "imported"
      BY <1>4
    <2>2. \A y \in Executors : ~(At(y)' = m /\ InPhase(y, "imported")')
      BY <1>3, <1>9
    <2>3. ASSUME NEW f \in 1 .. files'[m]
          PROVE  Handled(attachment'[m][f], faults') \/ Left(work'[x], f)
      <3>1. f \in File /\ f \in 1 .. files[m]
        BY <1>4, <1>5
      <3>2. Handled(attachment[m][f], faults) \/ Left(work[x], f)
        BY <1>2, <1>4, <3>1 DEF MessageInv, AccountInv
      <3>3. CASE f = f0
        BY <1>6, <3>1, <3>2, <3>3 DEF FileAfter
      <3>4. CASE f # f0
        BY <1>6, <1>7, <1>8, <3>1, <3>2, <3>4 DEF Handled
      <3> QED
        BY <3>3, <3>4
    <2>4. ASSUME NEW f \in File, attachment'[m][f].status = "processing"
          PROVE  \/ faults' > 0
                 \/ At(x)' = m /\ InDeliver(x)' /\ work'[x].file = f /\ Owning(work'[x])
      <3>1. CASE f = f0
        BY <1>1, <1>6, <2>4, <3>1 DEF FileAfter
      <3>2. CASE f # f0
        <4>1. \/ faults > 0
              \/ \E y \in Executors :
                    At(y) = m /\ InDeliver(y) /\ work[y].file = f /\ Owning(work[y])
          BY <1>2, <1>7, <2>4, <3>2 DEF MessageInv, AccountInv
        <4>2. ~\E y \in Executors : At(y) = m /\ InDeliver(y) /\ work[y].file = f
          <5>1. Alone(x)
            BY <1>1, OneDeliverer DEF Tracked
          <5> QED
            BY <3>2, <5>1 DEF InDeliver, InPhase, Alone, Holds, f0
        <4> QED
          BY <1>8, <4>1, <4>2
      <3> QED
        BY <3>1, <3>2
    <2>5. \A y \in Executors : At(y)' = m /\ InDeliver(y)' => y = x
      BY <1>3
    <2> QED
      BY <1>1, <2>1, <2>2, <2>3, <2>4, <2>5 DEF AccountInv
  <1>12. faults' = 0 => CalmFiles(m)'
    <2>1. ASSUME faults' = 0, x \in Backfills, NEW f \in File, Unstaged(work'[x], f)
          PROVE  NoFailedUpload(stage'[m][f])
      <3>1. CASE f = f0
        BY <1>6, <2>1, <3>1 DEF FileAfter
      <3>2. CASE f # f0
        <4>1. Unstaged(work[x], f) /\ CalmFiles(m)
          BY <1>2, <1>6, <1>8, <2>1, <3>2 DEF MessageInv
        <4> QED
          BY <1>4, <1>7, <2>1, <3>2, <4>1 DEF CalmFiles
      <3> QED
        BY <3>1, <3>2
    <2>2. row'[m].status # "absent"
      BY <1>4
    <2>3. \A y \in Backfills : At(y)' = m /\ InDeliver(y)' => y = x
      BY <1>3 DEF Executors
    <2> QED
      BY <2>1, <2>2, <2>3 DEF CalmFiles
  <1> QED
    BY <1>10, <1>11, <1>12 DEF MessageInv

\* x leaves its message.
LEMMA MineEnds ==
  ASSUME NEW x \in Executors, Tracked(x), Frame(x), Finishes(x),
         NEW m \in Messages, m = At(x), m \notin doubtful'
  PROVE  MessageInv(m)'
  <1> DEFINE f0 == work[x].file
  <1>1. m \in Messages /\ m \notin doubtful /\ At(x)' = m
    BY NobodyElse DEF Tracked, Frame
  <1>2. MessageInv(m)
    BY <1>1 DEF Tracked, MessagesInv
  <1>3. \A y \in Executors : At(y)' = m =>
          ~InDeliver(y)' /\ (InPhase(y, "imported")' => y = x)
    BY <1>1, NobodyElse DEF Finishes
  <1>4. /\ InDeliver(x) /\ row'[m] = row[m] /\ files'[m] = files[m]
        /\ row[m].status \notin {"absent", "imported"}
    BY <1>1, OneDeliverer DEF Tracked, Frame
  <1>5. \A f \in 1 .. files[m] : f \in File
    BY <1>1, FileTypes, AttachmentAssumption DEF Tracked
  <1>6. /\ \A f \in File : attachment'[m][f] = attachment[m][f] /\ filed'[m][f] = filed[m][f]
        /\ \A f \in File : ~GoesInline(execution[x].phase, work[x], f)
        /\ execution'[x].phase = "imported" => \A f \in File : ~Left(work[x], f)
        /\ faults' > 0 \/ ~Owning(work[x])
    BY DEF Finishes
  <1>7. /\ copies[m] \in Nat /\ copies'[m] \in Nat /\ copies'[m] >= copies[m]
        /\ faults \in Nat /\ faults' \in Nat /\ faults' >= faults
    BY <1>1 DEF Frame
  <1>8. \A y \in Executors : At(y) = m /\ execution[y].phase \in {"send", "sent"} => y = x
    BY <1>1, OneDeliverer DEF Tracked, Alone, Holds
  <1> HIDE DEF f0
  <1>9. OnceFile(m)'
    <2>1. ASSUME NEW f \in File
          PROVE  /\ filed'[m][f] <= 1
                 /\ filed'[m][f] = 1 =>
                      copies'[m] > 0 /\ attachment'[m][f].status \in Lasting
      <3>1. /\ filed[m][f] <= 1
            /\ filed[m][f] = 1 =>
                 /\ copies[m] > 0
                 /\ \/ attachment[m][f].status \in Lasting
                    \/ \E y \in Executors :
                          At(y) = m /\ GoesInline(execution[y].phase, work[y], f)
        BY <1>2 DEF MessageInv, OnceFile
      <3>2. ~\E y \in Executors : At(y) = m /\ GoesInline(execution[y].phase, work[y], f)
        BY <1>6, <1>8 DEF GoesInline
      <3> QED
        BY <1>6, <1>7, <3>1, <3>2
    <2> QED
      BY <1>3, <2>1 DEF OnceFile
  <1>10. AccountInv(m)'
    <2>1. row'[m].status # "imported"
      BY <1>4
    <2>2. ASSUME NEW y \in Executors, At(y)' = m, InPhase(y, "imported")'
          PROVE  Complete(m)'
      <3>1. execution'[x].phase = "imported"
        BY <1>3, <2>2 DEF InPhase
      <3>2. ASSUME NEW f \in 1 .. files'[m]
            PROVE  Handled(attachment'[m][f], faults')
        <4>1. f \in File /\ f \in 1 .. files[m]
          BY <1>4, <1>5
        <4>2. Handled(attachment[m][f], faults) \/ Left(work[x], f)
          BY <1>2, <1>4, <4>1 DEF MessageInv, AccountInv
        <4> QED
          BY <1>6, <1>7, <3>1, <4>1, <4>2 DEF Handled
      <3> QED
        BY <3>2 DEF Complete
    <2>3. ASSUME NEW f \in File, attachment'[m][f].status = "processing"
          PROVE  faults' > 0
      <3>1. \/ faults > 0
            \/ \E y \in Executors :
                  At(y) = m /\ InDeliver(y) /\ work[y].file = f /\ Owning(work[y])
        BY <1>2, <1>6, <2>3 DEF MessageInv, AccountInv
      <3>2. faults > 0 \/ Owning(work[x])
        BY <1>8, <3>1 DEF InDeliver, InPhase
      <3> QED
        BY <1>6, <1>7, <3>2
    <2> QED
      BY <1>3, <2>1, <2>2, <2>3 DEF AccountInv
  <1>11. faults' = 0 => CalmFiles(m)'
    <2>1. row'[m].status # "absent"
      BY <1>4
    <2>2. \A y \in Backfills : ~(At(y)' = m /\ InDeliver(y)')
      BY <1>3 DEF Executors
    <2> QED
      BY <2>1, <2>2 DEF CalmFiles
  <1> QED
    BY <1>9, <1>10, <1>11 DEF MessageInv

\* A step inside deliver() keeps the invariants of the files.
LEMMA StepKeepsFiles ==
  ASSUME NEW x \in Executors, Tracked(x), Frame(x), Progresses(x) \/ Finishes(x)
  PROVE  FitInv' /\ MessagesInv'
  <1>1. ASSUME NEW m \in Messages \ doubtful' PROVE MessageInv(m)'
    <2>1. CASE m = At(x)
      BY <2>1, MineGoesOn, MineEnds
    <2>2. CASE m # At(x)
      BY <2>2, OthersKeep
    <2> QED
      BY <2>1, <2>2
  <1>2. ASSUME NEW y \in Executors, InDeliver(y)'
        PROVE  Fits(execution'[y].phase, execution'[y].reuse, work'[y])
    <2>1. CASE y = x
      BY <1>2, <2>1 DEF Progresses, Finishes, Frame
    <2>2. CASE y # x
      BY <1>2, <2>2 DEF Frame, HandsKept, InDeliver, InPhase, Tracked, FitInv
    <2> QED
      BY <2>1, <2>2
  <1>3. ASSUME NEW m \in Messages, NEW f \in File
        PROVE  PlainRow(attachment'[m][f])
    <2>1. CASE m = At(x) /\ f = work[x].file
      BY <2>1 DEF Progresses, Finishes
    <2>2. CASE m # At(x) \/ f # work[x].file
      BY <2>2 DEF Frame, Tracked, FitInv
    <2> QED
      BY <2>1, <2>2
  <1> QED
    BY <1>1, <1>2, <1>3 DEF FitInv, MessagesInv

-----------------------------------------------------------------------------
(* The steps inside deliver(), one by one.                                 *)

\* Which rows and files a step of x writes at most.
LEMMA RowsTouched ==
  ASSUME NEW x \in Executors, NEW c, FileStep(x, c)
  PROVE  /\ files' = files
         /\ attachment' = attachment \/ \E r : WriteAttachment(x, r)
         /\ stage' = stage \/ \E r : WriteStage(x, c, r)
         /\ filed' = filed \/ filed' = [filed EXCEPT ![At(x)][work[x].file] = @ + 1]
         /\ work' = work \/ \E w : Works(x, w)
  <1>1. Raises(x) => UNCHANGED fileVars /\ Works(x, NoWork)
    BY DEF Raises
  <1>2. Reused(x) => \E w : Works(x, w)
    BY AttachmentAssumption DEF AttachmentAssumption, Reused, HasUpload
  <1>3. FileArrives(x, work[x].file) \/ WithPrimary(x) =>
          filed' = filed \/ filed' = [filed EXCEPT ![At(x)][work[x].file] = @ + 1]
    BY DEF FileArrives, WithPrimary
  <1>4. CASE Prepare(x) \/ ClaimFile(x) \/ Retake(x) \/ MarkFile(x)
    BY <1>1, <1>4 DEF Prepare, ClaimFile, Retake, MarkFile, fileVars
  <1>5. CASE ClaimStage(x, c)
    <2>1. \/ WriteStage(x, c, StageClaimed) /\ UNCHANGED <<files, attachment, filed>>
          \/ UNCHANGED fileVars
      BY <1>1, <1>5 DEF ClaimStage
    <2>2. \E w : Works(x, w)
      BY <1>1, <1>2, <1>5 DEF ClaimStage
    <2> QED
      BY <2>1, <2>2 DEF fileVars
  <1>6. CASE Restage(x, c) \/ UploadSucceeds(x, c) \/ UploadFails(x, c)
    BY <1>6 DEF Restage, UploadSucceeds, UploadFails, HasUpload, SendsDirectly
  <1>7. CASE \/ PrimaryAnswered(x) \/ PrimaryBreaksOff(x) \/ PrimaryRefused(x)
             \/ PrimaryUnanswered(x)
    BY <1>3, <1>7
       DEF PrimaryAnswered, PrimaryBreaksOff, PrimaryRefused, PrimaryUnanswered, fileVars
  <1>8. CASE FileSent(x) \/ FileRefused(x) \/ FileUnanswered(x) \/ Return(x)
    BY <1>3, <1>8 DEF FileSent, FileRefused, FileUnanswered, WillMark, Return, fileVars
  <1>9. CASE CancelFiles(x, c)
    BY <1>9 DEF CancelFiles
  <1> QED
    BY <1>4, <1>5, <1>6, <1>7, <1>8, <1>9 DEF FileStep

\* What the delivery sees of a step inside deliver().
LEMMA StepShows ==
  ASSUME NEW x \in Executors, NEW c, FileStep(x, c)
  PROVE  /\ \/ UNCHANGED vars
            \/ SendAnswered(x) \/ PartArrives(x) \/ SendRefused(x) \/ SendUnanswered(x)
            \/ AttachmentBlocks(x) \/ DeliverReturns(x) \/ Cancel(x)
         /\ [Next]_vars
  <1>1. \/ UNCHANGED vars
        \/ SendAnswered(x) \/ PartArrives(x) \/ SendRefused(x) \/ SendUnanswered(x)
        \/ AttachmentBlocks(x) \/ DeliverReturns(x) \/ Cancel(x)
    BY DEF FileStep, Prepare, ClaimFile, Retake, MarkFile, ClaimStage, Restage, Raises,
       UploadSucceeds, UploadFails, PrimaryAnswered, PrimaryBreaksOff, PrimaryRefused,
       PrimaryUnanswered, FileSent, FileRefused, FileUnanswered, Return, CancelFiles
  <1> QED
    BY <1>1, FileStepDelivers

LEMMA FileStepFrame ==
  ASSUME TypeInv, TypeInv', FileInv, NEW x \in Executors, NEW c, FileStep(x, c)
  PROVE  Frame(x)
  <1>1. HandsKept(x)
    BY FileStepHands
  <1>2. \A y \in Executors : execution'[y].reuse = execution[y].reuse
    <2>1. CASE execution' = execution
      BY <2>1
    <2>2. CASE Moves(x) /\ execution'[x].reuse = execution[x].reuse
      BY <2>2 DEF Moves
    <2> QED
      BY <2>1, <2>2, StepShows, DeliverEffects DEF vars, PartArrives
  <1>3. row' = row
    BY StepShows DEF vars, SendAnswered, PartArrives, SendRefused, SendUnanswered,
       AttachmentBlocks, DeliverReturns, Cancel
  <1>4. \A m \in Messages : copies[m] \in Nat /\ copies'[m] \in Nat /\ copies'[m] >= copies[m]
    BY StepShows, CopiesGrow DEF TypeInv, TypeOK
  <1>5. faults \in Nat /\ faults' \in Nat /\ faults' >= faults
    <2>1. faults \in Nat /\ faults' \in Nat
      BY DeliveryAssumption DEF TypeInv, TypeOK
    <2>2. faults' = faults \/ faults' = faults + 1
      BY StepShows
         DEF vars, SendAnswered, PartArrives, SendRefused, SendUnanswered,
             AttachmentBlocks, DeliverReturns, Cancel, Fault
    <2> QED
      BY <2>1, <2>2
  <1>6. doubtful \subseteq doubtful'
    BY StepShows, DoubtGrows
  <1>7. /\ attachment \in [Messages -> [File -> AttachmentRow]]
        /\ stage \in [Messages -> [File -> [Targets -> StageRow]]]
        /\ filed \in [Messages -> [File -> Nat]]
        /\ work \in [Executors -> Work]
    BY DEF FileInv, FilesTypeOK
  <1>8. files' = files /\ \A y \in Executors \ {x} : work'[y] = work[y]
    BY <1>7, RowsTouched DEF Works
  <1>9. ASSUME NEW m \in Messages, NEW f \in File, m # At(x) \/ f # work[x].file
        PROVE  /\ attachment'[m][f] = attachment[m][f]
               /\ filed'[m][f] = filed[m][f]
               /\ stage'[m][f] = stage[m][f]
    <2>1. attachment'[m][f] = attachment[m][f]
      BY <1>7, <1>9, RowsTouched DEF WriteAttachment
    <2>2. filed'[m][f] = filed[m][f]
      <3>1. CASE filed' = [filed EXCEPT ![At(x)][work[x].file] = @ + 1]
        <4>1. m # At(x) => filed'[m] = filed[m]
          BY <1>7, <3>1
        <4>2. m = At(x) => filed'[m] = [filed[m] EXCEPT ![work[x].file] = @ + 1]
          BY <1>7, <3>1
        <4>3. filed[m] \in [File -> Nat]
          BY <1>7
        <4> QED
          BY <1>9, <4>1, <4>2, <4>3
      <3> QED
        BY <3>1, RowsTouched
    <2>3. stage'[m][f] = stage[m][f]
      <3>1. ASSUME NEW r, WriteStage(x, c, r)
            PROVE  stage'[m][f] = stage[m][f]
        <4>1. m # At(x) => stage'[m] = stage[m]
          BY <1>7, <3>1 DEF WriteStage
        <4>2. m = At(x) => stage'[m] = [stage[m] EXCEPT ![work[x].file][c] = r]
          BY <1>7, <3>1 DEF WriteStage
        <4>3. stage[m] \in [File -> [Targets -> StageRow]]
          BY <1>7
        <4> QED
          BY <1>9, <4>1, <4>2, <4>3
      <3> QED
        BY <3>1, RowsTouched
    <2> QED
      BY <2>1, <2>2, <2>3
  <1> QED
    BY <1>1, <1>2, <1>3, <1>4, <1>5, <1>6, <1>8, <1>9 DEF Frame

\* x is inside deliver(), and takes a step.
Acting(x) == Tracked(x) /\ Frame(x) /\ Working(x) /\ work[x] \in Work

\* What is known before the step.
LEMMA Known ==
  ASSUME NEW x \in Executors, Acting(x), NEW m, m = At(x)
  PROVE  /\ m \in Messages /\ files[m] \in 0 .. MaxFiles
         /\ work[x] \in Work /\ Shaped(work[x])
         /\ execution[x].phase \in {"send", "sent"} /\ execution[x].reuse \in BOOLEAN
         /\ Fits(execution[x].phase, execution[x].reuse, work[x])
         /\ work[x].file # 0 => work[x].file \in File
         /\ \A f \in File : /\ attachment[m][f] \in AttachmentRow /\ PlainRow(attachment[m][f])
                            /\ filed[m][f] \in Nat
         /\ m \notin doubtful =>
              /\ MessageInv(m)
              /\ work[x].file \in File => NotSent(work[x], filed[m], attachment[m])
              /\ InPhase(x, "send") /\ ~execution[x].reuse => \A f \in File : filed[m][f] = 0
  <1>1. /\ m \in Messages /\ execution[x].phase \in {"send", "sent"} /\ InDeliver(x)
        /\ execution[x].reuse \in BOOLEAN
    BY DEF Acting, Tracked, InDeliver, InPhase, TypeInv, TypeOK, Execution
  <1>2. /\ files[m] \in 0 .. MaxFiles /\ work[x] \in Work /\ Shaped(work[x])
        /\ work[x].file # 0 => work[x].file \in File
    BY <1>1, InHand DEF Acting
  <1>3. Fits(execution[x].phase, execution[x].reuse, work[x])
    BY <1>1 DEF Acting, Tracked, FitInv
  <1>4. \A f \in File : /\ attachment[m][f] \in AttachmentRow /\ PlainRow(attachment[m][f])
                        /\ filed[m][f] \in Nat
    BY <1>1 DEF Acting, Tracked, FitInv, FileInv, FilesTypeOK
  <1>5. ASSUME m \notin doubtful
        PROVE  /\ MessageInv(m)
               /\ work[x].file \in File => NotSent(work[x], filed[m], attachment[m])
               /\ InPhase(x, "send") /\ ~execution[x].reuse => \A f \in File : filed[m][f] = 0
    <2>1. MessageInv(m)
      BY <1>1, <1>5 DEF Acting, Tracked, MessagesInv
    <2>2. work[x].file \in File => NotSent(work[x], filed[m], attachment[m])
      BY <1>1, <2>1 DEF MessageInv, OnceFile
    <2>3. ASSUME InPhase(x, "send"), ~execution[x].reuse, NEW f \in File
          PROVE  filed[m][f] = 0
      <3>1. copies[m] = 0
        BY <1>1, <1>5, <2>3, OneDeliverer DEF Acting, Tracked
      <3>2. filed[m][f] <= 1 /\ (filed[m][f] = 1 => copies[m] > 0)
        BY <2>1 DEF MessageInv, OnceFile
      <3> QED
        BY <1>4, <3>1, <3>2
    <2> QED
      BY <2>1, <2>2, <2>3
  <1> QED
    BY <1>1, <1>2, <1>3, <1>4, <1>5

\* The work after a file is done with.
LEMMA DoneFits ==
  ASSUME NEW x \in Executors, Acting(x), NEW r, work[x].file # 0,
         work[x].step \in {"claim", "mark", "stage"}
  PROVE  LET v == Done(x, r)
         IN  /\ Fits(execution[x].phase, execution[x].reuse, v)
             /\ Anew(execution[x].phase, execution[x].reuse, v)
             /\ \A f \in 1 .. files[At(x)] : f # work[x].file /\ Left(work[x], f) => Left(v, f)
             /\ \A f \in File : Unstaged(v, f) => Unstaged(work[x], f) /\ f # work[x].file
  <1> DEFINE w == [work[x] EXCEPT !.worst = Worst(@, r), !.writes = NoAttachment]
             phase == execution[x].phase
             reuse == execution[x].reuse
  <1>1. /\ w \in Work /\ w.file = work[x].file /\ w.held = work[x].held
        /\ w.why = work[x].why /\ w.prepared = work[x].prepared /\ w.step = work[x].step
    BY Known, RowsOfFiles DEF Work, Worst, Attachment
  <1>2. Done(x, r) = IF w.why \in {"skip", "download"} THEN Prepared(At(x), reuse, w)
                     ELSE IF phase = "send" THEN [w EXCEPT !.step = "primary"]
                     ELSE Onward([w EXCEPT !.held = "none"])
    BY DEF Done, InPhase
  <1>3. /\ phase \in {"send", "sent"} /\ reuse \in BOOLEAN /\ Fits(phase, reuse, work[x])
        /\ Shaped(work[x]) /\ At(x) \in Messages /\ files[At(x)] \in 0 .. MaxFiles
        /\ work[x].file \in File
    BY Known
  <1>4. \A f \in File : f \in Nat
    BY DEF File
  <1>5. \A f \in 1 .. files[At(x)] : f \in File
    BY <1>3, AttachmentAssumption DEF AttachmentAssumption, File
  <1>6. w.prepared \subseteq File
    BY <1>1 DEF Work
  <1> HIDE DEF w, phase, reuse
  <1>7. CASE w.why \in {"skip", "download"}
    <2>1. Preparing(w) /\ Preparing(work[x])
      BY <1>1, <1>7 DEF Preparing
    <2>2. (\A g \in w.prepared : g < w.file) /\ w.held = "none"
      BY <1>1, <1>3, <1>7, <2>1 DEF Fits, Shaped
    <2>3. IF reuse THEN phase = "sent" \/ w.prepared = {} ELSE phase = "send"
      BY <1>1, <1>3, <2>1 DEF Fits
    <2>4. \A g \in w.prepared : g <= w.file
      BY <1>1, <1>3, <1>4, <1>6, <2>2
    <2>5. /\ Fits(phase, reuse, Done(x, r)) /\ Anew(phase, reuse, Done(x, r))
          /\ \A f \in 1 .. files[At(x)] : f \in w.prepared \/ f > w.file => Left(Done(x, r), f)
          /\ \A f \in File : Unstaged(Done(x, r), f) => f \in w.prepared \/ f > w.file
      BY <1>1, <1>2, <1>3, <1>7, <2>2, <2>3, <2>4, PreparedFits
    <2>6. \A f \in File : f # w.file /\ Left(work[x], f) => f \in w.prepared \/ f > w.file
      BY <1>1, <1>3, <1>4, <2>1 DEF Left
    <2>7. \A f \in File : f \in w.prepared \/ f > w.file =>
            Unstaged(work[x], f) /\ f # w.file
      BY <1>1, <1>3, <1>4, <2>1, <2>2 DEF Unstaged
    <2> QED
      BY <1>1, <1>5, <2>5, <2>6, <2>7 DEF phase, reuse
  <1>8. CASE w.why \notin {"skip", "download"} /\ phase = "send"
    <2> DEFINE v == [w EXCEPT !.step = "primary"]
    <2>1. /\ v.step = "primary" /\ v.file = w.file /\ v.why = w.why
          /\ v.prepared = w.prepared /\ v.held = w.held
      BY <1>1 DEF Work
    <2>2. Done(x, r) = v
      BY <1>2, <1>8
    <2> HIDE DEF v
    <2>3. Fits(phase, reuse, v)
      BY <1>1, <1>3, <1>8, <2>1 DEF Fits, Preparing
    <2>4. Anew(phase, reuse, v)
      BY <2>1 DEF Anew
    <2>5. \A f \in 1 .. files[At(x)] : f # work[x].file /\ Left(work[x], f) => Left(v, f)
      BY <1>1, <1>3, <1>8, <2>1 DEF Left, Preparing, Fits
    <2>6. \A f \in File : Unstaged(v, f) => Unstaged(work[x], f) /\ f # work[x].file
      BY <1>1, <1>3, <1>8, <2>1 DEF Unstaged, Preparing, Fits
    <2> QED
      BY <2>2, <2>3, <2>4, <2>5, <2>6 DEF phase, reuse
  <1>9. CASE w.why \notin {"skip", "download"} /\ phase # "send"
    <2> DEFINE u == [w EXCEPT !.held = "none"]
    <2>1. u \in Work /\ u.prepared = w.prepared
      BY <1>1 DEF Work
    <2>2. Done(x, r) = Onward(u)
      BY <1>2, <1>9
    <2> HIDE DEF u
    <2>3. /\ Fits(phase, reuse, Done(x, r)) /\ Anew(phase, reuse, Done(x, r))
          /\ \A f \in File : f \in w.prepared => Left(Done(x, r), f)
          /\ \A f \in File : Unstaged(Done(x, r), f) => f \in w.prepared
      BY <1>3, <1>9, <2>1, <2>2, OnwardFits
    <2>4. ~Preparing(work[x])
      BY <1>1, <1>9 DEF Preparing
    <2>5. \A f \in File : f # w.file /\ Left(work[x], f) => f \in w.prepared
      BY <1>1, <2>4 DEF Left
    <2>6. \A f \in File : f \in w.prepared => Unstaged(work[x], f) /\ f # w.file
      BY <1>1, <1>3 DEF Unstaged, Fits
    <2> QED
      BY <1>1, <1>5, <2>3, <2>5, <2>6 DEF phase, reuse
  <1> QED
    BY <1>7, <1>8, <1>9

LEMMA RowKnown ==
  ASSUME NEW x \in Executors, Acting(x), NEW m, m = At(x), m \notin doubtful, NEW f \in File
  PROVE  /\ filed[m][f] <= 1
         /\ filed[m][f] = 1 =>
              /\ copies[m] > 0
              /\ \/ attachment[m][f].status \in Lasting
                 \/ GoesInline(execution[x].phase, work[x], f)
         /\ f \in 1 .. files[m] => Handled(attachment[m][f], faults) \/ Left(work[x], f)
         /\ attachment[m][f].status = "processing" =>
              faults > 0 \/ (work[x].file = f /\ Owning(work[x]))
         /\ x \in Backfills /\ faults = 0 /\ Unstaged(work[x], f) =>
              NoFailedUpload(stage[m][f])
  <1>1. MessageInv(m) /\ InDeliver(x)
    BY Known DEF Acting, Tracked
  <1>2. \A y \in Executors : At(y) = m /\ execution[y].phase \in {"send", "sent"} => y = x
    BY OneDeliverer DEF Acting, Tracked, Alone, Holds
  <1>3. filed[m][f] <= 1 /\ (filed[m][f] = 1 => copies[m] > 0)
    BY <1>1 DEF MessageInv, OnceFile
  <1>4. filed[m][f] = 1 => \/ attachment[m][f].status \in Lasting
                           \/ GoesInline(execution[x].phase, work[x], f)
    <2>1. filed[m][f] = 1 =>
             \/ attachment[m][f].status \in Lasting
             \/ \E y \in Executors : At(y) = m /\ GoesInline(execution[y].phase, work[y], f)
      BY <1>1 DEF MessageInv, OnceFile
    <2>2. \A y \in Executors : At(y) = m /\ GoesInline(execution[y].phase, work[y], f) => y = x
      BY <1>2 DEF GoesInline
    <2> QED
      BY <2>1, <2>2
  <1>5. attachment[m][f].status = "processing" =>
          faults > 0 \/ (work[x].file = f /\ Owning(work[x]))
    <2>1. attachment[m][f].status = "processing" =>
             \/ faults > 0
             \/ \E y \in Executors :
                   At(y) = m /\ InDeliver(y) /\ work[y].file = f /\ Owning(work[y])
      BY <1>1 DEF MessageInv, AccountInv
    <2>2. \A y \in Executors : At(y) = m /\ InDeliver(y) => y = x
      BY <1>2 DEF InDeliver, InPhase
    <2> QED
      BY <2>1, <2>2
  <1>6. f \in 1 .. files[m] => Handled(attachment[m][f], faults) \/ Left(work[x], f)
    BY <1>1 DEF MessageInv, AccountInv
  <1>7. x \in Backfills /\ faults = 0 /\ Unstaged(work[x], f) => NoFailedUpload(stage[m][f])
    BY <1>1 DEF MessageInv, CalmFiles
  <1> QED
    BY <1>3, <1>4, <1>5, <1>6, <1>7

\* x turns to w, with file f of message m in hand, and the delivery stays where it is.
Turn(x, w, m, f) ==
  /\ w.file \in File => NotSent(w, filed'[m], attachment'[m])
  /\ filed'[m][f] <= 1
  /\ filed'[m][f] = 1 =>
       /\ copies[m] > 0
       /\ attachment'[m][f].status \in Lasting \/ GoesInline(execution[x].phase, w, f)
  /\ f \in 1 .. files[m] => Handled(attachment'[m][f], faults) \/ Left(w, f)
  /\ attachment'[m][f].status = "processing" => faults > 0 \/ (w.file = f /\ Owning(w))
  /\ x \in Backfills /\ faults = 0 /\ Unstaged(w, f) => NoFailedUpload(stage'[m][f])
  /\ \A g \in File \ {f} : /\ g \in 1 .. files[m] /\ Left(work[x], g) => Left(w, g)
                           /\ Unstaged(w, g) => Unstaged(work[x], g)

LEMMA TurnProgresses ==
  ASSUME NEW x \in Executors, Acting(x), NEW w, Works(x, w), UNCHANGED vars,
         NEW m, m = At(x), NEW f \in File, f = work[x].file,
         Fits(execution[x].phase, execution[x].reuse, w), PlainRow(attachment'[m][f]),
         m \notin doubtful => Turn(x, w, m, f)
  PROVE  Progresses(x)
  <1>1. /\ execution' = execution /\ doubtful' = doubtful /\ faults' = faults
        /\ copies' = copies
    BY DEF vars
  <1>2. work'[x] = w
    BY DEF Works, Acting, Working, FileInv, FilesTypeOK
  <1>3. InDeliver(x)'
    BY <1>1 DEF Acting, Tracked, InDeliver, InPhase
  <1>4. ASSUME m \notin doubtful
        PROVE  /\ work'[x].file \in File => NotSent(work'[x], filed'[m], attachment'[m])
               /\ FileAfter(x, m, f)
               /\ \A g \in File \ {f} :
                     /\ g \in 1 .. files[m] /\ Left(work[x], g) => Left(work'[x], g)
                     /\ x \in Backfills /\ faults' = 0 /\ Unstaged(work'[x], g) =>
                          Unstaged(work[x], g)
    BY <1>1, <1>2, <1>4 DEF Turn, FileAfter
  <1> QED
    BY <1>1, <1>2, <1>3, <1>4 DEF Progresses

\* x turns to what is next.
LEMMA AnewTurn ==
  ASSUME NEW x \in Executors, Acting(x), NEW m, m = At(x), m \notin doubtful,
         NEW f \in File, f = work[x].file, filed' = filed,
         NEW w, Anew(execution[x].phase, execution[x].reuse, w),
         filed[m][f] = 1 => attachment'[m][f].status \in Lasting,
         f \in 1 .. files[m] => Handled(attachment'[m][f], faults) \/ Left(w, f),
         attachment'[m][f].status = "processing" => faults > 0,
         \A g \in 1 .. files[m] : g # f /\ Left(work[x], g) => Left(w, g),
         \A g \in File : Unstaged(w, g) => Unstaged(work[x], g),
         Unstaged(w, f) => stage' = stage
  PROVE  Turn(x, w, m, f)
  <1>1. w.file \in File => NotSent(w, filed'[m], attachment'[m])
    <2>1. CASE w.step \in {"prepare", "primary", "return"}
      BY <2>1 DEF NotSent, Sends, InUpload
    <2>2. CASE w.step = "claim" /\ w.why = "deliver"
      BY <2>2 DEF NotSent, Sends, InUpload
    <2>3. CASE /\ w.step = "stage" /\ w.why = "inline" /\ execution[x].phase = "send"
               /\ ~execution[x].reuse
      <3>1. \A g \in File : filed[m][g] = 0
        BY <2>3, Known DEF InPhase
      <3> QED
        BY <2>3, <3>1 DEF NotSent, Sends, InUpload
    <2> QED
      BY <2>1, <2>2, <2>3 DEF Anew
  <1>2. /\ filed[m][f] <= 1 /\ (filed[m][f] = 1 => copies[m] > 0)
        /\ x \in Backfills /\ faults = 0 /\ Unstaged(work[x], f) => NoFailedUpload(stage[m][f])
    BY RowKnown
  <1> QED
    BY <1>1, <1>2 DEF Turn

LEMMA PrepareTurns ==
  ASSUME NEW x \in Executors, Acting(x), Prepare(x)
  PROVE  Progresses(x)
  <1> DEFINE m == At(x)
             f == work[x].file
             r == attachment[m][f]
             phase == execution[x].phase
             reuse == execution[x].reuse
  <1>1. /\ UNCHANGED vars /\ UNCHANGED fileVars /\ work[x].step = "prepare"
        /\ reuse => phase = "sent"
    BY DEF Prepare, Step, InPhase
  <1>2. /\ m \in Messages /\ files[m] \in 0 .. MaxFiles /\ work[x] \in Work
        /\ phase \in {"send", "sent"} /\ reuse \in BOOLEAN /\ Fits(phase, reuse, work[x])
        /\ f \in File /\ r \in AttachmentRow /\ PlainRow(r) /\ work[x].held = "none"
    BY <1>1, Known DEF Shaped
  <1>3. /\ Preparing(work[x]) /\ work[x].why = "none" /\ (~reuse => phase = "send")
        /\ \A g \in work[x].prepared : g < f
        /\ f \notin work[x].prepared /\ work[x].prepared \subseteq File
    BY <1>1, <1>2 DEF Fits, Preparing, Work
  <1>4. /\ attachment' = attachment /\ filed' = filed /\ stage' = stage
        /\ \A g \in File : g \in Nat
        /\ \A g \in 1 .. files[m] : g \in File
    BY <1>1, <1>2, AttachmentAssumption DEF fileVars, File, AttachmentAssumption
  <1>5. ~Owning(work[x]) /\ ~GoesInline(phase, work[x], f)
    BY <1>1, <1>3 DEF Owning, InUpload, GoesInline
  <1>6. \A g \in File : /\ Left(work[x], g) => g \in work[x].prepared \/ g >= f
                        /\ g \in work[x].prepared \/ g >= f => Unstaged(work[x], g)
    BY <1>3 DEF Left, Unstaged
  <1>7. \A g \in work[x].prepared : g <= f
    BY <1>2, <1>3, <1>4
  <1> HIDE DEF m, f, phase, reuse
  <1>8. CASE reuse /\ r.status # "absent" /\ Works(x, Prepared(m, TRUE, work[x]))
    <2> DEFINE w == Prepared(m, TRUE, work[x])
    <2>1. /\ Fits(phase, TRUE, w) /\ Anew(phase, TRUE, w)
          /\ \A g \in 1 .. files[m] : g \in work[x].prepared \/ g > f => Left(w, g)
          /\ \A g \in File : Unstaged(w, g) => g \in work[x].prepared \/ g > f
      BY <1>1, <1>2, <1>7, <1>8, PreparedFits DEF f
    <2> HIDE DEF w
    <2>2. \A g \in 1 .. files[m] : g # f /\ Left(work[x], g) => Left(w, g)
      BY <1>2, <1>4, <1>6, <2>1
    <2>3. \A g \in File : Unstaged(w, g) => Unstaged(work[x], g)
      BY <1>2, <1>4, <1>6, <2>1
    <2>4. ASSUME m \notin doubtful PROVE Turn(x, w, m, f)
      <3>1. /\ filed[m][f] = 1 => r.status \in Lasting
            /\ r.status = "processing" => faults > 0
        BY <1>2, <1>5, <2>4, RowKnown DEF m, f, phase
      <3>2. Handled(r, faults)
        BY <1>8, <3>1 DEF Handled
      <3> QED
        BY <1>2, <1>4, <1>8, <2>1, <2>2, <2>3, <2>4, <3>1, <3>2, AnewTurn
           DEF m, f, phase, reuse
    <2> QED
      BY <1>1, <1>2, <1>4, <1>8, <2>1, <2>4, TurnProgresses DEF w, m, f, phase, reuse
  <1>9. ASSUME NEW why \in {"skip", "download"},
               ~(reuse /\ r.status # "absent" /\ Worst("ok", r) = "ok"),
               Works(x, [work[x] EXCEPT !.step = "claim", !.why = why])
        PROVE  Progresses(x)
    <2> DEFINE w == [work[x] EXCEPT !.step = "claim", !.why = why]
    <2>1. /\ w.step = "claim" /\ w.why = why /\ w.file = f /\ w.prepared = work[x].prepared
          /\ w.held = "none"
      BY <1>2 DEF Work, f
    <2>2. Works(x, w)
      BY <1>9
    <2> HIDE DEF w
    <2>3. Preparing(w) /\ ~Owning(w)
      BY <2>1 DEF Preparing, Owning, InUpload
    <2>4. Fits(phase, reuse, w)
      BY <1>1, <1>2, <1>3, <2>1, <2>3 DEF Fits, f
    <2>5. \A g \in File : /\ Left(work[x], g) <=> Left(w, g)
                          /\ Unstaged(w, g) => Unstaged(work[x], g)
      BY <1>3, <2>1, <2>3 DEF Left, Unstaged, f
    <2>6. ASSUME m \notin doubtful PROVE Turn(x, w, m, f)
      <3>1. /\ filed[m][f] \in Nat /\ filed[m][f] <= 1
            /\ filed[m][f] = 1 => copies[m] > 0 /\ r.status \in Lasting
            /\ r.status = "processing" => faults > 0
            /\ f \in 1 .. files[m] => Handled(r, faults) \/ Left(work[x], f)
            /\ x \in Backfills /\ faults = 0 /\ Unstaged(work[x], f) =>
                 NoFailedUpload(stage[m][f])
        BY <1>2, <1>5, <2>6, RowKnown, Known DEF m, f, phase
      <3>2. ~reuse => filed[m][f] = 0
        BY <1>2, <1>3, <2>6, Known DEF InPhase, m, phase, reuse
      <3>3. reuse => r.status \in {"absent", "failed", "ambiguous"}
        BY <1>2, <1>9 DEF Worst, PlainRow
      <3>4. filed[m][f] = 0 \/ r.status \in {"processing", "ambiguous"}
        BY <3>1, <3>2, <3>3 DEF Lasting
      <3>5. NotSent(w, filed[m], attachment[m])
        BY <2>1, <3>4 DEF NotSent, Sends, InUpload
      <3> QED
        BY <1>2, <1>4, <2>5, <3>1, <3>5 DEF Turn
    <2> QED
      BY <1>1, <1>2, <1>4, <2>2, <2>4, <2>6, TurnProgresses DEF m, f, phase, reuse
  <1>10. CASE Works(x, Prepared(m, reuse, [work[x] EXCEPT !.prepared = @ \cup {f}]))
    <2> DEFINE u == [work[x] EXCEPT !.prepared = @ \cup {f}]
               w == Prepared(m, reuse, u)
    <2>1. u \in Work /\ u.held = "none" /\ u.prepared = work[x].prepared \cup {f} /\ u.file = f
      BY <1>2 DEF Work, f
    <2> HIDE DEF u
    <2>2. \A g \in u.prepared : g <= u.file
      BY <1>2, <1>4, <1>7, <2>1
    <2>3. /\ Fits(phase, reuse, w) /\ Anew(phase, reuse, w)
          /\ \A g \in 1 .. files[m] : g \in u.prepared \/ g > u.file => Left(w, g)
          /\ \A g \in File : Unstaged(w, g) => g \in u.prepared \/ g > u.file
      BY <1>1, <1>2, <1>3, <2>1, <2>2, PreparedFits
    <2>4. Works(x, w)
      BY <1>10 DEF u
    <2> HIDE DEF w
    <2>5. \A g \in 1 .. files[m] : Left(work[x], g) => Left(w, g)
      BY <1>2, <1>4, <1>6, <2>1, <2>3
    <2>6. \A g \in File : Unstaged(w, g) => Unstaged(work[x], g)
      BY <1>2, <1>4, <1>6, <2>1, <2>3
    <2>7. ASSUME m \notin doubtful PROVE Turn(x, w, m, f)
      <3>1. /\ filed[m][f] = 1 => r.status \in Lasting
            /\ r.status = "processing" => faults > 0
        BY <1>2, <1>5, <2>7, RowKnown DEF m, f, phase
      <3>2. f \in 1 .. files[m] => Left(w, f)
        BY <2>1, <2>3
      <3> QED
        BY <1>2, <1>4, <2>3, <2>5, <2>6, <2>7, <3>1, <3>2, AnewTurn DEF m, f, phase, reuse
    <2> QED
      BY <1>1, <1>2, <1>4, <2>3, <2>4, <2>7, TurnProgresses DEF m, f, phase, reuse
  <1> QED
    BY <1>8, <1>9, <1>10 DEF Prepare, Mine, m, f, reuse


\* x raises: what it has in hand is given up.
LEMMA RaisesFinishes ==
  ASSUME NEW x \in Executors, Acting(x), Raises(x)
  PROVE  Finishes(x)
  <1>1. UNCHANGED fileVars /\ (SendUnanswered(x) \/ AttachmentBlocks(x))
    BY DEF Raises
  <1>2. execution[x] \in Execution /\ execution \in [Executors -> Execution] /\ faults \in Nat
    BY DEF Acting, Tracked, Frame, TypeInv, TypeOK
  <1>3. execution'[x].phase = "unclear"
    BY <1>1, <1>2 DEF SendUnanswered, AttachmentBlocks, GoTo, Becomes, Execution
  <1>4. work[x].file \in File => PlainRow(attachment'[At(x)][work[x].file])
    BY <1>1, Known DEF fileVars
  <1>5. ASSUME At(x) \notin doubtful'
        PROVE  /\ \A f \in File : ~GoesInline(execution[x].phase, work[x], f)
               /\ faults' > 0
    <2>1. AttachmentBlocks(x) /\ execution[x].reuse
      BY <1>1, <1>5 DEF SendUnanswered, AttachmentBlocks, DoubtIf
    <2>2. faults' > 0
      BY <1>2, <2>1 DEF AttachmentBlocks, Fault
    <2> QED
      BY <2>1, <2>2, Known DEF GoesInline, Fits
  <1>6. ~InDeliver(x)'
    BY <1>3 DEF InDeliver, InPhase
  <1> QED
    BY <1>1, <1>3, <1>4, <1>5, <1>6 DEF Finishes, fileVars

\* What is claimed is as it was, but to be uploaded or marked.
LEMMA ClaimedShape ==
  ASSUME NEW x \in Executors, Acting(x), work[x].step \in {"claim", "retake"}
  PROVE  LET w == Claimed(x)
         IN  /\ w.file = work[x].file /\ w.why = work[x].why /\ w.held = work[x].held
             /\ w.prepared = work[x].prepared /\ w.why # "none"
             /\ w.why = "deliver" => w.step = "stage"
             /\ w.why # "deliver" => w.step = "mark"
             /\ w.step = "mark" => /\ Said(w.writes)
                                   /\ w.why = "inline" => w.writes = ImportedFile
                                   /\ w.writes.status = "failed" =>
                                        w.why \in {"download", "upload"}
             /\ Fits(execution[x].phase, execution[x].reuse, w)
  <1>1. /\ work[x] \in Work /\ Fits(execution[x].phase, execution[x].reuse, work[x])
        /\ work[x].why # "none"
    BY Known DEF Fits
  <1>2. CASE work[x].why = "deliver"
    <2> DEFINE w == [work[x] EXCEPT !.step = "stage"]
    <2>1. /\ w.file = work[x].file /\ w.why = "deliver" /\ w.held = work[x].held
          /\ w.prepared = work[x].prepared /\ w.step = "stage"
      BY <1>1, <1>2 DEF Work
    <2>2. Claimed(x) = w
      BY <1>2 DEF Claimed
    <2> HIDE DEF w
    <2>3. Fits(execution[x].phase, execution[x].reuse, w)
      BY <1>1, <1>2, <2>1 DEF Fits, Preparing
    <2> QED
      BY <1>2, <2>1, <2>2, <2>3
  <1>3. CASE work[x].why # "deliver"
    <2> DEFINE r == MarkFor(x)
               w == [work[x] EXCEPT !.step = "mark", !.writes = r]
    <2>1. /\ w.file = work[x].file /\ w.why = work[x].why /\ w.held = work[x].held
          /\ w.prepared = work[x].prepared /\ w.step = "mark" /\ w.writes = r
      BY <1>1 DEF Work
    <2>2. Claimed(x) = w
      BY <1>3 DEF Claimed
    <2>3. /\ Said(r) /\ (work[x].why = "inline" => r = ImportedFile)
          /\ r.status = "failed" => work[x].why \in {"download", "upload"}
      <3>1. CASE work[x].why = "skip"
        BY <3>1 DEF MarkFor, SkippedFile, Said, PlainRow
      <3>2. CASE work[x].why = "inline"
        BY <3>2 DEF MarkFor, ImportedFile, Said, PlainRow
      <3>3. CASE work[x].why \in {"download", "upload"}
        BY <3>3 DEF MarkFor, FailedFile, Said, PlainRow
      <3> QED
        BY <1>1, <1>3, <3>1, <3>2, <3>3 DEF Work
    <2> HIDE DEF w, r
    <2>4. Fits(execution[x].phase, execution[x].reuse, w)
      BY <1>1, <1>3, <2>1, <2>3 DEF Fits, Preparing
    <2> QED
      BY <1>1, <1>3, <2>1, <2>2, <2>3, <2>4
  <1> QED
    BY <1>2, <1>3

\* A file is claimed of which the row says nothing, or nothing that keeps it.
LEMMA ClaimedTurns ==
  ASSUME NEW x \in Executors, Acting(x), work[x].step \in {"claim", "retake"},
         Works(x, Claimed(x)), UNCHANGED <<vars, files, stage, filed, blank>>,
         NEW m, m = At(x), NEW f, f = work[x].file,
         work[x].step = "claim" => attachment[m][f].status \notin {"processing", "ambiguous"},
         \/ /\ WriteAttachment(x, Processing)
            /\ work[x].step = "claim" => attachment[m][f].status = "absent"
         \/ attachment' = attachment /\ work[x].why # "deliver"
  PROVE  Progresses(x)
  <1> DEFINE w == Claimed(x)
             phase == execution[x].phase
  <1>1. /\ f \in File /\ m \in Messages /\ PlainRow(attachment[m][f])
        /\ Fits(phase, execution[x].reuse, work[x])
        /\ attachment \in [Messages -> [File -> AttachmentRow]] /\ filed[m][f] \in Nat
    BY Known DEF Shaped, Acting, Tracked, FileInv, FilesTypeOK
  <1>2. /\ w.file = f /\ w.why = work[x].why /\ w.prepared = work[x].prepared
        /\ w.why = "deliver" => w.step = "stage"
        /\ w.why # "deliver" => w.step = "mark"
        /\ w.why = "inline" => w.writes = ImportedFile
        /\ w.step = "mark" /\ w.writes.status = "failed" => w.why \in {"download", "upload"}
        /\ w.step \in {"stage", "mark"}
        /\ Fits(phase, execution[x].reuse, w)
    BY ClaimedShape
  <1>3. /\ filed' = filed /\ stage' = stage
        /\ \/ attachment'[m][f] = Processing
           \/ attachment'[m][f] = attachment[m][f] /\ work[x].why # "deliver"
        /\ work[x].why = "deliver" => attachment'[m][f] = Processing
    BY <1>1 DEF WriteAttachment
  <1>4. PlainRow(attachment'[m][f])
    BY <1>1, <1>3 DEF PlainRow, Processing
  <1> HIDE DEF w, phase
  <1>5. f \notin w.prepared /\ (Preparing(w) <=> Preparing(work[x]))
    BY <1>1, <1>2 DEF Fits, Preparing
  <1>6. Left(w, f) /\ Owning(w)
    BY <1>1, <1>2 DEF Left, Owning, InUpload, File
  <1>7. \A g \in File : Unstaged(w, g) => Unstaged(work[x], g)
    BY <1>2, <1>5 DEF Unstaged
  <1>8. \A g \in File : g # f /\ Left(work[x], g) => Left(w, g)
    BY <1>2, <1>5 DEF Left
  <1>9. ASSUME m \notin doubtful PROVE Turn(x, w, m, f)
    <2>1. /\ filed[m][f] <= 1
          /\ filed[m][f] = 1 =>
               /\ copies[m] > 0
               /\ attachment[m][f].status \in Lasting \/ GoesInline(phase, work[x], f)
          /\ x \in Backfills /\ faults = 0 /\ Unstaged(work[x], f) =>
               NoFailedUpload(stage[m][f])
          /\ NotSent(work[x], filed[m], attachment[m])
      BY <1>1, <1>9, RowKnown, Known DEF phase
    <2>2. work[x].why \in {"deliver", "download", "upload"} => filed[m][f] = 0
      <3>1. CASE work[x].step = "retake"
        BY <2>1, <3>1 DEF NotSent, Sends
      <3>2. CASE work[x].step = "claim" /\ work[x].why = "deliver"
        <4>1. attachment[m][f].status = "absent"
          BY <3>2
        <4> QED
          BY <1>1, <2>1, <3>2, <4>1 DEF Lasting, GoesInline
      <3>3. CASE work[x].step = "claim" /\ work[x].why \in {"download", "upload"}
        BY <2>1, <3>3 DEF NotSent, Sends
      <3> QED
        BY <3>1, <3>2, <3>3
    <2>3. NotSent(w, filed'[m], attachment'[m])
      BY <1>2, <1>3, <2>2 DEF NotSent, Sends, InUpload, Processing
    <2>4. filed'[m][f] = 1 =>
            copies[m] > 0 /\ (attachment'[m][f].status \in Lasting \/ GoesInline(phase, w, f))
      BY <1>2, <1>3, <2>1 DEF Lasting, GoesInline, Processing
    <2> QED
      BY <1>1, <1>2, <1>3, <1>6, <1>7, <1>8, <2>1, <2>3, <2>4 DEF Turn, phase
  <1> QED
    BY <1>1, <1>2, <1>4, <1>9, TurnProgresses DEF w, phase

LEMMA ClaimFileTurns ==
  ASSUME NEW x \in Executors, Acting(x), ClaimFile(x)
  PROVE  Progresses(x) \/ Finishes(x)
  <1> DEFINE m == At(x)
             f == work[x].file
             r == attachment[m][f]
  <1>1. /\ work[x].step = "claim" /\ f # 0 /\ f \in File /\ work[x] \in Work /\ m \in Messages
        /\ Fits(execution[x].phase, execution[x].reuse, work[x]) /\ work[x].why # "none"
        /\ r \in AttachmentRow /\ PlainRow(r)
    <2>1. work[x].step = "claim"
      BY DEF ClaimFile, Step
    <2> QED
      BY <2>1, Known DEF Shaped, Fits
  <1> HIDE DEF m, f, r
  <1>2. CASE /\ r.status = "absent" /\ WriteAttachment(x, Processing) /\ Works(x, Claimed(x))
             /\ UNCHANGED <<vars, files, stage, filed, blank>>
    BY <1>1, <1>2, ClaimedTurns DEF m, f, r
  <1>3. CASE /\ TakesOver(x, r) /\ Works(x, [work[x] EXCEPT !.step = "retake"])
             /\ UNCHANGED <<vars, fileVars>>
    <2> DEFINE w == [work[x] EXCEPT !.step = "retake"]
    <2>1. /\ w.step = "retake" /\ w.file = f /\ w.why = work[x].why
          /\ w.prepared = work[x].prepared
      BY <1>1 DEF Work, f
    <2>2. Works(x, w)
      BY <1>3
    <2> HIDE DEF w
    <2>3. r.status = "failed" /\ attachment' = attachment /\ filed' = filed /\ stage' = stage
      BY <1>3 DEF TakesOver, fileVars
    <2>4. /\ Fits(execution[x].phase, execution[x].reuse, w)
          /\ (Preparing(w) <=> Preparing(work[x])) /\ f \notin w.prepared
      BY <1>1, <2>1 DEF Fits, Preparing, f
    <2>5. /\ Left(w, f)
          /\ \A g \in File : Unstaged(w, g) => Unstaged(work[x], g)
          /\ \A g \in File : Left(work[x], g) => Left(w, g)
      BY <1>1, <2>1, <2>4 DEF Left, Unstaged, File, f
    <2>6. ASSUME m \notin doubtful PROVE Turn(x, w, m, f)
      <3>1. /\ filed[m][f] \in Nat /\ filed[m][f] <= 1
            /\ filed[m][f] = 1 =>
                 /\ copies[m] > 0
                 /\ r.status \in Lasting \/ GoesInline(execution[x].phase, work[x], f)
            /\ x \in Backfills /\ faults = 0 /\ Unstaged(work[x], f) =>
                 NoFailedUpload(stage[m][f])
        BY <1>1, <2>6, RowKnown, Known DEF m, r
      <3>2. NotSent(w, filed[m], attachment[m])
        BY <2>1, <2>3, <3>1 DEF NotSent, Sends, InUpload, Lasting, GoesInline
      <3> QED
        BY <1>1, <2>1, <2>3, <2>5, <3>1, <3>2 DEF Turn, GoesInline, r
    <2> QED
      BY <1>1, <1>3, <2>2, <2>3, <2>4, <2>6, TurnProgresses DEF m, f, r
  <1>4. CASE Settles(x, r) /\ Works(x, Done(x, r)) /\ UNCHANGED <<vars, fileVars>>
    <2> DEFINE w == Done(x, r)
    <2>1. /\ Fits(execution[x].phase, execution[x].reuse, w)
          /\ Anew(execution[x].phase, execution[x].reuse, w)
          /\ \A g \in 1 .. files[m] : g # f /\ Left(work[x], g) => Left(w, g)
          /\ \A g \in File : Unstaged(w, g) => Unstaged(work[x], g) /\ g # f
      BY <1>1, DoneFits DEF m, f
    <2>2. /\ Works(x, w) /\ attachment' = attachment /\ filed' = filed /\ stage' = stage
          /\ UNCHANGED vars
      BY <1>4 DEF fileVars
    <2> HIDE DEF w
    <2>3. /\ r.status \in {"imported", "skipped", "failed"}
          /\ work[x].why = "inline" => r.status # "failed"
      BY <1>1, <1>4 DEF Settles, TakesOver, RetryFailed, Work
    <2>4. ASSUME m \notin doubtful PROVE Turn(x, w, m, f)
      <3>1. filed[m][f] = 1 => r.status \in Lasting
        BY <1>1, <2>3, <2>4, RowKnown DEF m, r, Lasting, GoesInline
      <3>2. Handled(r, faults) /\ r.status # "processing"
        BY <2>3 DEF Handled
      <3> QED
        BY <1>1, <2>1, <2>2, <2>4, <3>1, <3>2, AnewTurn DEF m, f, r
    <2> QED
      BY <1>1, <2>1, <2>2, <2>4, TurnProgresses DEF m, f, r
  <1>5. CASE Raises(x)
    BY <1>5, RaisesFinishes
  <1>6. CASE /\ r.status \in {"imported", "skipped", "failed"}
             /\ ~TakesOver(x, r) /\ ~Settles(x, r)
             /\ Works(x, Claimed(x)) /\ UNCHANGED <<vars, fileVars>>
    <2>1. work[x].why # "deliver"
      BY <1>6 DEF Settles
    <2> QED
      BY <1>1, <1>6, <2>1, ClaimedTurns DEF m, f, r, fileVars
  <1> QED
    BY <1>2, <1>3, <1>4, <1>5, <1>6 DEF ClaimFile, Mine, m, f, r

LEMMA RetakeTurns ==
  ASSUME NEW x \in Executors, Acting(x), Retake(x)
  PROVE  Progresses(x)
  BY ClaimedTurns DEF Retake, Step

LEMMA MarkFileTurns ==
  ASSUME NEW x \in Executors, Acting(x), MarkFile(x)
  PROVE  Progresses(x)
  <1> DEFINE m == At(x)
             f == work[x].file
             r == work[x].writes
             w == Done(x, r)
  <1>1. work[x].step = "mark"
    BY DEF MarkFile, Step
  <1>2. /\ f # 0 /\ f \in File /\ m \in Messages /\ Said(r)
        /\ attachment \in [Messages -> [File -> AttachmentRow]] /\ filed[m][f] \in Nat
    BY <1>1, Known DEF Shaped, Fits, Acting, Tracked, FileInv, FilesTypeOK
  <1>3. /\ Fits(execution[x].phase, execution[x].reuse, w)
        /\ Anew(execution[x].phase, execution[x].reuse, w)
        /\ \A g \in 1 .. files[m] : g # f /\ Left(work[x], g) => Left(w, g)
        /\ \A g \in File : Unstaged(w, g) => Unstaged(work[x], g) /\ g # f
    BY <1>1, <1>2, DoneFits
  <1>4. /\ Works(x, w) /\ filed' = filed /\ stage' = stage /\ UNCHANGED vars
        /\ attachment'[m][f] = r
    BY <1>2 DEF MarkFile, WriteAttachment
  <1>5. ASSUME m \notin doubtful PROVE r.status = "failed" => filed[m][f] = 0
    BY <1>1, <1>2, <1>5, Known DEF NotSent, Sends
  <1> HIDE DEF m, f, r, w
  <1>6. ASSUME m \notin doubtful PROVE Turn(x, w, m, f)
    <2>1. filed[m][f] = 1 => r.status \in Lasting
      BY <1>2, <1>5, <1>6 DEF Said, Lasting
    <2>2. Handled(r, faults) /\ r.status # "processing"
      BY <1>2 DEF Said, Handled
    <2> QED
      BY <1>2, <1>3, <1>4, <1>6, <2>1, <2>2, AnewTurn DEF m, f
  <1> QED
    BY <1>2, <1>3, <1>4, <1>6, TurnProgresses DEF m, f, Said

\* A file goes on in its upload, from there to its send, or is given up.
LEMMA UploadTurns ==
  ASSUME NEW x \in Executors, Acting(x), NEW m, m = At(x), NEW f, f = work[x].file,
         work[x].step \in {"stage", "restage", "upload"},
         NEW w, Works(x, w), UNCHANGED <<vars, files, attachment, filed, blank>>,
         w.file = f, w.prepared = work[x].prepared,
         \/ w.why = work[x].why /\ w.step \in {"restage", "upload"}
         \/ /\ w.why = work[x].why /\ w.held # "none"
            /\ w.step = IF InPhase(x, "send") THEN "primary" ELSE "send"
         \/ w.step = "claim" /\ w.why = "upload"
  PROVE  Progresses(x)
  <1> DEFINE phase == execution[x].phase
             r == attachment[m][f]
  <1>1. /\ f \in File /\ m \in Messages /\ PlainRow(r) /\ filed[m][f] \in Nat
        /\ Fits(phase, execution[x].reuse, work[x]) /\ work[x].why \in {"inline", "deliver"}
        /\ phase \in {"send", "sent"}
    BY Known DEF Shaped
  <1>2. /\ ~Preparing(work[x]) /\ ~Preparing(w) /\ f \notin w.prepared
        /\ (w.step = "primary" <=>
              phase = "send" /\ w.step \notin {"restage", "upload", "claim"})
        /\ w.step = "send" => phase = "sent"
    BY <1>1 DEF Preparing, Fits, InPhase
  <1>3. Fits(phase, execution[x].reuse, w)
    BY <1>1, <1>2 DEF Fits
  <1>4. /\ Left(w, f)
        /\ ~Unstaged(w, f)
        /\ \A g \in File : g # f /\ Left(work[x], g) => Left(w, g)
        /\ \A g \in File : g # f /\ Unstaged(w, g) => Unstaged(work[x], g)
    BY <1>1, <1>2 DEF Left, Unstaged
  <1>5. Owning(work[x]) => Owning(w)
    BY <1>1, <1>2 DEF Owning, InUpload, Fits
  <1>6. attachment' = attachment /\ filed' = filed
    OBVIOUS
  <1> HIDE DEF phase, r
  <1>7. ASSUME m \notin doubtful PROVE Turn(x, w, m, f)
    <2>1. /\ r.status = "processing" => faults > 0 \/ Owning(work[x])
          /\ NotSent(work[x], filed[m], attachment[m])
      BY <1>1, <1>7, RowKnown, Known DEF r
    <2>2. /\ filed[m][f] = 0
          /\ work[x].why = "deliver" => r.status = "processing"
      BY <2>1 DEF NotSent, Sends, InUpload, r
    <2>3. NotSent(w, filed[m], attachment[m])
      BY <1>1, <2>2 DEF NotSent, InUpload, r
    <2> QED
      BY <1>1, <1>4, <1>5, <1>6, <2>1, <2>2, <2>3 DEF Turn, r
  <1> QED
    BY <1>1, <1>3, <1>6, <1>7, TurnProgresses DEF phase, r

\* The work with an upload in hand.
LEMMA UploadInHand ==
  ASSUME NEW x \in Executors, Acting(x), NEW m, m = At(x), NEW f, f = work[x].file,
         work[x].step \in {"stage", "restage", "upload"},
         UNCHANGED <<vars, files, attachment, filed, blank>>,
         \/ \E held \in {"staged", "redacted", "direct"} : HasUpload(x, held)
         \/ \E step \in {"restage", "upload"} : Works(x, [work[x] EXCEPT !.step = step])
         \/ Works(x, [work[x] EXCEPT !.step = "claim", !.why = "upload"])
  PROVE  Progresses(x)
  <1>1. work[x] \in Work
    BY Known
  <1>2. ASSUME NEW held \in {"staged", "redacted", "direct"}, HasUpload(x, held)
        PROVE  Progresses(x)
    <2> DEFINE w == [work[x] EXCEPT !.held = held,
                                    !.step = IF InPhase(x, "send") THEN "primary" ELSE "send"]
    <2>1. /\ w.file = f /\ w.prepared = work[x].prepared /\ w.why = work[x].why
          /\ w.held = held /\ w.step = IF InPhase(x, "send") THEN "primary" ELSE "send"
      BY <1>1 DEF Work
    <2>2. Works(x, w)
      BY <1>2 DEF HasUpload
    <2> HIDE DEF w
    <2> QED
      BY <1>2, <2>1, <2>2, UploadTurns
  <1>3. ASSUME NEW step \in {"restage", "upload"}, Works(x, [work[x] EXCEPT !.step = step])
        PROVE  Progresses(x)
    <2> DEFINE w == [work[x] EXCEPT !.step = step]
    <2>1. /\ w.file = f /\ w.prepared = work[x].prepared /\ w.why = work[x].why
          /\ w.step = step
      BY <1>1 DEF Work
    <2>2. Works(x, w)
      BY <1>3
    <2> HIDE DEF w
    <2> QED
      BY <1>3, <2>1, <2>2, UploadTurns
  <1>4. CASE Works(x, [work[x] EXCEPT !.step = "claim", !.why = "upload"])
    <2> DEFINE w == [work[x] EXCEPT !.step = "claim", !.why = "upload"]
    <2>1. /\ w.file = f /\ w.prepared = work[x].prepared /\ w.why = "upload"
          /\ w.step = "claim"
      BY <1>1 DEF Work
    <2>2. Works(x, w)
      BY <1>4
    <2> HIDE DEF w
    <2> QED
      BY <2>1, <2>2, UploadTurns
  <1> QED
    BY <1>2, <1>3, <1>4

\* A backfill that finds the upload failed goes by the row of the attachment: the
\* failure is one that a fault left behind.
LEMMA GivenUpTurns ==
  ASSUME NEW x \in Backfills, Acting(x), NEW m, m = At(x), NEW f, f = work[x].file,
         NEW c \in Targets, work[x].step = "stage", stage[m][f][c].status = "failed",
         attachment[m][f].status # "absent", Works(x, Done(x, attachment[m][f])),
         UNCHANGED <<vars, fileVars>>
  PROVE  Progresses(x)
  <1> DEFINE r == attachment[m][f]
             w == Done(x, r)
  <1>1. /\ x \in Executors /\ f # 0 /\ f \in File /\ m \in Messages /\ PlainRow(r)
        /\ filed[m][f] \in Nat /\ work[x].why \in {"inline", "deliver"}
    BY Known DEF Shaped, Executors
  <1>2. /\ Fits(execution[x].phase, execution[x].reuse, w)
        /\ Anew(execution[x].phase, execution[x].reuse, w)
        /\ \A g \in 1 .. files[m] : g # f /\ Left(work[x], g) => Left(w, g)
        /\ \A g \in File : Unstaged(w, g) => Unstaged(work[x], g) /\ g # f
    BY <1>1, DoneFits
  <1>3. Works(x, w) /\ attachment' = attachment /\ filed' = filed /\ stage' = stage
    BY DEF fileVars
  <1>4. Unstaged(work[x], f)
    BY DEF Unstaged
  <1> HIDE DEF w, r
  <1>5. ASSUME m \notin doubtful PROVE Turn(x, w, m, f)
    <2>1. /\ x \in Backfills /\ faults = 0 /\ Unstaged(work[x], f) =>
               NoFailedUpload(stage[m][f])
          /\ NotSent(work[x], filed[m], attachment[m])
      BY <1>1, <1>5, RowKnown, Known
    <2>2. filed[m][f] = 0
      BY <1>1, <2>1 DEF NotSent, Sends, InUpload
    <2>3. faults > 0
      <3>1. faults # 0 /\ faults \in Nat
        BY <1>1, <1>4, <2>1 DEF NoFailedUpload, Acting, Frame
      <3> QED
        BY <3>1
    <2>4. Handled(r, faults)
      BY <2>3 DEF Handled, r
    <2> QED
      BY <1>1, <1>2, <1>3, <1>5, <2>2, <2>3, <2>4, AnewTurn DEF r
  <1> QED
    BY <1>1, <1>2, <1>3, <1>5, TurnProgresses DEF r

LEMMA ClaimStageTurns ==
  ASSUME NEW x \in Executors, Acting(x), NEW c \in Targets, ClaimStage(x, c)
  PROVE  Progresses(x) \/ Finishes(x)
  <1> DEFINE m == At(x)
             f == work[x].file
             s == stage[m][f][c]
             again == s.status = "failed" /\ (x \in Replays \/ s.cancelled)
  <1>1. work[x].step = "stage"
    BY DEF ClaimStage, Step
  <1>2. CASE /\ WriteStage(x, c, StageClaimed)
             /\ Works(x, [work[x] EXCEPT !.step = "upload"])
             /\ UNCHANGED <<vars, files, attachment, filed, blank>>
    BY <1>1, <1>2, UploadInHand
  <1>3. CASE Raises(x)
    BY <1>3, RaisesFinishes
  <1>4. CASE Reused(x) /\ UNCHANGED <<vars, fileVars>>
    BY <1>1, <1>4, UploadInHand, AttachmentAssumption
       DEF AttachmentAssumption, Reused, fileVars
  <1>5. CASE Works(x, [work[x] EXCEPT !.step = "restage"]) /\ UNCHANGED <<vars, fileVars>>
    BY <1>1, <1>5, UploadInHand DEF fileVars
  <1>6. CASE /\ s.status = "failed" /\ ~again /\ attachment[m][f].status = "absent"
             /\ Works(x, [work[x] EXCEPT !.step = "upload"]) /\ UNCHANGED <<vars, fileVars>>
    BY <1>1, <1>6, UploadInHand DEF fileVars
  <1>7. CASE /\ s.status = "failed" /\ ~again /\ attachment[m][f].status # "absent"
             /\ Works(x, Done(x, attachment[m][f])) /\ UNCHANGED <<vars, fileVars>>
    BY <1>1, <1>7, GivenUpTurns DEF Executors
  <1> QED
    BY <1>2, <1>3, <1>4, <1>5, <1>6, <1>7 DEF ClaimStage, MyStage, Mine

LEMMA UploadSteps ==
  ASSUME NEW x \in Executors, Acting(x), NEW c,
         Restage(x, c) \/ UploadSucceeds(x, c) \/ UploadFails(x, c)
  PROVE  Progresses(x)
  BY UploadInHand DEF Restage, UploadSucceeds, UploadFails, SendsDirectly, Step

\* The result of the send of a follow-up is known: its row is to be written.
LEMMA FileSendTurns ==
  ASSUME NEW x \in Executors, Acting(x), FileSent(x) \/ FileRefused(x) \/ FileUnanswered(x)
  PROVE  Progresses(x)
  <1> DEFINE m == At(x)
             f == work[x].file
             phase == execution[x].phase
  <1>1. work[x].step = "send" /\ UNCHANGED <<vars, files, attachment, stage>>
    BY DEF FileSent, FileRefused, FileUnanswered, Step, fileVars
  <1>2. /\ f \in File /\ m \in Messages /\ PlainRow(attachment[m][f]) /\ filed[m][f] \in Nat
        /\ Fits(phase, execution[x].reuse, work[x]) /\ work[x].why = "deliver"
        /\ phase = "sent" /\ work[x] \in Work /\ filed \in [Messages -> [File -> Nat]]
    BY <1>1, Known DEF Shaped, Fits, Acting, Tracked, FileInv, FilesTypeOK
  <1>3. copies[m] > 0
    BY <1>2 DEF Acting, Tracked, CopyInv, KnowsSent, InPhase
  <1>4. PICK r : /\ WillMark(x, r) /\ Said(r)
                 /\ r.status = "failed" => filed' = filed
                 /\ \/ filed' = filed
                    \/ filed' = [filed EXCEPT ![m][f] = @ + 1]
    BY DEF FileSent, FileRefused, FileUnanswered, FileArrives, fileVars, ImportedFile,
           FailedFile, AmbiguousFile, Said, PlainRow
  <1> DEFINE w == [work[x] EXCEPT !.step = "mark", !.writes = r]
  <1>5. /\ w.step = "mark" /\ w.writes = r /\ w.file = f /\ w.why = "deliver"
        /\ w.prepared = work[x].prepared
    BY <1>2 DEF Work
  <1>6. Works(x, w)
    BY <1>4 DEF WillMark
  <1>7. filed'[m][f] = filed[m][f] \/ (filed'[m][f] = filed[m][f] + 1 /\ r.status # "failed")
    <2>1. filed[m] \in [File -> Nat]
      BY <1>2
    <2> QED
      BY <1>2, <1>4, <2>1
  <1> HIDE DEF w, m, f, phase
  <1>8. Fits(phase, execution[x].reuse, w)
    BY <1>2, <1>4, <1>5 DEF Fits, Preparing, f
  <1>9. /\ ~Preparing(work[x]) /\ ~Preparing(w)
        /\ f \notin w.prepared /\ Left(w, f) /\ Owning(w)
        /\ ~Unstaged(w, f)
        /\ \A g \in File : g # f /\ Left(work[x], g) => Left(w, g)
        /\ \A g \in File : g # f /\ Unstaged(w, g) => Unstaged(work[x], g)
    BY <1>1, <1>2, <1>5 DEF Preparing, Fits, Left, Unstaged, Owning, f
  <1>10. ASSUME m \notin doubtful PROVE Turn(x, w, m, f)
    <2>1. filed[m][f] = 0 /\ attachment[m][f].status = "processing"
      BY <1>1, <1>2, <1>10, Known DEF NotSent, Sends, InUpload, m, f
    <2>2. filed'[m][f] <= 1 /\ (filed'[m][f] = 1 => r.status # "failed")
          /\ (r.status = "failed" => filed'[m][f] = 0)
      BY <1>2, <1>4, <1>7, <2>1
    <2>3. NotSent(w, filed'[m], attachment'[m])
      BY <1>2, <1>5, <2>2 DEF NotSent, Sends, InUpload
    <2> QED
      BY <1>1, <1>2, <1>3, <1>5, <1>9, <2>1, <2>2, <2>3 DEF Turn, Lasting
  <1> QED
    BY <1>1, <1>2, <1>6, <1>8, <1>10, TurnProgresses DEF m, f, phase

\* The message is answered while nothing was to be sent of it but files.
LEMMA ReuseAnswered ==
  ASSUME NEW x \in Executors, Acting(x), PrimaryAnswered(x), execution[x].reuse
  PROVE  Progresses(x)
  <1> DEFINE m == At(x)
             f == work[x].file
  <1>1. /\ work' = work /\ filed' = filed /\ attachment' = attachment /\ stage' = stage
        /\ copies' = copies /\ doubtful' = doubtful /\ faults' = faults
        /\ execution[x].phase = "send" /\ GoTo(x, "sent")
    BY DEF PrimaryAnswered, SendAnswered, InPhase
  <1>2. execution'[x].phase = "sent" /\ InDeliver(x)'
    BY <1>1 DEF GoTo, Becomes, Acting, Tracked, TypeInv, TypeOK, Execution, InDeliver, InPhase
  <1>3. /\ Fits("send", TRUE, work[x])
        /\ f \in File => PlainRow(attachment[m][f])
    BY <1>1, Known
  <1>4. Fits("sent", TRUE, work[x]) /\ ~Owning(work[x])
    BY <1>3 DEF Fits, Preparing, Owning, InUpload
  <1>5. ASSUME m \notin doubtful
        PROVE  /\ f \in File => NotSent(work[x], filed[m], attachment[m])
               /\ f \in File => FileAfter(x, m, f)
    <2>1. f \in File => NotSent(work[x], filed[m], attachment[m])
      BY <1>5, Known
    <2>2. ASSUME f \in File PROVE FileAfter(x, m, f)
      <3>1. /\ filed[m][f] <= 1
            /\ filed[m][f] = 1 =>
                 /\ copies[m] > 0
                 /\ attachment[m][f].status \in Lasting \/ GoesInline("send", work[x], f)
            /\ attachment[m][f].status = "processing" => faults > 0
            /\ x \in Backfills /\ faults = 0 /\ Unstaged(work[x], f) =>
                 NoFailedUpload(stage[m][f])
        BY <1>1, <1>4, <1>5, <2>2, RowKnown
      <3> QED
        BY <1>1, <3>1 DEF FileAfter, GoesInline
    <2> QED
      BY <2>1, <2>2
  <1> QED
    BY <1>1, <1>2, <1>3, <1>4, <1>5 DEF Progresses

\* The message is sent, with its only file or before its files.
LEMMA MessageAnswered ==
  ASSUME NEW x \in Executors, Acting(x), PrimaryAnswered(x), ~execution[x].reuse
  PROVE  Progresses(x)
  <1> DEFINE m == At(x)
             f == work[x].file
  <1>1. /\ attachment' = attachment /\ stage' = stage /\ doubtful' = doubtful
        /\ faults' = faults /\ execution[x].phase = "send" /\ GoTo(x, "sent")
        /\ work[x].step = "primary" /\ Arrives(m) /\ WithPrimary(x)
    BY DEF PrimaryAnswered, SendAnswered, InPhase, PrimaryReady, Step
  <1>2. execution'[x].phase = "sent" /\ InDeliver(x)'
    BY <1>1 DEF GoTo, Becomes, Acting, Tracked, TypeInv, TypeOK, Execution, InDeliver, InPhase
  <1>3. /\ Fits("send", FALSE, work[x]) /\ Shaped(work[x]) /\ work[x] \in Work
        /\ execution[x].reuse = FALSE /\ m \in Messages
        /\ f \in File => PlainRow(attachment[m][f])
        /\ f # 0 => f \in File
        /\ files[m] \in 0 .. MaxFiles
        /\ work \in [Executors -> Work] /\ filed \in [Messages -> [File -> Nat]]
    BY <1>1, Known DEF Acting, Tracked, FileInv, FilesTypeOK
  <1>4. ~Preparing(work[x]) /\ ~Owning(work[x]) /\ f \notin work[x].prepared
    BY <1>1, <1>3 DEF Fits, Owning, InUpload
  <1>5. copies'[m] > 0
    <2>1. copies \in [Messages -> Nat]
      BY DEF Acting, Tracked, TypeInv, TypeOK
    <2> QED
      BY <1>1, <1>3, <2>1 DEF Arrives
  <1>6. \A g \in 1 .. files[m] : g \in File
    BY <1>3, AttachmentAssumption DEF AttachmentAssumption, File
  <1>7. ASSUME m \notin doubtful, NEW g \in File
        PROVE  /\ filed[m][g] = 0
               /\ attachment[m][g].status = "processing" => faults > 0
    BY <1>1, <1>3, <1>4, <1>7, Known, RowKnown DEF InPhase
  <1> HIDE DEF m, f
  <1>8. CASE work[x].held = "none"
    <2> DEFINE w == Onward(work[x])
    <2>1. Works(x, w) /\ filed' = filed
      BY <1>8 DEF PrimaryAnswered, WithPrimary
    <2>2. work'[x] = w
      BY <1>3, <2>1 DEF Works
    <2>3. /\ Fits("sent", FALSE, w) /\ Anew("sent", FALSE, w)
          /\ \A g \in File : g \in work[x].prepared => Left(w, g)
          /\ \A g \in File : Unstaged(w, g) => g \in work[x].prepared
      BY <1>3, OnwardFits
    <2> HIDE DEF w
    <2>4. /\ \A g \in 1 .. files[m] : Left(work[x], g) => Left(w, g)
          /\ \A g \in File : Unstaged(w, g) => Unstaged(work[x], g)
          /\ ~Unstaged(w, f) \/ f \notin File
      BY <1>1, <1>4, <1>6, <1>8, <2>3 DEF Left, Unstaged, f
    <2>5. ~Sends(w) /\ ~InUpload(w) /\ ~(w.step = "claim" /\ w.why \in {"skip", "download"})
      BY <2>3 DEF Anew, Sends, InUpload
    <2>6. ASSUME m \notin doubtful
          PROVE  /\ NotSent(w, filed'[m], attachment'[m])
                 /\ f \in File => FileAfter(x, m, f)
      <3>1. NotSent(w, filed'[m], attachment'[m])
        BY <2>5 DEF NotSent
      <3>2. ASSUME f \in File PROVE FileAfter(x, m, f)
        <4>1. filed[m][f] = 0 /\ (attachment[m][f].status = "processing" => faults > 0)
          BY <1>7, <2>6, <3>2
        <4> QED
          BY <1>1, <2>1, <2>2, <2>4, <3>2, <4>1 DEF FileAfter
      <3> QED
        BY <3>1, <3>2
    <2> QED
      BY <1>1, <1>2, <1>3, <2>2, <2>3, <2>4, <2>6 DEF Progresses, m, f
  <1>9. CASE work[x].held # "none"
    <2> DEFINE w == [work[x] EXCEPT !.step = "claim", !.why = "inline"]
    <2>1. w.step = "claim" /\ w.why = "inline" /\ w.file = f /\ w.prepared = work[x].prepared
      BY <1>3 DEF Work, f
    <2>2. Works(x, w) /\ FileArrives(x, f)
      BY <1>9 DEF PrimaryAnswered, WithPrimary, f
    <2>3. work'[x] = w
      BY <1>3, <2>2 DEF Works
    <2> HIDE DEF w
    <2>4. f \in File
      BY <1>1, <1>3, <1>9 DEF Shaped, f
    <2>5. filed'[m][f] = filed[m][f] \/ filed'[m][f] = filed[m][f] + 1
      <3>1. filed[m] \in [File -> Nat]
        BY <1>3
      <3> QED
        BY <1>3, <2>2, <2>4, <3>1 DEF FileArrives, m
    <2>6. Fits("sent", FALSE, w)
      BY <1>3, <1>4, <2>1 DEF Fits, Preparing, f
    <2>7. /\ Left(w, f) /\ ~Unstaged(w, f)
          /\ \A g \in File : g # f /\ Left(work[x], g) => Left(w, g)
          /\ \A g \in File : g # f /\ Unstaged(w, g) => Unstaged(work[x], g)
      BY <1>1, <1>4, <2>1 DEF Left, Unstaged, Preparing, f
    <2>8. ASSUME m \notin doubtful
          PROVE  NotSent(w, filed'[m], attachment'[m]) /\ FileAfter(x, m, f)
      <3>1. filed[m][f] = 0 /\ (attachment[m][f].status = "processing" => faults > 0)
        BY <1>7, <2>4, <2>8
      <3>2. filed'[m][f] <= 1
        BY <2>5, <3>1
      <3>3. GoesInline("sent", w, f)
        BY <2>1 DEF GoesInline
      <3>4. NotSent(w, filed'[m], attachment'[m])
        BY <2>1 DEF NotSent, Sends, InUpload
      <3> QED
        BY <1>1, <1>2, <1>5, <2>3, <2>7, <3>1, <3>2, <3>3, <3>4 DEF FileAfter
    <2> QED
      BY <1>1, <1>2, <1>3, <1>6, <2>3, <2>4, <2>6, <2>7, <2>8 DEF Progresses, m, f
  <1> QED
    BY <1>8, <1>9

LEMMA PrimaryEnds ==
  ASSUME NEW x \in Executors, Acting(x),
         PrimaryBreaksOff(x) \/ PrimaryRefused(x) \/ PrimaryUnanswered(x)
  PROVE  Progresses(x) \/ Finishes(x)
  <1>1. /\ execution \in [Executors -> Execution] /\ At(x) \in Messages
        /\ Fits(execution[x].phase, execution[x].reuse, work[x])
        /\ work[x].file \in File => PlainRow(attachment[At(x)][work[x].file])
        /\ work[x].file # 0 => work[x].file \in File
    BY Known DEF Acting, Tracked, TypeInv, TypeOK
  <1>2. CASE PrimaryBreaksOff(x)
    <2>1. /\ execution' = execution /\ work' = work /\ attachment' = attachment
          /\ At(x) \in doubtful'
      BY <1>2 DEF PrimaryBreaksOff, PartArrives
    <2>2. InDeliver(x)'
      BY <2>1 DEF Acting, Tracked, InDeliver, InPhase
    <2> QED
      BY <1>1, <2>1, <2>2 DEF Progresses
  <1>3. CASE PrimaryRefused(x)
    <2>1. /\ InPhase(x, "send") /\ GoTo(x, "failing") /\ UNCHANGED fileVars
          /\ PrimaryReady(x) \/ work[x] = Begin(At(x), execution[x].reuse)
      BY <1>3 DEF PrimaryRefused, SendRefused
    <2>2. execution'[x].phase = "failing" /\ ~InDeliver(x)'
      BY <1>1, <2>1 DEF GoTo, Becomes, Execution, InDeliver, InPhase
    <2>3. work[x].step \in {"prepare", "primary", "return"}
      <3>1. CASE work[x] = Begin(At(x), execution[x].reuse)
        BY <1>1, <3>1, BeginFits, Known
      <3>2. CASE PrimaryReady(x)
        BY <1>1, <2>1, <3>2 DEF PrimaryReady, Fits, Step, InPhase
      <3> QED
        BY <2>1, <3>1, <3>2
    <2>4. ~Owning(work[x])
      BY <1>1, <2>3 DEF Owning, InUpload
    <2>5. \A f \in File : ~GoesInline(execution[x].phase, work[x], f)
      BY <2>1 DEF GoesInline, InPhase
    <2> QED
      BY <1>1, <2>1, <2>2, <2>4, <2>5 DEF Finishes, fileVars
  <1>4. CASE PrimaryUnanswered(x)
    <2>1. GoTo(x, "unclear") /\ attachment' = attachment /\ At(x) \in doubtful'
      BY <1>4 DEF PrimaryUnanswered, SendUnanswered
    <2>2. ~InDeliver(x)'
      BY <1>1, <2>1 DEF GoTo, Becomes, Execution, InDeliver, InPhase
    <2> QED
      BY <1>1, <2>1, <2>2 DEF Finishes
  <1> QED
    BY <1>2, <1>3, <1>4

LEMMA ReturnFinishes ==
  ASSUME NEW x \in Executors, Acting(x), Return(x)
  PROVE  Finishes(x)
  <1>1. /\ work[x].step = "return" /\ UNCHANGED fileVars /\ DeliverReturns(x)
    BY DEF Return, Step
  <1>2. execution'[x].phase = "imported" /\ ~InDeliver(x)'
    <2>1. execution \in [Executors -> Execution]
      BY DEF Acting, Tracked, TypeInv, TypeOK
    <2> QED
      BY <1>1, <2>1 DEF DeliverReturns, Becomes, Execution, InDeliver, InPhase
  <1>3. /\ work[x].file = 0 /\ work[x].why = "none" /\ work[x].prepared = {}
        /\ \A f \in File : f # 0
    BY <1>1, Known DEF Fits, File
  <1>4. \A f \in File : ~GoesInline(execution[x].phase, work[x], f) /\ ~Left(work[x], f)
    BY <1>1, <1>3 DEF GoesInline, Left, Preparing
  <1>5. ~Owning(work[x])
    BY <1>1, <1>3 DEF Owning, InUpload
  <1> QED
    BY <1>1, <1>2, <1>3, <1>4, <1>5 DEF Finishes, fileVars

\* A cancellation that leaves no doubt comes before the message was sent, and writes no
\* row of an attachment.
LEMMA CancelFinishes ==
  ASSUME NEW x \in Executors, Acting(x), NEW c, CancelFiles(x, c)
  PROVE  Finishes(x)
  <1> DEFINE m == At(x)
             f == work[x].file
  <1>1. /\ execution \in [Executors -> Execution] /\ m \in Messages /\ faults \in Nat
        /\ Fits(execution[x].phase, execution[x].reuse, work[x])
        /\ f \in File => PlainRow(attachment[m][f])
        /\ attachment \in [Messages -> [File -> AttachmentRow]]
    BY Known DEF Acting, Tracked, Frame, TypeInv, TypeOK, FileInv, FilesTypeOK
  <1>2. /\ GoTo(x, "cancelled") /\ faults' = faults + 1
        /\ DoubtIf(x, SentUnrecorded(x) \/ execution[x].reuse)
        /\ filed' = filed /\ InDeliver(x)
    BY DEF CancelFiles, Cancel, Fault
  <1>3. execution'[x].phase = "cancelled" /\ ~InDeliver(x)'
    BY <1>1, <1>2 DEF GoTo, Becomes, Execution, InDeliver, InPhase
  <1>4. faults' > 0
    BY <1>1, <1>2
  <1>5. f \in File => PlainRow(attachment'[m][f])
    BY <1>1 DEF CancelFiles, WriteAttachment, CancelledFile, PlainRow
  <1>6. ASSUME m \notin doubtful'
        PROVE  /\ attachment' = attachment
               /\ \A g \in File : ~GoesInline(execution[x].phase, work[x], g)
    <2>1. InPhase(x, "send")
      BY <1>2, <1>6 DEF DoubtIf, SentUnrecorded, InDeliver
    <2>2. ~FollowUp(x) /\ ~(work[x].why = "inline" /\ Step(x, "mark"))
      BY <1>1, <2>1 DEF FollowUp, Fits, Step, InPhase
    <2> QED
      BY <2>1, <2>2 DEF CancelFiles, GoesInline, InPhase
  <1> HIDE DEF m, f
  <1> QED
    BY <1>2, <1>3, <1>4, <1>5, <1>6 DEF Finishes, m, f

\* A step inside deliver() keeps the invariants of the files.
LEMMA FileStepKeepsFiles ==
  ASSUME TypeInv, TypeInv', FileInv, CopyInv, SendInv, FitInv, MessagesInv,
         NEW x \in Executors, NEW c \in Targets, FileStep(x, c)
  PROVE  FitInv' /\ MessagesInv'
  <1>1. Acting(x)
    BY FileStepHands, FileStepFrame, InHand DEF Acting, Tracked, Working
  <1>2. Progresses(x) \/ Finishes(x)
    <2>1. CASE Prepare(x) \/ ClaimFile(x) \/ Retake(x) \/ MarkFile(x)
      BY <1>1, <2>1, PrepareTurns, ClaimFileTurns, RetakeTurns, MarkFileTurns
    <2>2. CASE ClaimStage(x, c) \/ Restage(x, c) \/ UploadSucceeds(x, c) \/ UploadFails(x, c)
      BY <1>1, <2>2, ClaimStageTurns, UploadSteps
    <2>3. CASE \/ PrimaryAnswered(x) \/ PrimaryBreaksOff(x) \/ PrimaryRefused(x)
               \/ PrimaryUnanswered(x)
      BY <1>1, <2>3, ReuseAnswered, MessageAnswered, PrimaryEnds
    <2>4. CASE \/ FileSent(x) \/ FileRefused(x) \/ FileUnanswered(x) \/ Return(x)
               \/ CancelFiles(x, c)
      BY <1>1, <2>4, FileSendTurns, ReturnFinishes, CancelFinishes
    <2> QED
      BY <2>1, <2>2, <2>3, <2>4 DEF FileStep
  <1> QED
    BY <1>1, <1>2, StepKeepsFiles DEF Acting

-----------------------------------------------------------------------------
(* Without a fault, nothing is claimed again.                              *)

\* Without a fault, no execution takes over a message, has one interrupted or left
\* unclear; a row in processing is young and in somebody's hands, and none is left that
\* may be taken over.
Calm(m) ==
  /\ \A x \in Executors :
        At(x) = m => execution[x].phase \notin {"reclaim", "cancelled", "unclear"}
  /\ row[m].status = "processing" => row[m].fresh /\ \E x \in Executors : AtWork(x, m)
  /\ row[m].status = "ambiguous" => row[m].sync
  /\ ~RetryableCancel(row[m])

CalmInv == faults = 0 => \A m \in Messages \ doubtful : Calm(m)

\* x moves between two messages.
Strolls(x) ==
  /\ Rests(x) /\ row' = row
  /\ execution[x].phase \in {"idle", "next", "save"}

LEMMA FaultsGrow ==
  ASSUME TypeInv, [Next]_vars
  PROVE  faults \in Nat /\ faults' \in Nat /\ faults' >= faults
  <1>1. faults \in Nat
    BY DeliveryAssumption DEF TypeInv, TypeOK
  <1>2. faults' = faults \/ faults' = faults + 1
    BY DEF Next, vars, BackfillStep, ReplayStep, DeliveryStep, FaultStep, Fault,
       StartBackfill, NextMessage, Claim, Reclaim, SaveCheckpoint, FinishBackfill,
       StartReplay, TakeFailed, FinishReplay, SendAnswered, PartArrives, SendRefused,
       SendUnanswered, AttachmentBlocks, DeliverReturns, MarkImported, MarkFailed,
       MarkAmbiguous, MarkCancelled, Cancel, Die, GrowsStale, Outlasted
  <1> QED
    BY <1>1, <1>2

LEMMA Strolling ==
  ASSUME TypeInv, NEW x \in Executors,
         \/ StartBackfill(x) \/ FinishBackfill(x) \/ StartReplay(x) \/ FinishReplay(x)
         \/ SaveCheckpoint(x)
  PROVE  Strolls(x)
  BY RestEffects DEF Strolls, StartBackfill, FinishBackfill, StartReplay, FinishReplay,
     SaveCheckpoint, InPhase

\* The kinds of step that are no fault.
LEMMA CalmKinds ==
  ASSUME TypeInv, [Next]_vars, faults' = 0
  PROVE  \/ UNCHANGED vars
         \/ \E m \in Messages : GrowsStale(m)
         \/ \E x \in Executors :
               \/ Strolls(x) \/ SendAnswered(x) \/ SendRefused(x) \/ DeliverReturns(x)
               \/ Marking(x)
               \/ NextMessage(x) \/ Claim(x) \/ Reclaim(x) \/ TakeFailed(x)
  <1>1. \A kind : ~Fault(kind)
    BY DeliveryAssumption DEF Fault, TypeInv, TypeOK
  <1>2. \A x \in Executors : ~PartArrives(x) /\ ~SendUnanswered(x) /\ ~AttachmentBlocks(x)
                             /\ ~Cancel(x) /\ ~Die(x)
    BY <1>1 DEF PartArrives, SendUnanswered, AttachmentBlocks, Cancel, Die
  <1>3. \A m \in Messages : ~Outlasted(m)
    BY <1>1 DEF Outlasted
  <1> QED
    BY <1>2, <1>3, Strolling
       DEF Next, BackfillStep, ReplayStep, DeliveryStep, FaultStep, Executors, Marking

\* x moves, and the row of the message stays as it is.
LEMMA CalmMoves ==
  ASSUME NEW x \in Executors, NEW m \in Messages, Calm(m), Moves(x), row'[m] = row[m],
         AtWork(x, m) => AtWork(x, m)',
         execution'[x].phase \notin {"reclaim", "cancelled", "unclear"} \/ execution'[x].at # m
  PROVE  Calm(m)'
  <1>1. \A y \in Executors : AtWork(y, m) => AtWork(y, m)'
    BY DEF Moves, AtWork, At
  <1>2. \A y \in Executors :
          At(y)' = m => execution'[y].phase \notin {"reclaim", "cancelled", "unclear"}
    BY DEF Moves, Calm, At
  <1> QED
    BY <1>1, <1>2 DEF Calm

\* x writes the row of the message.
LEMMA CalmWritten ==
  ASSUME NEW x \in Executors, NEW m \in Messages, Calm(m), At(x) = m, NEW r, Writes(x, r),
         r.status = "processing" => r.fresh /\ AtWork(x, m)',
         r.status = "ambiguous" => r.sync,
         ~RetryableCancel(r),
         execution'[x].phase \notin {"reclaim", "cancelled", "unclear"}
  PROVE  Calm(m)'
  <1>1. row'[m] = r /\ Moves(x)
    BY DEF Writes
  <1>2. \A y \in Executors :
          At(y)' = m => execution'[y].phase \notin {"reclaim", "cancelled", "unclear"}
    BY <1>1 DEF Moves, Calm, At
  <1> QED
    BY <1>1, <1>2 DEF Calm

LEMMA CalmClaims ==
  ASSUME TypeInv, NEW x \in Executors, NEW m \in Messages, OnceInv(m), Calm(m),
         Claim(x) \/ Reclaim(x)
  PROVE  Calm(m)'
  <1>1. ~AtWork(x, m)
    BY DEF Claim, Reclaim, AtWork, InPhase
  <1>2. ~Reclaimable(row[m])
    BY DEF Calm, Reclaimable, Stale, RetryableAmbiguous
  <1>3. At(x) = m => ~Reclaim(x)
    BY DEF Calm, Reclaim, InPhase
  <1>4. CASE row' = row /\ Moves(x) /\ execution'[x].phase \in {"save", "idle", "next"}
    BY <1>1, <1>4, CalmMoves
  <1>5. CASE Writes(x, ClaimedRow) /\ Comes(x, "send", At(x)) /\ ~Reclaim(x)
    <2>1. CASE At(x) = m
      <3>1. AtWork(x, m)'
        BY <1>5, <2>1 DEF Comes, AtWork, At
      <3> QED
        BY <1>5, <2>1, <3>1, CalmWritten DEF ClaimedRow, RetryableCancel, Comes
    <2>2. CASE At(x) # m
      BY <1>1, <1>5, <2>2, CalmMoves DEF Writes, Comes
    <2> QED
      BY <2>1, <2>2
  <1>6. CASE Writes(x, ClaimedRow) /\ Comes(x, "send", At(x)) /\ Reclaim(x)
    BY <1>1, <1>3, <1>6, CalmMoves DEF Writes, Comes
  <1>7. CASE Reclaimable(row[At(x)]) /\ row' = row /\ Moves(x) /\ Comes(x, "reclaim", At(x))
    BY <1>1, <1>2, <1>7, CalmMoves DEF Comes
  <1> QED
    BY <1>4, <1>5, <1>6, <1>7, ClaimEffect, ReclaimEffect DEF Rests, Comes

LEMMA CalmMarking ==
  ASSUME TypeInv, NEW x \in Executors, NEW m \in Messages, OnceInv(m), Calm(m), Marking(x)
  PROVE  Calm(m)'
  <1>1. /\ row[m] \in MessageRow
        /\ {"error", "attachment_incomplete"} \subseteq MessageError
        /\ {"unclear", "attachment_unclear"} \subseteq MessageError
    BY DEF TypeInv, TypeOK, MessageError
  <1>2. ASSUME NEW r, Writes(x, r), At(x) # m,
               \/ execution'[x].phase \in {"save", "idle", "next"}
               \/ execution'[x].at = At(x)
        PROVE  Calm(m)'
    <2>1. ~AtWork(x, m) /\ row'[m] = row[m] /\ Moves(x)
      BY <1>2 DEF AtWork, Writes
    <2> QED
      BY <1>2, <2>1, CalmMoves
  <1>3. CASE At(x) = m
    <2>1. CASE MarkImported(x)
      <3>1. /\ Writes(x, ImportedRow(row[m]))
            /\ execution'[x].phase \in {"save", "incomplete",
                                        "attachment_unclear", "idle", "next"}
        BY <1>3, <2>1, MarkEffects DEF Comes, Rests
      <3>2. ImportedRow(row[m]).status = "imported"
        BY DEF ImportedRow
      <3> QED
        BY <1>3, <3>1, <3>2, CalmWritten DEF RetryableCancel
    <2>2. CASE MarkFailed(x)
      <3>1. PICK code \in {"error", "attachment_incomplete"} :
              /\ Writes(x, FailedRow(row[m], code))
              /\ execution'[x].phase \in {"save", "idle", "next"}
        BY <1>3, <2>2, MarkEffects DEF Comes, Rests
      <3>2. FailedRow(row[m], code).status = "failed" /\ FailedRow(row[m], code).error = code
        BY <1>1, RowFields
      <3> QED
        BY <1>3, <3>1, <3>2, CalmWritten DEF RetryableCancel
    <2>3. CASE MarkAmbiguous(x)
      <3>1. PICK code \in {"unclear", "attachment_unclear"} :
              /\ execution[x].phase = code
              /\ Writes(x, AmbiguousRow(row[m], code))
              /\ execution'[x].phase \in {"idle", "next"}
        BY <1>3, <2>3, MarkEffects DEF Rests
      <3>2. execution[x].phase = "attachment_unclear"
        BY <1>3, <3>1 DEF Calm
      <3>3. HeldRow(x, m) /\ RowShape(row[m])
        BY <1>3, <3>2 DEF OnceInv, Holds
      <3>4. row[m].sync
        BY <3>2, <3>3 DEF HeldRow, RowShape
      <3>5. /\ AmbiguousRow(row[m], code).status = "ambiguous"
            /\ AmbiguousRow(row[m], code).sync
        BY <1>1, <3>4, RowFields
      <3> QED
        BY <1>3, <3>1, <3>5, CalmWritten DEF RetryableCancel
    <2>4. ~MarkCancelled(x)
      BY <1>3 DEF Calm, MarkCancelled, InPhase
    <2> QED
      BY <2>1, <2>2, <2>3, <2>4 DEF Marking
  <1>4. CASE At(x) # m
    BY <1>2, <1>4, MarkEffects DEF Marking, Comes, Rests
  <1> QED
    BY <1>3, <1>4

LEMMA CalmInvStep == TypeInv /\ SendInv /\ CalmInv /\ [Next]_vars => CalmInv'
  <1> SUFFICES ASSUME TypeInv, SendInv, CalmInv, [Next]_vars, faults' = 0,
                      NEW m \in Messages \ doubtful'
               PROVE  Calm(m)'
    BY DEF CalmInv, Messages
  <1>1. OnceInv(m) /\ Calm(m)
    BY DoubtGrows, FaultsGrow DEF CalmInv, SendInv
  <1>2. CASE UNCHANGED vars
    BY <1>1, <1>2 DEF vars, Calm, AtWork, At
  <1>3. ASSUME NEW n \in Messages, GrowsStale(n) PROVE Calm(m)'
    <2>1. row' = [row EXCEPT ![n].fresh = FALSE] /\ execution' = execution
      BY <1>3 DEF GrowsStale, Aged
    <2>2. n = m => row[m].status # "processing"
      BY <1>1, <1>3 DEF GrowsStale, Calm
    <2>3. /\ row'[m].status = row[m].status /\ row'[m].sync = row[m].sync
          /\ row'[m].error = row[m].error
          /\ n # m => row'[m] = row[m]
      BY <2>1 DEF TypeInv, TypeOK, MessageRow
    <2> QED
      BY <1>1, <2>1, <2>2, <2>3 DEF Calm, RetryableCancel, AtWork, At
  <1>4. ASSUME NEW x \in Executors, Strolls(x) PROVE Calm(m)'
    BY <1>1, <1>4, CalmMoves DEF Strolls, Rests, AtWork
  <1>5. ASSUME NEW x \in Executors, SendAnswered(x) \/ SendRefused(x) \/ DeliverReturns(x)
        PROVE  Calm(m)'
    <2>1. PICK p \in {"sent", "failing", "imported"} : Moves(x) /\ Comes(x, p, At(x))
      BY <1>5, DeliverEffects
    <2>2. row' = row
      BY <1>5 DEF SendAnswered, SendRefused, DeliverReturns
    <2>3. AtWork(x, m) => AtWork(x, m)'
      BY <2>1 DEF Comes, AtWork, At
    <2> QED
      BY <1>1, <2>1, <2>2, <2>3, CalmMoves DEF Comes
  <1>6. ASSUME NEW x \in Executors, NextMessage(x) PROVE Calm(m)'
    <2>1. /\ Moves(x) /\ row' = row /\ ~AtWork(x, m)
          /\ execution'[x].phase \in {"save", "claim"}
      BY <1>6, NextMessageEffect DEF NextMessage, Comes, AtWork, InPhase
    <2> QED
      BY <1>1, <2>1, CalmMoves
  <1>7. ASSUME NEW x \in Executors, TakeFailed(x) PROVE Calm(m)'
    <2>1. /\ Moves(x) /\ row' = row /\ ~AtWork(x, m)
          /\ execution'[x].phase \in {"send", "idle", "next"}
      BY <1>7, TakeFailedEffect DEF TakeFailed, Comes, Rests, AtWork, InPhase
    <2> QED
      BY <1>1, <2>1, CalmMoves
  <1>8. ASSUME NEW x \in Executors,
               \/ Strolls(x) \/ SendAnswered(x) \/ SendRefused(x) \/ DeliverReturns(x)
               \/ Marking(x)
               \/ NextMessage(x) \/ Claim(x) \/ Reclaim(x) \/ TakeFailed(x)
        PROVE  Calm(m)'
    BY <1>1, <1>4, <1>5, <1>6, <1>7, <1>8, CalmClaims, CalmMarking
  <1> QED
    BY <1>2, <1>3, <1>8, CalmKinds

-----------------------------------------------------------------------------
(* The steps beside the files.                                             *)

\* y stays where it is, is outside deliver(), or is broken off inside it by a fault that
\* leaves in doubt what was sent.
Passes(y) ==
  \/ /\ execution'[y].phase = execution[y].phase
     /\ execution'[y].at = execution[y].at
     /\ execution'[y].reuse = execution[y].reuse
  \/ /\ ~InDeliver(y)
     /\ execution'[y].phase \notin {"sent", "imported"}
     /\ /\ execution'[y].phase = "send" /\ y \in Backfills
        /\ faults' = 0 /\ execution'[y].at \notin doubtful'
        => row[execution'[y].at].status = "absent"
  \/ /\ InDeliver(y)
     /\ execution'[y].phase \notin {"send", "sent", "imported"}
     /\ faults' > 0
     /\ SentUnrecorded(y) => At(y) \in doubtful'

\* A row is not taken back, and says imported only when deliver() has returned.
RowPasses(m) ==
  /\ row'[m].status = "absent" => row[m].status = "absent"
  /\ row'[m].status = "imported" =>
       \/ row[m].status = "imported"
       \/ \E x \in Executors : At(x) = m /\ InPhase(x, "imported")

\* A step that does nothing about files: an execution that enters deliver() begins.
Beside ==
  /\ UNCHANGED <<files, attachment, filed>>
  /\ \A y \in Executors : InDeliver(y)' =>
       work'[y] = IF InDeliver(y) THEN work[y]
                  ELSE Begin(execution'[y].at, execution'[y].reuse)
  /\ faults' = 0 => \A m \in Messages : \A f \in File :
       NoFailedUpload(stage[m][f]) => NoFailedUpload(stage'[m][f])
  /\ \A y \in Executors : Passes(y)
  /\ \A m \in Messages : RowPasses(m)

\* An execution stays inside deliver(), enters it, or leaves it.
LEMMA BesideTurns ==
  ASSUME TypeInv, TypeInv', FileInv, Beside, NEW y \in Executors
  PROVE  /\ InDeliver(y)' =>
              \/ /\ InDeliver(y) /\ execution'[y].phase = execution[y].phase /\ At(y)' = At(y)
                 /\ execution'[y].reuse = execution[y].reuse /\ work'[y] = work[y]
              \/ /\ ~InDeliver(y) /\ execution'[y].phase = "send"
                 /\ Fits("send", execution'[y].reuse, work'[y])
                 /\ work'[y].step \in {"prepare", "primary", "return"}
                 /\ \A f \in 1 .. files[At(y)'] : Left(work'[y], f)
                 /\ y \in Backfills /\ faults' = 0 /\ At(y)' \notin doubtful' =>
                      row[At(y)'].status = "absent"
         /\ InDeliver(y) /\ ~InDeliver(y)' =>
              faults' > 0 /\ (SentUnrecorded(y) => At(y) \in doubtful')
         /\ InPhase(y, "imported")' => InPhase(y, "imported") /\ At(y)' = At(y)
  <1>1. Passes(y)
    BY DEF Beside
  <1>2. ASSUME InDeliver(y)', InDeliver(y)
        PROVE  /\ execution'[y].phase = execution[y].phase /\ At(y)' = At(y)
               /\ execution'[y].reuse = execution[y].reuse /\ work'[y] = work[y]
    BY <1>1, <1>2 DEF Beside, Passes, InDeliver, InPhase, At
  <1>3. ASSUME InDeliver(y)', ~InDeliver(y)
        PROVE  /\ execution'[y].phase = "send"
               /\ Fits("send", execution'[y].reuse, work'[y])
               /\ work'[y].step \in {"prepare", "primary", "return"}
               /\ \A f \in 1 .. files[At(y)'] : Left(work'[y], f)
               /\ y \in Backfills /\ faults' = 0 /\ At(y)' \notin doubtful' =>
                    row[At(y)'].status = "absent"
    <2>1. PICK m \in Messages : m = execution'[y].at
      BY <1>3 DEF TypeInv, PhaseInv, InDeliver, InPhase, At
    <2>2. PICK reuse \in BOOLEAN : reuse = execution'[y].reuse
      BY DEF TypeInv, TypeOK, Execution
    <2>3. files[m] \in 0 .. MaxFiles
      BY FileTypes, AttachmentAssumption
    <2>4. work'[y] = Begin(m, reuse)
      BY <1>3, <2>1, <2>2 DEF Beside
    <2>5. /\ execution'[y].phase = "send"
          /\ y \in Backfills /\ faults' = 0 /\ m \notin doubtful' => row[m].status = "absent"
      BY <1>1, <1>3, <2>1 DEF Passes, InDeliver, InPhase
    <2> QED
      BY <2>1, <2>2, <2>3, <2>4, <2>5, BeginFits DEF At
  <1>4. InDeliver(y) /\ ~InDeliver(y)' =>
          faults' > 0 /\ (SentUnrecorded(y) => At(y) \in doubtful')
    BY <1>1 DEF Passes, InDeliver, InPhase
  <1>5. InPhase(y, "imported")' => InPhase(y, "imported") /\ At(y)' = At(y)
    BY <1>1 DEF Passes, InDeliver, InPhase, At
  <1> QED
    BY <1>2, <1>3, <1>4, <1>5

LEMMA BesideKeepsFit ==
  ASSUME TypeInv, TypeInv', FileInv, FitInv, Beside
  PROVE  FitInv'
  <1>1. attachment' = attachment
    BY DEF Beside
  <1>2. ASSUME NEW y \in Executors, InDeliver(y)'
        PROVE  Fits(execution'[y].phase, execution'[y].reuse, work'[y])
    BY <1>2, BesideTurns DEF FitInv
  <1> QED
    BY <1>1, <1>2 DEF FitInv

LEMMA BesideKeepsOnce ==
  ASSUME TypeInv, TypeInv', FileInv, FitInv, Beside, [Next]_vars,
         NEW m \in Messages \ doubtful', OnceFile(m)
  PROVE  OnceFile(m)'
  <1>1. filed' = filed /\ attachment' = attachment
    BY DEF Beside
  <1>2. copies[m] \in Nat /\ copies'[m] \in Nat /\ copies'[m] >= copies[m]
    BY CopiesGrow DEF TypeInv, TypeOK
  <1>3. ASSUME NEW f \in File, NEW x \in Executors, At(x) = m,
               GoesInline(execution[x].phase, work[x], f)
        PROVE  At(x)' = m /\ GoesInline(execution'[x].phase, work'[x], f)
    <2>1. InDeliver(x) /\ InPhase(x, "sent")
      BY <1>3 DEF GoesInline, InDeliver, InPhase
    <2>2. SentUnrecorded(x)
      BY <1>3, <2>1 DEF GoesInline, FitInv, Fits, SentUnrecorded
    <2>3. InDeliver(x)'
      BY <1>3, <2>1, <2>2, BesideTurns
    <2> QED
      BY <1>3, <2>1, <2>3, BesideTurns
  <1>4. ASSUME NEW f \in File
        PROVE  /\ filed'[m][f] <= 1
               /\ filed'[m][f] = 1 =>
                    /\ copies'[m] > 0
                    /\ \/ attachment'[m][f].status \in Lasting
                       \/ \E x \in Executors :
                             At(x)' = m /\ GoesInline(execution'[x].phase, work'[x], f)
    <2>1. /\ filed[m][f] <= 1
          /\ filed[m][f] = 1 =>
               /\ copies[m] > 0
               /\ \/ attachment[m][f].status \in Lasting
                  \/ \E x \in Executors :
                        At(x) = m /\ GoesInline(execution[x].phase, work[x], f)
      BY DEF OnceFile
    <2> QED
      BY <1>1, <1>2, <1>3, <2>1
  <1>5. ASSUME NEW x \in Executors, InDeliver(x)', At(x)' = m, work'[x].file \in File
        PROVE  NotSent(work'[x], filed'[m], attachment'[m])
    <2>1. CASE InDeliver(x)
      <3>1. At(x) = m /\ work'[x] = work[x]
        BY <1>5, <2>1, BesideTurns
      <3> QED
        BY <1>1, <1>5, <2>1, <3>1 DEF OnceFile
    <2>2. CASE ~InDeliver(x)
      <3>1. work'[x].step \in {"prepare", "primary", "return"}
        BY <1>5, <2>2, BesideTurns
      <3> QED
        BY <3>1 DEF NotSent, Sends, InUpload
    <2> QED
      BY <2>1, <2>2
  <1> QED
    BY <1>4, <1>5 DEF OnceFile

LEMMA BesideKeepsAccount ==
  ASSUME TypeInv, TypeInv', FileInv, Beside, [Next]_vars,
         NEW m \in Messages \ doubtful', AccountInv(m)
  PROVE  AccountInv(m)'
  <1>1. files' = files /\ attachment' = attachment
    BY DEF Beside
  <1>2. faults \in Nat /\ faults' \in Nat /\ faults' >= faults
    BY FaultsGrow
  <1>3. \A f : Handled(attachment[m][f], faults) => Handled(attachment'[m][f], faults')
    BY <1>1, <1>2 DEF Handled
  <1>4. Complete(m) => Complete(m)'
    BY <1>1, <1>3 DEF Complete
  <1>5. row'[m].status = "imported" => Complete(m)'
    BY <1>4 DEF Beside, RowPasses, AccountInv
  <1>6. \A x \in Executors : At(x)' = m /\ InPhase(x, "imported")' => Complete(m)'
    BY <1>4, BesideTurns DEF AccountInv
  <1>7. ASSUME NEW x \in Executors, At(x)' = m, InDeliver(x)', NEW f \in 1 .. files'[m]
        PROVE  Handled(attachment'[m][f], faults') \/ Left(work'[x], f)
    <2>1. CASE InDeliver(x)
      <3>1. At(x) = m /\ work'[x] = work[x]
        BY <1>7, <2>1, BesideTurns
      <3>2. Handled(attachment[m][f], faults) \/ Left(work[x], f)
        BY <1>1, <1>7, <2>1, <3>1 DEF AccountInv
      <3> QED
        BY <1>3, <3>1, <3>2
    <2>2. CASE ~InDeliver(x)
      BY <1>1, <1>7, <2>2, BesideTurns
    <2> QED
      BY <2>1, <2>2
  <1>8. ASSUME NEW f \in File, attachment'[m][f].status = "processing", ~(faults' > 0)
        PROVE  \E x \in Executors :
                  At(x)' = m /\ InDeliver(x)' /\ work'[x].file = f /\ Owning(work'[x])
    <2>1. attachment[m][f].status = "processing" /\ ~(faults > 0)
      BY <1>1, <1>2, <1>8
    <2>2. PICK x \in Executors :
            At(x) = m /\ InDeliver(x) /\ work[x].file = f /\ Owning(work[x])
      BY <2>1 DEF AccountInv
    <2>3. InDeliver(x)'
      BY <1>8, <2>2, BesideTurns
    <2>4. At(x)' = m /\ work'[x] = work[x]
      BY <2>2, <2>3, BesideTurns
    <2> QED
      BY <2>2, <2>3, <2>4
  <1> QED
    BY <1>5, <1>6, <1>7, <1>8 DEF AccountInv

LEMMA BesideKeepsCalm ==
  ASSUME TypeInv, TypeInv', FileInv, Beside, NEW m \in Messages \ doubtful', faults' = 0,
         CalmFiles(m)
  PROVE  CalmFiles(m)'
  <1>1. \A f \in File : NoFailedUpload(stage[m][f]) => NoFailedUpload(stage'[m][f])
    BY DEF Beside
  <1>2. row'[m].status = "absent" => row[m].status = "absent"
    BY DEF Beside, RowPasses
  <1>3. ASSUME NEW x \in Backfills, At(x)' = m, InDeliver(x)', NEW f \in File,
               Unstaged(work'[x], f)
        PROVE  NoFailedUpload(stage'[m][f])
    <2>1. x \in Executors
      BY DEF Executors
    <2>2. CASE InDeliver(x)
      <3>1. At(x) = m /\ work'[x] = work[x]
        BY <1>3, <2>1, <2>2, BesideTurns
      <3> QED
        BY <1>1, <1>3, <2>2, <3>1 DEF CalmFiles
    <2>3. CASE ~InDeliver(x)
      <3>1. row[m].status = "absent"
        BY <1>3, <2>1, <2>3, BesideTurns
      <3> QED
        BY <1>1, <3>1 DEF CalmFiles
    <2> QED
      BY <2>2, <2>3
  <1> QED
    BY <1>1, <1>2, <1>3 DEF CalmFiles

LEMMA BesideKeepsFiles ==
  ASSUME TypeInv, TypeInv', FileInv, FitInv, MessagesInv, Beside, [Next]_vars
  PROVE  FitInv' /\ MessagesInv'
  <1>1. ASSUME NEW m \in Messages \ doubtful' PROVE MessageInv(m)'
    <2>1. MessageInv(m)
      BY DoubtGrows DEF MessagesInv
    <2>2. faults' = 0 => CalmFiles(m)'
      BY <2>1, BesideKeepsCalm, FaultsGrow DEF MessageInv
    <2>3. OnceFile(m)' /\ AccountInv(m)'
      BY <2>1, BesideKeepsOnce, BesideKeepsAccount DEF MessageInv
    <2> QED
      BY <2>2, <2>3 DEF MessageInv
  <1> QED
    BY <1>1, BesideKeepsFit DEF MessagesInv

\* y stays where it is.
LEMMA StaysPasses ==
  ASSUME NEW x \in Executors, Moves(x), NEW y \in Executors \ {x}
  PROVE  Passes(y)
  BY DEF Moves, Passes

LEMMA AgedPasses ==
  ASSUME TypeInv, NEW m \in Messages, Aged(m), NEW n \in Messages
  PROVE  RowPasses(n)
  <1>1. row'[n].status = row[n].status
    BY DEF Aged, TypeInv, TypeOK, MessageRow
  <1> QED
    BY <1>1 DEF RowPasses

\* A claim finds no row, or takes over one after a fault.
LEMMA ClaimsPass ==
  ASSUME TypeInv, CalmInv, NEW x \in Executors, Claim(x) \/ Reclaim(x)
  PROVE  /\ \A y \in Executors : Passes(y)
         /\ \A m \in Messages : RowPasses(m)
  <1>1. ~InDeliver(x) /\ At(x) \in Messages
    BY ClaimEffect, ReclaimEffect DEF Claim, Reclaim, InDeliver, InPhase
  <1>2. CASE /\ row' = row /\ Moves(x)
             /\ execution'[x].phase \in {"reclaim", "save", "idle", "next"}
    BY <1>1, <1>2, StaysPasses DEF Passes, RowPasses
  <1>3. CASE /\ Writes(x, ClaimedRow) /\ Comes(x, "send", At(x))
             /\ \/ row[At(x)].status = "absent"
                \/ faults' = 0 => At(x) \in doubtful'
    <2>1. Passes(x)
      BY <1>1, <1>3 DEF Comes, Passes
    <2>2. ClaimedRow.status = "processing"
      BY DEF ClaimedRow
    <2>3. \A m \in Messages : RowPasses(m)
      BY <1>3, <2>2 DEF Writes, RowPasses
    <2> QED
      BY <1>3, <2>1, <2>3, StaysPasses DEF Writes
  <1>4. Reclaim(x) => (faults' = 0 => At(x) \in doubtful')
    <2>1. SUFFICES ASSUME Reclaim(x), faults' = 0, At(x) \notin doubtful' PROVE FALSE
      OBVIOUS
    <2>2. faults = 0 /\ At(x) \notin doubtful /\ InPhase(x, "reclaim")
      BY <2>1 DEF Reclaim, DoubtIf
    <2> QED
      BY <1>1, <2>2 DEF CalmInv, Calm, InPhase
  <1> QED
    BY <1>2, <1>3, <1>4, ClaimEffect, ReclaimEffect DEF Rests, Comes

LEMMA MarksPass ==
  ASSUME TypeInv, NEW x \in Executors, Marking(x)
  PROVE  /\ \A y \in Executors : Passes(y)
         /\ \A m \in Messages : RowPasses(m)
  <1>1. ~InDeliver(x) /\ At(x) \in Messages
    BY DEF Marking, MarkImported, MarkFailed, MarkAmbiguous, MarkCancelled, InDeliver, InPhase,
       TypeInv, PhaseInv
  <1>2. row[At(x)] \in MessageRow
    BY <1>1 DEF TypeInv, TypeOK
  <1>3. ASSUME NEW r, Writes(x, r), r.status # "absent",
               r.status = "imported" => InPhase(x, "imported"),
               execution'[x].phase \in {"save", "incomplete",
                                        "attachment_unclear", "idle", "next"}
        PROVE  /\ \A y \in Executors : Passes(y)
               /\ \A m \in Messages : RowPasses(m)
    <2>1. Passes(x)
      BY <1>1, <1>3 DEF Passes
    <2> QED
      BY <1>3, <2>1, StaysPasses DEF Writes, RowPasses
  <1>4. CASE MarkImported(x)
    <2>1. /\ Writes(x, ImportedRow(row[At(x)])) /\ InPhase(x, "imported")
          /\ execution'[x].phase \in {"save", "incomplete",
                                      "attachment_unclear", "idle", "next"}
      BY <1>4, MarkEffects DEF Comes, Rests, InPhase
    <2>2. ImportedRow(row[At(x)]).status # "absent"
      BY DEF ImportedRow
    <2> QED
      BY <1>3, <2>1, <2>2
  <1>5. /\ "cancelled" \in MessageError
        /\ {"error", "attachment_incomplete"} \subseteq MessageError
        /\ {"unclear", "attachment_unclear"} \subseteq MessageError
    BY DEF MessageError
  <1>6. \A code \in MessageError :
          /\ FailedRow(row[At(x)], code).status = "failed"
          /\ AmbiguousRow(row[At(x)], code).status = "ambiguous"
    BY <1>2, RowFields
  <1>7. CASE MarkFailed(x)
    <2>1. PICK code \in {"error", "attachment_incomplete"} :
            /\ Writes(x, FailedRow(row[At(x)], code))
            /\ execution'[x].phase \in {"save", "idle", "next"}
      BY <1>7, MarkEffects DEF Comes, Rests
    <2>2. FailedRow(row[At(x)], code).status = "failed"
      BY <1>5, <1>6
    <2> QED
      BY <1>3, <2>1, <2>2
  <1>8. CASE MarkAmbiguous(x)
    <2>1. PICK code \in {"unclear", "attachment_unclear"} :
            /\ Writes(x, AmbiguousRow(row[At(x)], code))
            /\ execution'[x].phase \in {"idle", "next"}
      BY <1>8, MarkEffects DEF Rests
    <2>2. AmbiguousRow(row[At(x)], code).status = "ambiguous"
      BY <1>5, <1>6
    <2> QED
      BY <1>3, <2>1, <2>2
  <1>9. CASE MarkCancelled(x)
    <2>1. /\ Writes(x, FailedRow(row[At(x)], "cancelled"))
          /\ execution'[x].phase \in {"idle", "next"}
      BY <1>9, MarkEffects DEF Rests
    <2>2. FailedRow(row[At(x)], "cancelled").status = "failed"
      BY <1>5, <1>6
    <2> QED
      BY <1>3, <2>1, <2>2
  <1> QED
    BY <1>4, <1>7, <1>8, <1>9 DEF Marking

\* A death inside deliver() is a fault.
LEMMA DeathsPass ==
  ASSUME TypeInv, NEW x \in Executors, Die(x)
  PROVE  /\ \A y \in Executors : Passes(y)
         /\ \A m \in Messages : RowPasses(m)
  <1>1. Rests(x) /\ row' = row
    BY RestEffects DEF Die
  <1>2. faults' > 0 /\ (SentUnrecorded(x) => At(x) \in doubtful')
    BY DeliveryAssumption DEF Die, Fault, DoubtIf, TypeInv, TypeOK
  <1>3. Passes(x)
    BY <1>1, <1>2 DEF Rests, Passes
  <1> QED
    BY <1>1, <1>3, StaysPasses DEF Rests, RowPasses

\* The steps between two messages.
LEMMA StrollsPass ==
  ASSUME TypeInv, NEW x \in Executors, Strolls(x) \/ NextMessage(x) \/ TakeFailed(x)
  PROVE  /\ \A y \in Executors : Passes(y)
         /\ \A m \in Messages : RowPasses(m)
  <1>1. /\ Moves(x) /\ row' = row /\ ~InDeliver(x)
        /\ execution'[x].phase \notin {"sent", "imported"}
        /\ execution'[x].phase = "send" => x \in Replays
    BY NextMessageEffect, TakeFailedEffect
       DEF Strolls, Rests, NextMessage, TakeFailed, Comes, InDeliver, InPhase
  <1>2. Passes(x)
    BY <1>1, DeliveryAssumption DEF Passes
  <1> QED
    BY <1>1, <1>2, StaysPasses DEF RowPasses

LEMMA AroundBeside ==
  ASSUME AroundFiles, \A y \in Executors : Passes(y), \A m \in Messages : RowPasses(m)
  PROVE  Beside
  <1>1. UNCHANGED <<files, attachment, stage, filed>>
    BY DEF AroundFiles, fileVars
  <1>2. \A y \in Executors : InDeliver(y)' =>
          work'[y] = IF InDeliver(y) THEN work[y]
                     ELSE Begin(execution'[y].at, execution'[y].reuse)
    BY DEF AroundFiles, InDeliver, InPhase
  <1> QED
    BY <1>1, <1>2 DEF Beside

\* The uploads age.
LEMMA AgeBeside ==
  ASSUME TypeInv, FileInv, FilesAge
  PROVE  Beside
  <1>1. UNCHANGED <<files, attachment, filed, work, execution>>
    BY DEF FilesAge, FileAges, StageGrowsStale, OutlastedFiles, Outlasted, vars
  <1>2. \A y \in Executors : Passes(y)
    BY <1>1 DEF Passes
  <1>3. \A n \in Messages : RowPasses(n)
    <2>1. row' = row \/ \E m \in Messages : Aged(m)
      BY DEF FilesAge, FileAges, StageGrowsStale, OutlastedFiles, Outlasted, vars
    <2> QED
      BY <2>1, AgedPasses DEF RowPasses
  <1>4. ASSUME faults' = 0, NEW m \in Messages, NEW f \in File, NoFailedUpload(stage[m][f])
        PROVE  NoFailedUpload(stage'[m][f])
    <2>1. \A n \in Messages : ~OutlastedFiles(n)
      BY <1>4, DeliveryAssumption DEF OutlastedFiles, Outlasted, Fault, TypeInv, TypeOK
    <2>2. PICK n \in Messages, g \in File, c \in Targets :
            stage' = [stage EXCEPT ![n][g][c].fresh = FALSE]
      BY <2>1 DEF FilesAge, FileAges, StageGrowsStale
    <2>3. /\ stage \in [Messages -> [File -> [Targets -> StageRow]]]
          /\ \A r \in StageRow : [r EXCEPT !.fresh = FALSE].status = r.status
      BY DEF FileInv, FilesTypeOK, StageRow
    <2>4. PICK r \in StageRow : r = stage[n][g][c]
      BY <2>3
    <2> DEFINE s == [r EXCEPT !.fresh = FALSE]
    <2>5. s.status = r.status
      BY <2>3
    <2>6. stage' = [stage EXCEPT ![n][g][c] = s]
      BY <2>2, <2>4
    <2> HIDE DEF s
    <2>7. \A d \in Targets : stage'[m][f][d].status = stage[m][f][d].status
      BY <2>3, <2>4, <2>5, <2>6
    <2> QED
      BY <1>4, <2>7 DEF NoFailedUpload
  <1> QED
    BY <1>1, <1>2, <1>3, <1>4 DEF Beside, InDeliver, InPhase

\* The strengthening, with the order of the work on the files.
FilesInv == FitInv /\ MessagesInv

LEMMA FilesInvInit == TransferInit => FilesInv /\ CalmInv
  <1> SUFFICES ASSUME TransferInit PROVE FilesInv /\ CalmInv
    OBVIOUS
  <1>1. PICK n \in [Messages -> 0 .. MaxFiles] : FilesInit(n)
    BY TransferAssumption DEF TransferInit, TransferAssumption
  <1>2. \A x \in Executors : execution[x].phase = "idle" /\ ~InDeliver(x)
    BY DEF TransferInit, Init, IdleExecution, InDeliver, InPhase
  <1>3. \A m \in Messages : row[m].status = "absent"
    BY DEF TransferInit, Init, NoRow
  <1>4. \A m \in Messages : \A f \in File :
           /\ attachment[m][f] = NoAttachment /\ filed[m][f] = 0
           /\ \A c \in Targets : stage[m][f][c] = NoStage
    BY <1>1 DEF FilesInit
  <1>5. FitInv
    BY <1>2, <1>4 DEF FitInv, NoAttachment, PlainRow
  <1>6. ASSUME NEW m \in Messages PROVE MessageInv(m)
    <2>1. OnceFile(m)
      BY <1>2, <1>4 DEF OnceFile
    <2>2. AccountInv(m)
      BY <1>2, <1>3, <1>4 DEF AccountInv, NoAttachment, InPhase
    <2>3. CalmFiles(m)
      BY <1>2, <1>4 DEF CalmFiles, NoFailedUpload, NoStage, Executors
    <2> QED
      BY <2>1, <2>2, <2>3 DEF MessageInv
  <1>7. \A m \in Messages : Calm(m)
    BY <1>2, <1>3 DEF Calm, RetryableCancel
  <1> QED
    BY <1>5, <1>6, <1>7 DEF FilesInv, MessagesInv, CalmInv

LEMMA FilesInvStep ==
  ASSUME TypeInv, FileInv, CopyInv, SendInv, ChatInv, CalmInv, FilesInv,
         [TransferNext]_transferVars
  PROVE  FilesInv'
  <1>1. [Next]_vars
    BY TransferStepDelivers
  <1>2. TypeInv'
    BY <1>1, TypeInvStep
  <1>3. ASSUME Beside PROVE FilesInv'
    BY <1>1, <1>2, <1>3, BesideKeepsFiles DEF FilesInv
  <1>4. CASE UNCHANGED <<vars, fileVars, work>>
    <2>1. \A y \in Executors : Passes(y)
      BY <1>4 DEF vars, Passes
    <2>2. \A m \in Messages : RowPasses(m)
      BY <1>4 DEF vars, RowPasses
    <2>3. Beside
      BY <1>4, <2>1, <2>2 DEF vars, fileVars, Beside, InDeliver, InPhase
    <2> QED
      BY <1>3, <2>3
  <1>5. ASSUME NEW x \in Backfills, Start(x) \/ Claims(x) \/ FinishesBackfill(x)
        PROVE  FilesInv'
    <2>1. x \in Executors
      BY DEF Executors
    <2>2. Strolls(x) \/ Claim(x) \/ Reclaim(x)
      BY <1>5, <2>1, Strolling DEF Start, Claims, FinishesBackfill
    <2>3. AroundFiles
      BY <1>5 DEF Start, Claims, FinishesBackfill
    <2> QED
      BY <1>3, <2>1, <2>2, <2>3, StrollsPass, ClaimsPass, AroundBeside
  <1>6. ASSUME NEW y \in Replays,
               StartsReplay(y) \/ TakesFailed(y) \/ ReadMapping(y) \/ FinishesReplay(y)
        PROVE  FilesInv'
    <2>1. y \in Executors
      BY DEF Executors
    <2>2. CASE ReadMapping(y)
      BY <1>4, <2>2 DEF ReadMapping
    <2>3. CASE ~ReadMapping(y)
      <3>1. Strolls(y) \/ TakeFailed(y)
        BY <1>6, <2>1, <2>3, Strolling DEF StartsReplay, TakesFailed, FinishesReplay
      <3>2. AroundFiles
        BY <1>6, <2>3 DEF StartsReplay, TakesFailed, FinishesReplay
      <3> QED
        BY <1>3, <2>1, <3>1, <3>2, StrollsPass, AroundBeside
    <2> QED
      BY <2>2, <2>3
  <1>7. CASE Registers
    <2>1. AroundFiles
      BY <1>7 DEF Registers
    <2>2. ASSUME NEW x \in Executors,
                 NextMessage(x) \/ SaveCheckpoint(x) \/ Marking(x) \/ Die(x)
          PROVE  FilesInv'
      <3>1. Strolls(x) \/ NextMessage(x) \/ Marking(x) \/ Die(x)
        BY <2>2, Strolling
      <3> QED
        BY <1>3, <2>1, <3>1, StrollsPass, MarksPass, DeathsPass, AroundBeside
    <2>3. ASSUME NEW m \in Messages, GrowsStale(m) PROVE FilesInv'
      <3>1. Aged(m) /\ execution' = execution
        BY <2>3 DEF GrowsStale
      <3> QED
        BY <1>3, <2>1, <3>1, AgedPasses, AroundBeside DEF Passes
    <2> QED
      BY <1>7, <2>2, <2>3 DEF Registers, Executors, Marking
  <1>8. CASE FilesAge
    BY <1>3, <1>8, AgeBeside
  <1>9. ASSUME NEW x \in Executors, Delivers(x) PROVE FilesInv'
    <2>1. aim[x] \in Targets
      BY TransferAssumption DEF ChatInv, TransferAssumption
    <2>2. FileStep(x, aim[x])
      BY <1>9 DEF Delivers
    <2> QED
      BY <1>2, <2>1, <2>2, FileStepKeepsFiles DEF FilesInv
  <1>10. CASE Provisioning \/ UNCHANGED transferVars
    BY <1>4, <1>10 DEF Provisioning, transferVars
  <1> QED
    BY <1>5, <1>6, <1>7, <1>8, <1>9, <1>10 DEF TransferNext

\* What the strengthening says of a message that nobody has in hand.
LEMMA FilesInvHolds ==
  ASSUME FileInv, FilesInv
  PROVE  FilesOnce /\ FilesAccounted
  <1>1. FilesOnce
    BY DEF FilesInv, MessagesInv, MessageInv, OnceFile, FilesOnce
  <1>2. ASSUME NEW m \in Messages \ doubtful, row[m].status = "imported",
               NEW f \in 1 .. files[m]
        PROVE  \/ attachment[m][f].status \in {"imported", "skipped", "failed", "ambiguous"}
               \/ attachment[m][f].status = "processing" /\ faults > 0
    <2>1. Handled(attachment[m][f], faults)
      BY <1>2 DEF FilesInv, MessagesInv, MessageInv, AccountInv, Complete
    <2>2. PICK r \in AttachmentRow : r = attachment[m][f]
      BY FileTypes, AttachmentAssumption DEF FileInv, FilesTypeOK
    <2> QED
      BY <2>1, <2>2 DEF Handled, AttachmentRow, AttachmentStatus
  <1> QED
    BY <1>1, <1>2 DEF FilesAccounted

LEMMA TransferKeepsFiles == TransferSpec => [](FileInv /\ FilesInv)
  <1> DEFINE Base == TypeInv /\ FileInv /\ CopyInv /\ SendInv /\ CalmInv
  <1>1. TransferInit => Base /\ FilesInv
    BY TypeInvInit, FileInvInit, CopyInvInit, SendInvInit, FilesInvInit DEF TransferInit
  <1>2. Base /\ [TransferNext]_transferVars => Base'
    BY TransferStepDelivers, TypeInvStep, FileInvStep, CopyInvStep, SendInvStep, CalmInvStep
  <1>3. Base /\ ChatsInv /\ FilesInv /\ [TransferNext]_transferVars => FilesInv'
    BY FilesInvStep DEF ChatsInv
  <1>4. Base => FileInv
    OBVIOUS
  <1> HIDE DEF Base
  <1> QED
    BY <1>1, <1>2, <1>3, <1>4, ChatsAreSound, PTL DEF TransferSpec

\* A file of a message that no fault made doubtful is in the target chat at most once,
\* whatever claims, uploads, retries and reruns overlap: a row that says that the file
\* was sent, or is being sent, outlasts the execution that wrote it.
THEOREM FilesAreSentOnce == TransferSpec => []FilesOnce
  BY TransferKeepsFiles, FilesInvHolds, PTL

\* No attachment of an imported message is forgotten: deliver() returns only when each
\* file has been claimed and its row marked, and without a fault nothing leaves a row in
\* processing.
THEOREM FilesAreAccountedFor == TransferSpec => []FilesAccounted
  BY TransferKeepsFiles, FilesInvHolds, PTL
=============================================================================
