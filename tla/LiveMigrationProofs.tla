------------------------ MODULE LiveMigrationProofs ------------------------
(***************************************************************************)
(* Proofs about LiveMigration, for every number of messages, every batch   *)
(* size, every set of executions and commands, and any number of faults.   *)
(***************************************************************************)
EXTENDS LiveMigration, FiniteSetTheorems, TLAPS

-----------------------------------------------------------------------------
(* Type correctness.                                                       *)

\* The rows that the repository writes are rows.
LEMMA RowTypes ==
  ASSUME NEW r \in MessageRow, NEW code \in MessageError
  PROVE  /\ ClaimedRow \in MessageRow /\ NoRow \in MessageRow
         /\ ImportedRow(r) \in MessageRow
         /\ AmbiguousRow(r, code) \in MessageRow
         /\ FailedRow(r, code) \in MessageRow
         /\ [r EXCEPT !.fresh = FALSE] \in MessageRow
BY DEF MessageRow, MessageStatus, MessageError, ClaimedRow, NoRow, ImportedRow,
       AmbiguousRow, FailedRow

\* An execution that moves stays an execution.
LEMMA MovesType ==
  ASSUME delta \in [Deltas -> DeltaExecution], NEW x \in Deltas,
         NEW e \in DeltaExecution, Moves(x, e)
  PROVE  delta' \in [Deltas -> DeltaExecution]
BY DEF Moves

\* The next message of a batch lies in the history.
LEMMA ContinueType ==
  ASSUME NEW e \in DeltaExecution
  PROVE  Continue(e) \in DeltaExecution
<1> USE DeltaAssumption DEF DeltaExecution, DeltaPhase, DeltaAssumption
<1>1. CASE e.at < e.upto
  <2>1. e.at + 1 \in 0 .. LastMessage
    BY <1>1
  <2> QED
    BY <1>1, <2>1 DEF Continue
<1>2. CASE ~(e.at < e.upto)
  <2>1. [e EXCEPT !.phase = "fetch", !.more = FALSE] \in DeltaExecution
    OBVIOUS
  <2>2. 0 \in 0 .. LastMessage
    OBVIOUS
  <2>3. [e EXCEPT !.phase = "subscribe", !.upto = 0] \in DeltaExecution
    BY <2>2
  <2> HIDE DEF DeltaExecution, DeltaPhase
  <2> QED
    BY <1>2, <2>1, <2>3 DEF Continue
<1> QED
  BY <1>1, <1>2

\* So does a batch.
LEMMA BatchType ==
  ASSUME NEW e \in DeltaExecution, posted \in Messages
  PROVE  WithBatch(e) \in DeltaExecution
<1>1. Smaller(e.at + BatchSize, posted) \in 0 .. LastMessage
  BY DeltaAssumption DEF Smaller, DeltaExecution, Messages, DeltaAssumption
<1>2. (posted > e.at + BatchSize) \in BOOLEAN
  OBVIOUS
<1> QED
  BY <1>1, <1>2 DEF WithBatch, DeltaExecution

\* A row that is written stays a row of the registry.
LEMMA WriteType ==
  ASSUME row \in [Messages -> MessageRow], NEW x \in Deltas, NEW r, NEW phase,
         At(x) \in Messages => r \in MessageRow, WriteRow(x, r, phase)
  PROVE  row' \in [Messages -> MessageRow]
BY DEF WriteRow

\* The messages of the chat can be counted.
LEMMA CountType ==
  ASSUME posted \in Messages
  PROVE  Cardinality(InChat) \in Nat
<1>1. IsFiniteSet(1 .. posted)
  BY DeltaAssumption, FS_Interval DEF Messages, DeltaAssumption
<1>2. IsFiniteSet(InChat)
  BY <1>1, FS_Subset DEF InChat
<1> QED
  BY <1>2, FS_CardinalityType

LEMMA InitType == Init => TypeOK
<1> SUFFICES ASSUME Init PROVE TypeOK
  OBVIOUS
<1>1. NoRow \in MessageRow /\ ImportedRow(NoRow) \in MessageRow
  BY DEF MessageRow, MessageStatus, MessageError, NoRow, ImportedRow
<1>2. row \in [Messages -> MessageRow]
  BY <1>1 DEF Init, DeltaInit
<1>3. IdleDelta \in DeltaExecution
  BY DeltaAssumption DEF IdleDelta, DeltaExecution, DeltaPhase, DeltaStage, DeltaAssumption
<1>4. DeltaTypeOK
  BY <1>2, <1>3, DeltaAssumption DEF Init, DeltaInit, DeltaTypeOK, DeltaAssumption, Messages
<1>6. C!NoState \in C!StateRecord /\ C!NoSnapshot \in C!Snapshot
  <2>1. C!NoState \in C!StateRecord
    BY DEF C!NoState, C!StateRecord, C!StateStatus
  <2>2. C!NoSnapshot \in C!Snapshot
    BY DEF C!NoSnapshot, C!Snapshot
  <2> QED
    BY <2>1, <2>2
<1>7. C!NoCommand \in C!Command
  BY <1>6 DEF C!NoCommand, C!Command, C!CommandPhase, C!CommandKind
<1>8. C!CutoverTypeOK
  BY <1>6, <1>7 DEF Init, C!CutoverInit, C!CutoverTypeOK
<1> QED
  BY <1>4, <1>8 DEF TypeOK

\* The executions keep their types.
LEMMA DeltaStepType == TypeOK /\ DeltaStep => DeltaTypeOK'
<1> SUFFICES ASSUME TypeOK, DeltaStep PROVE DeltaTypeOK'
  OBVIOUS
<1> USE DEF TypeOK, DeltaTypeOK
<1>a. \A x \in Deltas : delta[x] \in DeltaExecution /\ At(x) \in 0 .. LastMessage
  BY DEF DeltaExecution, At
<1>b. IdleDelta \in DeltaExecution
  BY DeltaAssumption DEF IdleDelta, DeltaExecution, DeltaPhase, DeltaStage, DeltaAssumption
<1>c. \A x \in Deltas, phase \in DeltaPhase : [delta[x] EXCEPT !.phase = phase] \in DeltaExecution
  BY <1>a DEF DeltaExecution
<1>d. \A x \in Deltas : Permitted(x) \in DeltaExecution
  <2> TAKE x \in Deltas
  <2>1. delta[x].stage \in DeltaStage
    BY <1>a DEF DeltaExecution
  <2>2. CASE delta[x].stage = "start"
    BY <1>a, <2>2 DEF Permitted, DeltaExecution, DeltaPhase, DeltaStage
  <2>3. CASE delta[x].stage = "catch_up"
    BY <1>a, <2>3 DEF Permitted, DeltaExecution, DeltaPhase
  <2>4. CASE delta[x].stage = "live"
    BY <1>a, <2>4 DEF Permitted, DeltaExecution, DeltaPhase
  <2> QED
    BY <2>1, <2>2, <2>3, <2>4 DEF DeltaStage
<1>m. ASSUME NEW x \in Deltas, NEW e \in DeltaExecution, Moves(x, e)
      PROVE  delta' \in [Deltas -> DeltaExecution]
  BY <1>m, MovesType
<1>s. ASSUME NEW x \in Deltas, Stops(x)
      PROVE  delta' \in [Deltas -> DeltaExecution] /\ late' \in [Deltas -> 0 .. 2]
  BY <1>s, <1>b, <1>m DEF Stops
<1>t. ASSUME NEW x \in Deltas, NEW phase \in DeltaPhase, Turns(x, phase)
      PROVE  delta' \in [Deltas -> DeltaExecution]
  BY <1>t, <1>c, <1>m DEF Turns
<1>f. ASSUME NEW kind, DeltaFault(kind) PROVE faults' \in 0 .. MaxFaults
  BY <1>f, DeltaAssumption DEF DeltaFault, DeltaAssumption
<1>w. ASSUME NEW x \in Deltas, NEW phase \in DeltaPhase, NEW r,
             At(x) \in Messages => r \in MessageRow, WriteRow(x, r, phase)
      PROVE  /\ row' \in [Messages -> MessageRow]
             /\ delta' \in [Deltas -> DeltaExecution]
             /\ UNCHANGED <<posted, checkpoint, missed, late>>
  BY <1>w, <1>t, WriteType DEF WriteRow
<1>1. CASE Post
  BY <1>1, DeltaAssumption DEF Post, Messages, DeltaAssumption
<1>2. ASSUME NEW x \in Deltas, StartDelta(x) PROVE DeltaTypeOK'
  BY <1>2, <1>t DEF StartDelta, DeltaPhase
<1>3. ASSUME NEW x \in Deltas, CheckState(x) PROVE DeltaTypeOK'
  BY <1>3, <1>t, <1>m, <1>d, <1>s DEF CheckState, DeltaPhase
<1>4. ASSUME NEW x \in Deltas, CreateState(x) PROVE DeltaTypeOK'
  BY <1>4, <1>m, <1>d DEF CreateState
<1>5. ASSUME NEW x \in Deltas, SeedCursor(x) PROVE DeltaTypeOK'
  <2>1. Cursor \in 0 .. LastMessage
    BY DeltaAssumption DEF Cursor, Messages, DeltaAssumption
  <2>2. [delta[x] EXCEPT !.phase = "fetch", !.at = Cursor] \in DeltaExecution
    BY <1>a, <2>1 DEF DeltaExecution, DeltaPhase
  <2> QED
    BY <1>5, <2>2, <1>m DEF SeedCursor
<1>6. ASSUME NEW x \in Deltas, FetchBatch(x) PROVE DeltaTypeOK'
  <2>1. Continue(WithBatch(delta[x])) \in DeltaExecution
    BY <1>a, BatchType, ContinueType
  <2> QED
    BY <1>6, <2>1, <1>m DEF FetchBatch
<1>7. ASSUME NEW x \in Deltas, Subscribe(x) PROVE DeltaTypeOK'
  <2>0. posted \in 0 .. LastMessage
    BY DeltaAssumption DEF Messages, DeltaAssumption
  <2>1. [delta[x] EXCEPT !.phase = "listen", !.stage = "live", !.at = posted] \in DeltaExecution
    BY <1>a, <2>0 DEF DeltaExecution, DeltaPhase, DeltaStage
  <2>2. (delta[x].at + 1) .. posted \subseteq Messages
    BY <1>a, DeltaAssumption DEF At, Messages, DeltaAssumption
  <2> QED
    BY <1>7, <2>1, <2>2, <1>m DEF Subscribe
<1>8. ASSUME NEW x \in Deltas, Hear(x) PROVE DeltaTypeOK'
  <2>1. delta[x].at + 1 \in 0 .. LastMessage
    BY <1>8, <1>a, DeltaAssumption DEF Hear, At, Messages, DeltaAssumption
  <2>2. [delta[x] EXCEPT !.phase = "check", !.at = @ + 1] \in DeltaExecution
    BY <1>a, <2>1 DEF DeltaExecution, DeltaPhase
  <2> QED
    BY <1>8, <2>2, <1>m DEF Hear
<1>9. ASSUME NEW x \in Deltas, ProcessMessage(x) PROVE DeltaTypeOK'
  <2>1. ClaimedRow \in MessageRow
    BY DEF ClaimedRow, MessageRow, MessageStatus, MessageError
  <2>2. CASE At(x) \notin Elsewhere /\ Claimable(row[At(x)])
    <3>1. row' \in [Messages -> MessageRow]
      BY <1>9, <2>1, <2>2 DEF ProcessMessage
    <3>2. Smaller(late[x] + 1, 2) \in 0 .. 2
      BY DEF Smaller
    <3>3. late' \in [Deltas -> 0 .. 2]
      BY <1>9, <2>2, <3>2 DEF ProcessMessage
    <3> QED
      BY <1>9, <2>2, <3>1, <3>3, <1>t DEF ProcessMessage, DeltaPhase
  <2>3. CASE ~(At(x) \notin Elsewhere /\ Claimable(row[At(x)]))
    BY <1>9, <2>3, <1>t DEF ProcessMessage, DeltaPhase
  <2> QED
    BY <2>2, <2>3
<1>10. ASSUME NEW x \in Deltas,
              \/ MarkImported(x) \/ MarkAttachmentFailed(x) \/ MarkAttachmentUnclear(x)
              \/ MarkUnclear(x) \/ MarkFailed(x)
       PROVE  DeltaTypeOK'
  <2>1. At(x) \in Messages =>
          \A code \in MessageError :
             /\ ImportedRow(row[At(x)]) \in MessageRow
             /\ AmbiguousRow(row[At(x)], code) \in MessageRow
             /\ FailedRow(row[At(x)], code) \in MessageRow
    BY RowTypes
  <2>2. CASE MarkImported(x)
    BY <2>1, <2>2, <1>w, <1>f DEF MarkImported, DeltaPhase, MessageError
  <2>3. CASE MarkAttachmentFailed(x)
    BY <2>1, <2>3, <1>w DEF MarkAttachmentFailed, DeltaPhase, MessageError
  <2>4. CASE MarkAttachmentUnclear(x)
    BY <2>1, <2>4, <1>w DEF MarkAttachmentUnclear, DeltaPhase, MessageError
  <2>5. CASE MarkUnclear(x)
    BY <2>1, <2>5, <1>w, <1>f DEF MarkUnclear, DeltaPhase, MessageError
  <2>6. CASE MarkFailed(x)
    BY <2>1, <2>6, <1>w DEF MarkFailed, DeltaPhase, MessageError
  <2> QED
    BY <1>10, <2>2, <2>3, <2>4, <2>5, <2>6
<1>11. ASSUME NEW x \in Deltas, MarkCancelled(x) PROVE DeltaTypeOK'
  <2>1. At(x) \in Messages => FailedRow(row[At(x)], "cancelled") \in MessageRow
    BY RowTypes DEF MessageError
  <2> QED
    BY <1>11, <2>1, <1>s DEF MarkCancelled
<1>12. ASSUME NEW x \in Deltas, SaveCheckpoint(x) PROVE DeltaTypeOK'
  <2>1. checkpoint' \in 0 .. LastMessage
    BY <1>12, <1>a DEF SaveCheckpoint, AdvanceCheckpoint
  <2>2. delta' \in [Deltas -> DeltaExecution]
    BY <1>12, <1>a, <1>t, <1>m, ContinueType DEF SaveCheckpoint, DeltaPhase
  <2> QED
    BY <1>12, <2>1, <2>2 DEF SaveCheckpoint
<1>13. ASSUME NEW x \in Deltas, Cancel(x) \/ DeltaDies(x) PROVE DeltaTypeOK'
  BY <1>13, <1>s, <1>t, <1>f DEF Cancel, DeltaDies, DeltaPhase
<1>14. ASSUME NEW m \in Messages, GrowsStale(m) \/ Overrun(m) PROVE DeltaTypeOK'
  <2>1. [row[m] EXCEPT !.fresh = FALSE] \in MessageRow
    BY RowTypes DEF MessageError
  <2>2. row' \in [Messages -> MessageRow]
    BY <1>14, <2>1 DEF GrowsStale, Overrun
  <2> QED
    BY <1>14, <2>2, <1>f DEF GrowsStale, Overrun
<1> QED
  BY <1>1, <1>2, <1>3, <1>4, <1>5, <1>6, <1>7, <1>8, <1>9, <1>10, <1>11, <1>12, <1>13, <1>14
     DEF DeltaStep, ExecutionStep

\* The commands keep theirs.
LEMMA CommandStepType ==
  ASSUME TypeOK, C!CommandStep \/ C!TakeInventory(Cardinality(InChat))
  PROVE  C!CutoverTypeOK'
<1> USE DEF TypeOK, C!CutoverTypeOK
<1>a. \A c \in Commands : command[c] \in C!Command
  OBVIOUS
<1>b. /\ C!NoState \in C!StateRecord
      /\ C!ActiveState \in C!StateRecord
  BY DEF C!NoState, C!ActiveState, C!StateRecord, C!StateStatus
<1>c. C!NoSnapshot \in C!Snapshot
  BY DEF C!NoSnapshot, C!Snapshot
<1>d. C!NoCommand \in C!Command
  BY <1>b, <1>c DEF C!NoCommand, C!Command, C!CommandPhase, C!CommandKind
<1>p. ASSUME NEW c \in Commands, NEW e \in C!Command, C!Proceeds(c, e)
      PROVE  command' \in [Commands -> C!Command]
  BY <1>p DEF C!Proceeds
<1>1. CASE C!TakeInventory(Cardinality(InChat))
  <2>1. [taken |-> TRUE, count |-> Cardinality(InChat)] \in C!Snapshot
    BY CountType DEF C!Snapshot, DeltaTypeOK
  <2> QED
    BY <1>1, <2>1 DEF C!TakeInventory, C!ReplaceInventory
<1>2. ASSUME NEW c \in Commands, NEW kind \in {"pause", "resume", "freeze"}, C!ReadState(c, kind)
      PROVE  C!CutoverTypeOK'
  <2>1. [C!NoCommand EXCEPT !.phase = "save", !.kind = kind, !.seen = state] \in C!Command
    BY <1>d DEF C!Command, C!CommandPhase, C!CommandKind
  <2> QED
    BY <1>2, <2>1, <1>p DEF C!ReadState
<1>3. ASSUME NEW c \in Commands, C!SaveTransition(c) PROVE C!CutoverTypeOK'
  <2>1. command[c].seen \in C!StateRecord
    BY <1>a DEF C!Command
  <2>2. [command[c].seen EXCEPT !.status = "paused"] \in C!StateRecord
    BY <2>1 DEF C!StateRecord, C!StateStatus
  <2>3. [status |-> "paused", frozen |-> TRUE] \in C!StateRecord
    BY DEF C!StateRecord, C!StateStatus
  <2>4. C!Transition(command[c].kind, command[c].seen) \in C!StateRecord
    BY <1>3, <1>b, <2>2, <2>3 DEF C!Transition, C!SaveTransition
  <2> QED
    BY <1>3, <1>d, <1>p, <2>4 DEF C!SaveTransition, C!SaveState, C!Returns
<1>4. ASSUME NEW c \in Commands, C!StartFinalize(c) PROVE C!CutoverTypeOK'
  <2>1. [C!NoCommand EXCEPT !.phase = "inventory", !.kind = "finalize", !.seen = state]
          \in C!Command
    BY <1>d DEF C!Command, C!CommandPhase, C!CommandKind
  <2> QED
    BY <1>4, <2>1, <1>p DEF C!StartFinalize
<1>5. ASSUME NEW c \in Commands, C!ReadInventory(c) PROVE C!CutoverTypeOK'
  <2>1. [command[c] EXCEPT !.phase = "messages", !.listed = inventory] \in C!Command
    BY <1>a DEF C!Command, C!CommandPhase
  <2> QED
    BY <1>5, <2>1, <1>p DEF C!ReadInventory
<1>6. ASSUME NEW c \in Commands, C!ReadMessages(c) PROVE C!CutoverTypeOK'
  <2>1. C!MessagesClean(command[c].listed) \in BOOLEAN
    BY DEF C!MessagesClean
  <2>2. [command[c] EXCEPT !.phase = "attachments", !.listed = C!NoSnapshot,
                           !.clean = C!MessagesClean(command[c].listed)] \in C!Command
    BY <1>a, <1>c, <2>1 DEF C!Command, C!CommandPhase
  <2> QED
    BY <1>6, <2>2, <1>p DEF C!ReadMessages
<1>7. ASSUME NEW c \in Commands, C!ReadAttachments(c) PROVE C!CutoverTypeOK'
  <2>1. ASSUME NEW others \in BOOLEAN
        PROVE  [command[c] EXCEPT !.phase = "save", !.clean = @ /\ others] \in C!Command
    <3>1. (command[c].clean /\ others) \in BOOLEAN
      OBVIOUS
    <3> QED
      BY <1>a, <3>1 DEF C!Command, C!CommandPhase
  <2> QED
    BY <1>7, <2>1, <1>p DEF C!ReadAttachments
<1>8. ASSUME NEW c \in Commands, C!SaveFinalized(c) PROVE C!CutoverTypeOK'
  <2>1. command[c].seen.frozen \in BOOLEAN
    BY <1>a DEF C!Command, C!StateRecord
  <2>2. state' \in C!StateRecord
    BY <1>8, <2>1 DEF C!SaveFinalized, C!SaveState, C!StateRecord, C!StateStatus
  <2> QED
    BY <1>8, <1>d, <1>p, <2>2 DEF C!SaveFinalized, C!Returns
<1> QED
  BY <1>1, <1>2, <1>3, <1>4, <1>5, <1>6, <1>7, <1>8
     DEF C!CommandStep, C!PauseDelta, C!ResumeDelta, C!FreezeCutover

\* Each variable of both halves keeps its type.
THEOREM LiveTypeCorrect == Spec => []TypeOK
<1>1. TypeOK /\ [Next]_vars => TypeOK'
  <2> SUFFICES ASSUME TypeOK, [Next]_vars PROVE TypeOK'
    OBVIOUS
  <2>1. CASE DeltaSide
    <3>1. DeltaTypeOK'
      BY <2>1, DeltaStepType DEF DeltaSide
    <3>2. state' = state \/ state' = ActiveRecord
      BY <2>1 DEF DeltaSide, DeltaStep, ExecutionStep, Post, StartDelta, CheckState, CreateState,
         SeedCursor, FetchBatch, Subscribe, Hear, ProcessMessage, MarkImported,
         MarkAttachmentFailed, MarkAttachmentUnclear, MarkUnclear, MarkFailed, MarkCancelled,
         SaveCheckpoint, WriteRow, Cancel, DeltaDies, GrowsStale, Overrun
    <3>3. ActiveRecord \in C!StateRecord
      BY DEF ActiveRecord, C!StateRecord, C!StateStatus
    <3>4. C!CutoverTypeOK'
      BY <2>1, <3>2, <3>3 DEF TypeOK, C!CutoverTypeOK, DeltaSide
    <3> QED
      BY <3>1, <3>4 DEF TypeOK
  <2>2. CASE CommandSide
    <3>1. C!CutoverTypeOK'
      BY <2>2, CommandStepType DEF CommandSide
    <3>2. DeltaTypeOK'
      <4>1. [x \in Deltas |-> 0] \in [Deltas -> 0 .. 2]
        OBVIOUS
      <4> QED
        BY <2>2, <4>1 DEF CommandSide, TypeOK, DeltaTypeOK
    <3> QED
      BY <3>1, <3>2 DEF TypeOK
  <2>3. CASE UNCHANGED vars
    BY <2>3 DEF vars, deltaVars, TypeOK, DeltaTypeOK, C!CutoverTypeOK
  <2> QED
    BY <2>1, <2>2, <2>3 DEF Next
<1> QED
  BY InitType, <1>1, PTL DEF Spec

-----------------------------------------------------------------------------
(* Nothing is lost but the gap.  The checkpoint is not monotonic, and what *)
(* it is set to comes from what an execution has in hand: the invariant    *)
(* says of every execution that the history up to its message is accounted *)
(* for, or up to the one before while its message is yet to be claimed.    *)

\* Every message up to a is accounted for, in terms of given rows and a given gap.
Safe(rows, gap, a) ==
  \A m \in Messages :
     BackfilledTo < m /\ m <= a /\ m \notin Elsewhere \cup gap => rows[m].status # "absent"

\* The message in hand is accounted for.
Behind == {"fetch", "subscribe", "listen", "send", "attachment_incomplete",
           "attachment_unclear", "cancelled", "save"}

\* The message in hand is yet to be claimed.
Ahead(e) == e.phase = "match" \/ (e.phase \in {"check", "create"} /\ e.stage = "live")

SafeExecution(rows, gap, e) ==
  /\ e.phase = "idle" => e.stage = "start"
  /\ e.phase \in Behind => Safe(rows, gap, e.at)
  /\ Ahead(e) => Safe(rows, gap, e.at - 1)

PassInv ==
  /\ Safe(row, missed, checkpoint)
  /\ \A x \in Deltas : SafeExecution(row, missed, delta[x])

\* No row is ever removed, and the gap only grows.
Grows ==
  /\ \A m \in Messages : row[m].status # "absent" => row'[m].status # "absent"
  /\ missed \subseteq missed'

LEMMA SafeGrows ==
  ASSUME NEW rows1, NEW rows2, NEW gap1, NEW gap2, NEW a,
         \A m \in Messages : rows1[m].status # "absent" => rows2[m].status # "absent",
         gap1 \subseteq gap2, Safe(rows1, gap1, a)
  PROVE  Safe(rows2, gap2, a)
BY DEF Safe

LEMMA SafeExecutionGrows ==
  ASSUME NEW rows1, NEW rows2, NEW gap1, NEW gap2, NEW e,
         \A m \in Messages : rows1[m].status # "absent" => rows2[m].status # "absent",
         gap1 \subseteq gap2, SafeExecution(rows1, gap1, e)
  PROVE  SafeExecution(rows2, gap2, e)
BY SafeGrows DEF SafeExecution

\* A step that writes no absent row and forgets no gap keeps what it does not touch.
LEMMA PassStep ==
  ASSUME TypeOK, PassInv, Grows,
         checkpoint' = checkpoint \/ Safe(row', missed', checkpoint'),
         \A x \in Deltas : \/ delta'[x] = delta[x]
                           \/ SafeExecution(row', missed', delta'[x])
  PROVE  PassInv'
<1>1. Safe(row', missed', checkpoint')
  BY SafeGrows DEF PassInv, Grows
<1>2. ASSUME NEW x \in Deltas PROVE SafeExecution(row', missed', delta'[x])
  BY SafeExecutionGrows DEF PassInv, Grows
<1> QED
  BY <1>1, <1>2 DEF PassInv

\* What the updates of the registry leave is never an absent row.
LEMMA WrittenRows ==
  ASSUME NEW r \in MessageRow, NEW code
  PROVE  /\ ClaimedRow.status # "absent"
         /\ ImportedRow(r).status # "absent"
         /\ AmbiguousRow(r, code).status # "absent"
         /\ FailedRow(r, code).status # "absent"
         /\ [r EXCEPT !.fresh = FALSE].status = r.status
BY DEF MessageRow, ClaimedRow, ImportedRow, AmbiguousRow, FailedRow

\* The next message of a batch is the one after the last that was handled.
LEMMA ContinueSafe ==
  ASSUME NEW rows, NEW gap, NEW e \in DeltaExecution, Safe(rows, gap, e.at)
  PROVE  SafeExecution(rows, gap, Continue(e))
<1> DEFINE f == Continue(e)
<1>1. e.at \in Int
  BY DEF DeltaExecution
<1>2. CASE e.at < e.upto
  <2>1. f.phase = "match" /\ f.at = e.at + 1
    BY <1>2 DEF Continue, DeltaExecution
  <2>2. f.at - 1 = e.at
    BY <2>1, <1>1
  <2> QED
    BY <2>1, <2>2 DEF SafeExecution, Behind
<1>3. CASE ~(e.at < e.upto)
  <2>1. f.phase \in {"fetch", "subscribe"} /\ f.at = e.at
    BY <1>3 DEF Continue, DeltaExecution
  <2> QED
    BY <2>1 DEF SafeExecution, Ahead
<1> QED
  BY <1>2, <1>3

\* A step of one execution that moves to e.
LEMMA OneMoves ==
  ASSUME TypeOK, PassInv, NEW x \in Deltas, NEW e, Moves(x, e), Grows,
         checkpoint' = checkpoint \/ Safe(row', missed', checkpoint'),
         SafeExecution(row', missed', e)
  PROVE  PassInv'
<1>1. \A y \in Deltas : delta'[y] = IF y = x THEN e ELSE delta[y]
  BY DEF Moves, TypeOK, DeltaTypeOK
<1> QED
  BY <1>1, PassStep

LEMMA IdleSafe == ASSUME NEW rows, NEW gap PROVE SafeExecution(rows, gap, IdleDelta)
BY DEF SafeExecution, Behind, Ahead, IdleDelta

\* A row is written after the message was claimed, and the execution stays behind it.
LEMMA WriteSafe ==
  ASSUME TypeOK, PassInv, NEW x \in Deltas, delta[x].phase \in Behind, NEW r, NEW phase \in Behind,
         At(x) \in Messages => r.status # "absent",
         row' = [row EXCEPT ![At(x)] = r], Turns(x, phase),
         UNCHANGED <<checkpoint, missed>>
  PROVE  PassInv'
<1> DEFINE e == [delta[x] EXCEPT !.phase = phase]
<1>1. delta[x] \in DeltaExecution
  BY DEF TypeOK, DeltaTypeOK
<1>2. e.phase = phase /\ e.at = delta[x].at
  BY <1>1 DEF DeltaExecution
<1>3. Grows
  BY DEF Grows, TypeOK, DeltaTypeOK
<1>4. Safe(row, missed, delta[x].at)
  BY DEF PassInv, SafeExecution
<1>5. Safe(row', missed', delta[x].at)
  BY <1>3, <1>4, SafeGrows DEF Grows
<1>6. ~Ahead(e) /\ e.phase # "idle"
  BY <1>2 DEF Ahead, Behind
<1>7. SafeExecution(row', missed', e)
  BY <1>2, <1>5, <1>6 DEF SafeExecution
<1> QED
  BY <1>3, <1>7, OneMoves DEF Turns

LEMMA PassInvStep == TypeOK /\ PassInv /\ DeltaStep => PassInv'
<1> SUFFICES ASSUME TypeOK, PassInv, DeltaStep PROVE PassInv'
  OBVIOUS
<1>a. \A x \in Deltas : delta[x] \in DeltaExecution /\ delta[x].at \in Int
  BY DEF TypeOK, DeltaTypeOK, DeltaExecution
<1>r. \A m \in Messages : row[m] \in MessageRow
  BY DEF TypeOK, DeltaTypeOK
<1>x. \A x \in Deltas : SafeExecution(row, missed, delta[x])
  BY DEF PassInv
<1>g. ASSUME UNCHANGED <<row, missed>> PROVE Grows
  BY <1>g DEF Grows
<1>i. ASSUME NEW x \in Deltas, Stops(x), Grows, UNCHANGED checkpoint PROVE PassInv'
  BY <1>i, IdleSafe, OneMoves DEF Stops
<1>1. CASE Post
  BY <1>1, <1>g, PassStep DEF Post
<1>2. ASSUME NEW x \in Deltas, StartDelta(x) PROVE PassInv'
  <2> DEFINE e == [delta[x] EXCEPT !.phase = "check"]
  <2>1. e.phase = "check" /\ e.stage = "start"
    BY <1>2, <1>a, <1>x DEF DeltaExecution, SafeExecution, StartDelta, AtPhase
  <2>2. SafeExecution(row, missed, e)
    BY <2>1 DEF SafeExecution, Behind, Ahead
  <2> QED
    BY <1>2, <1>g, <2>2, OneMoves DEF StartDelta, Turns
<1>3. ASSUME NEW x \in Deltas, delta[x].phase \in {"check", "create"},
             Moves(x, Permitted(x)), UNCHANGED <<row, missed, checkpoint>>
      PROVE  PassInv'
  <2> DEFINE e == Permitted(x)
  <2>1. CASE delta[x].stage \in {"start", "catch_up"}
    <3>1. e.phase \in {"check", "seed"} /\ e.stage = "catch_up"
      BY <2>1, <1>a DEF DeltaExecution, Permitted
    <3>2. SafeExecution(row, missed, e)
      BY <3>1 DEF SafeExecution, Behind, Ahead
    <3> QED
      BY <1>3, <1>g, <3>2, OneMoves
  <2>2. CASE delta[x].stage = "live"
    <3>1. e.phase = "match" /\ e.at = delta[x].at
      BY <2>2, <1>a DEF DeltaExecution, Permitted
    <3>2. Safe(row, missed, e.at - 1)
      BY <1>3, <2>2, <3>1, <1>x DEF SafeExecution, Ahead
    <3>3. SafeExecution(row, missed, e)
      BY <3>1, <3>2 DEF SafeExecution, Behind
    <3> QED
      BY <1>3, <1>g, <3>3, OneMoves
  <2> QED
    BY <1>a, <2>1, <2>2 DEF DeltaExecution, DeltaStage
<1>4. ASSUME NEW x \in Deltas, CheckState(x) PROVE PassInv'
  <2>1. CASE Turns(x, "create") /\ UNCHANGED <<row, checkpoint, missed>>
    <3> DEFINE e == [delta[x] EXCEPT !.phase = "create"]
    <3>1. e.phase = "create" /\ e.stage = delta[x].stage /\ e.at = delta[x].at
      BY <1>a DEF DeltaExecution
    <3>2. SafeExecution(row, missed, e)
      BY <1>4, <3>1, <1>x DEF SafeExecution, Behind, Ahead, CheckState, AtPhase
    <3> QED
      BY <2>1, <1>g, <3>2, OneMoves DEF Turns
  <2>2. CASE Moves(x, Permitted(x)) /\ UNCHANGED <<row, checkpoint, missed>>
    BY <1>4, <2>2, <1>3 DEF CheckState, AtPhase
  <2>3. CASE Stops(x) /\ UNCHANGED <<row, checkpoint, missed>>
    BY <2>3, <1>g, <1>i
  <2> QED
    BY <1>4, <2>1, <2>2, <2>3 DEF CheckState
<1>5. ASSUME NEW x \in Deltas, CreateState(x) PROVE PassInv'
  BY <1>5, <1>3 DEF CreateState, AtPhase
<1>6. ASSUME NEW x \in Deltas, SeedCursor(x) PROVE PassInv'
  <2> DEFINE e == [delta[x] EXCEPT !.phase = "fetch", !.at = Cursor]
  <2>1. e.phase = "fetch" /\ e.at = Cursor
    BY <1>a DEF DeltaExecution
  <2>2. Safe(row, missed, Cursor)
    <3>1. Safe(row, missed, BackfilledTo)
      BY DeltaAssumption DEF Safe, Messages, DeltaAssumption
    <3> QED
      BY <3>1 DEF PassInv, Cursor
  <2>3. SafeExecution(row, missed, e)
    BY <2>1, <2>2 DEF SafeExecution, Behind, Ahead
  <2> QED
    BY <1>6, <1>g, <2>3, OneMoves DEF SeedCursor
<1>7. ASSUME NEW x \in Deltas, FetchBatch(x) PROVE PassInv'
  <2> DEFINE e == WithBatch(delta[x])
  <2>1. e \in DeltaExecution
    BY <1>a, BatchType DEF TypeOK, DeltaTypeOK
  <2>2. e.at = delta[x].at
    BY <1>a DEF WithBatch, DeltaExecution
  <2>3. Safe(row, missed, delta[x].at)
    BY <1>7, <1>x DEF SafeExecution, Behind, FetchBatch, AtPhase
  <2>4. SafeExecution(row, missed, Continue(e))
    BY <2>1, <2>2, <2>3, ContinueSafe
  <2> QED
    BY <1>7, <1>g, <2>4, OneMoves DEF FetchBatch
<1>8. ASSUME NEW x \in Deltas, Subscribe(x) PROVE PassInv'
  <2> DEFINE e == [delta[x] EXCEPT !.phase = "listen", !.stage = "live", !.at = posted]
  <2>1. e.phase = "listen" /\ e.at = posted
    BY <1>a DEF DeltaExecution
  <2>2. Grows
    BY <1>8 DEF Subscribe, Grows
  <2>3. Safe(row, missed, delta[x].at)
    BY <1>8, <1>x DEF SafeExecution, Behind, Subscribe, AtPhase
  <2>4. Safe(row', missed', posted)
    <3> SUFFICES ASSUME NEW m \in Messages, BackfilledTo < m, m <= posted,
                        m \notin Elsewhere, m \notin missed'
                 PROVE  row'[m].status # "absent"
      BY DEF Safe
    <3>1. m \notin (delta[x].at + 1) .. posted /\ m \notin missed
      BY <1>8 DEF Subscribe
    <3>2. m <= delta[x].at
      BY <3>1, <1>a, DeltaAssumption DEF Messages, DeltaAssumption, TypeOK, DeltaTypeOK
    <3> QED
      BY <1>8, <2>3, <3>1, <3>2 DEF Safe, Subscribe
  <2>5. SafeExecution(row', missed', e)
    BY <2>1, <2>4 DEF SafeExecution, Ahead
  <2> QED
    BY <1>8, <2>2, <2>5, OneMoves DEF Subscribe
<1>9. ASSUME NEW x \in Deltas, Hear(x) PROVE PassInv'
  <2> DEFINE e == [delta[x] EXCEPT !.phase = "check", !.at = @ + 1]
  <2>1. e.phase = "check" /\ e.at - 1 = delta[x].at
    BY <1>a DEF DeltaExecution
  <2>2. Safe(row, missed, e.at - 1)
    BY <1>9, <1>x, <2>1 DEF SafeExecution, Behind, Hear, AtPhase
  <2>3. SafeExecution(row, missed, e)
    BY <2>1, <2>2 DEF SafeExecution, Behind
  <2> QED
    BY <1>9, <1>g, <2>3, OneMoves DEF Hear
<1>10. ASSUME NEW x \in Deltas, ProcessMessage(x) PROVE PassInv'
  <2> DEFINE m == At(x)
             e(phase) == [delta[x] EXCEPT !.phase = phase]
  <2>1. Safe(row, missed, delta[x].at - 1)
    BY <1>10, <1>x DEF ProcessMessage, SafeExecution, Ahead, AtPhase
  <2>2. \A phase \in {"send", "save"} : e(phase).phase = phase /\ e(phase).at = delta[x].at
    BY <1>a DEF DeltaExecution
  <2>3. CASE m \notin Elsewhere /\ Claimable(row[m])
    <3>1. row' = [row EXCEPT ![m] = ClaimedRow] /\ Turns(x, "send") /\ UNCHANGED <<checkpoint, missed>>
      BY <1>10, <2>3 DEF ProcessMessage
    <3>2. Grows
      BY <3>1, <1>r, WrittenRows DEF Grows, TypeOK, DeltaTypeOK
    <3>3. Safe(row', missed', delta[x].at)
      <4> SUFFICES ASSUME NEW n \in Messages, BackfilledTo < n, n <= delta[x].at,
                          n \notin Elsewhere, n \notin missed
                   PROVE  row'[n].status # "absent"
        BY <3>1 DEF Safe
      <4>1. CASE n = m
        BY <4>1, <3>1 DEF TypeOK, DeltaTypeOK, ClaimedRow
      <4>2. CASE n # m
        <5>1. n <= delta[x].at - 1
          BY <4>2, <1>a DEF At, Messages
        <5> QED
          BY <5>1, <2>1, <3>2 DEF Safe, Grows
      <4> QED
        BY <4>1, <4>2
    <3>4. SafeExecution(row', missed', e("send"))
      BY <2>2, <3>3 DEF SafeExecution, Ahead
    <3> QED
      BY <3>1, <3>2, <3>4, OneMoves DEF Turns
  <2>4. CASE ~(m \notin Elsewhere /\ Claimable(row[m]))
    <3>1. Turns(x, "save") /\ UNCHANGED <<row, checkpoint, missed>>
      BY <1>10, <2>4 DEF ProcessMessage
    <3>2. Safe(row, missed, delta[x].at)
      <4> SUFFICES ASSUME NEW n \in Messages, BackfilledTo < n, n <= delta[x].at,
                          n \notin Elsewhere, n \notin missed
                   PROVE  row[n].status # "absent"
        BY DEF Safe
      <4>1. CASE n = m
        BY <4>1, <2>4 DEF Claimable
      <4>2. CASE n # m
        <5>1. n <= delta[x].at - 1
          BY <4>2, <1>a DEF At, Messages
        <5> QED
          BY <5>1, <2>1 DEF Safe
      <4> QED
        BY <4>1, <4>2
    <3>3. SafeExecution(row, missed, e("save"))
      BY <2>2, <3>2 DEF SafeExecution, Ahead
    <3> QED
      BY <3>1, <3>3, <1>g, OneMoves DEF Turns
  <2> QED
    BY <2>3, <2>4
<1>11. ASSUME NEW x \in Deltas,
              \/ MarkImported(x) \/ MarkAttachmentFailed(x) \/ MarkAttachmentUnclear(x)
              \/ MarkUnclear(x) \/ MarkFailed(x)
       PROVE  PassInv'
  <2>1. delta[x].phase \in Behind
    BY <1>11 DEF MarkImported, MarkAttachmentFailed, MarkAttachmentUnclear, MarkUnclear,
                 MarkFailed, AtPhase, Behind
  <2>2. At(x) \in Messages =>
          \A code : /\ ImportedRow(row[At(x)]).status # "absent"
                    /\ AmbiguousRow(row[At(x)], code).status # "absent"
                    /\ FailedRow(row[At(x)], code).status # "absent"
    BY <1>r, WrittenRows
  <2>3. ASSUME NEW r, NEW phase \in {"save", "attachment_incomplete", "attachment_unclear"},
               At(x) \in Messages => r.status # "absent", WriteRow(x, r, phase)
        PROVE  PassInv'
    <3>1. phase \in Behind
      BY DEF Behind
    <3> QED
      BY <2>1, <2>3, <3>1, WriteSafe DEF WriteRow
  <2>4. CASE MarkImported(x)
    BY <2>2, <2>3, <2>4 DEF MarkImported
  <2>5. CASE MarkAttachmentFailed(x)
    BY <2>2, <2>3, <2>5 DEF MarkAttachmentFailed
  <2>6. CASE MarkAttachmentUnclear(x)
    BY <2>2, <2>3, <2>6 DEF MarkAttachmentUnclear
  <2>7. CASE MarkUnclear(x)
    BY <2>2, <2>3, <2>7 DEF MarkUnclear
  <2>8. CASE MarkFailed(x)
    BY <2>2, <2>3, <2>8 DEF MarkFailed
  <2> QED
    BY <1>11, <2>4, <2>5, <2>6, <2>7, <2>8
<1>12. ASSUME NEW x \in Deltas, MarkCancelled(x) PROVE PassInv'
  <2>1. At(x) \in Messages => FailedRow(row[At(x)], "cancelled").status # "absent"
    BY <1>r, WrittenRows
  <2>2. Grows
    BY <1>12, <2>1 DEF MarkCancelled, Grows, TypeOK, DeltaTypeOK
  <2> QED
    BY <1>12, <2>2, <1>i DEF MarkCancelled
<1>13. ASSUME NEW x \in Deltas, SaveCheckpoint(x) PROVE PassInv'
  <2>1. Safe(row, missed, delta[x].at)
    BY <1>13, <1>x DEF SafeExecution, Behind, SaveCheckpoint, AtPhase
  <2>2. Safe(row', missed', checkpoint')
    BY <1>13, <2>1 DEF SaveCheckpoint, AdvanceCheckpoint, At
  <2>3. CASE delta[x].stage = "live"
    <3> DEFINE e == [delta[x] EXCEPT !.phase = "listen"]
    <3>1. e.phase = "listen" /\ e.at = delta[x].at
      BY <1>a DEF DeltaExecution
    <3>2. SafeExecution(row, missed, e)
      BY <2>1, <3>1 DEF SafeExecution, Ahead
    <3> QED
      BY <1>13, <2>2, <2>3, <3>2, <1>g, OneMoves DEF SaveCheckpoint, Turns
  <2>4. CASE delta[x].stage # "live"
    <3>1. SafeExecution(row, missed, Continue(delta[x]))
      BY <1>a, <2>1, ContinueSafe
    <3> QED
      BY <1>13, <2>2, <2>4, <3>1, <1>g, OneMoves DEF SaveCheckpoint
  <2> QED
    BY <2>3, <2>4
<1>14. ASSUME NEW x \in Deltas, Cancel(x) \/ DeltaDies(x) PROVE PassInv'
  <2>1. CASE Stops(x) /\ UNCHANGED <<row, checkpoint, missed>>
    BY <2>1, <1>g, <1>i
  <2>2. CASE AtPhase(x, "send") /\ Turns(x, "cancelled") /\ UNCHANGED <<row, checkpoint, missed>>
    <3> DEFINE e == [delta[x] EXCEPT !.phase = "cancelled"]
    <3>1. e.phase = "cancelled" /\ e.at = delta[x].at
      BY <1>a DEF DeltaExecution
    <3>2. SafeExecution(row, missed, e)
      BY <2>2, <1>x, <3>1 DEF SafeExecution, Ahead, Behind, AtPhase
    <3> QED
      BY <2>2, <1>g, <3>2, OneMoves DEF Turns
  <2> QED
    BY <1>14, <2>1, <2>2 DEF Cancel, DeltaDies
<1>15. ASSUME NEW m \in Messages, GrowsStale(m) \/ Overrun(m) PROVE PassInv'
  <2>1. [row[m] EXCEPT !.fresh = FALSE].status = row[m].status
    BY <1>r, WrittenRows
  <2>2. Grows
    BY <1>15, <2>1 DEF GrowsStale, Overrun, Grows, TypeOK, DeltaTypeOK
  <2> QED
    BY <1>15, <2>2, PassStep DEF GrowsStale, Overrun
<1> QED
  BY <1>1, <1>2, <1>4, <1>5, <1>6, <1>7, <1>8, <1>9, <1>10, <1>11, <1>12, <1>13, <1>14, <1>15
     DEF DeltaStep, ExecutionStep

\* Every message that the checkpoint has passed is accounted for, but for the gap.
THEOREM NothingElseIsLost == Spec => []OnlyTheGapIsLost
<1>1. Init => PassInv
  <2> SUFFICES ASSUME Init PROVE PassInv
    OBVIOUS
  <2>1. Safe(row, missed, checkpoint)
    BY DeltaAssumption DEF Init, DeltaInit, Safe, Messages, DeltaAssumption
  <2>2. \A x \in Deltas : delta[x] = IdleDelta
    BY DEF Init, DeltaInit
  <2> QED
    BY <2>1, <2>2, IdleSafe DEF PassInv
<1>2. TypeOK /\ PassInv /\ [Next]_vars => PassInv'
  <2> SUFFICES ASSUME TypeOK, PassInv, [Next]_vars PROVE PassInv'
    OBVIOUS
  <2>1. CASE DeltaSide
    BY <2>1, PassInvStep DEF DeltaSide
  <2>2. CASE UNCHANGED <<row, missed, checkpoint, delta>>
    BY <2>2, PassStep DEF Grows
  <2> QED
    BY <2>1, <2>2 DEF Next, CommandSide, vars, deltaVars
<1>3. PassInv => OnlyTheGapIsLost
  BY DEF PassInv, Safe, OnlyTheGapIsLost
<1> QED
  BY LiveTypeCorrect, <1>1, <1>2, <1>3, PTL DEF Spec

-----------------------------------------------------------------------------
(* A pause stops what listens.  An execution that took a message after the *)
(* record stopped being active is on its way to the next check, and the    *)
(* record is still not active when it gets there.                          *)

\* From the message in hand to the next check.
Trailing == {"send", "attachment_incomplete", "attachment_unclear", "cancelled", "save",
             "listen", "check"}

LateExecution(record, count, e) ==
  /\ e.phase \notin {"idle", "check", "create"} => e.stage # "start"
  /\ e.stage # "start" => record.status # "absent"
  /\ \/ count = 0
     \/ /\ count = 1
        /\ record.status \notin {"active", "absent"}
        /\ e.stage = "live"
        /\ e.phase \in Trailing

LateInv == \A x \in Deltas : LateExecution(state, late[x], delta[x])

\* A step of one execution that moves to e and leaves the record alone.
LEMMA LateMoves ==
  ASSUME TypeOK, LateInv, NEW x \in Deltas, NEW e, Moves(x, e), UNCHANGED state,
         \A y \in Deltas : y # x => late'[y] = late[y],
         LateExecution(state, late'[x], e)
  PROVE  LateInv'
<1>1. \A y \in Deltas : delta'[y] = IF y = x THEN e ELSE delta[y]
  BY DEF Moves, TypeOK, DeltaTypeOK
<1>2. ASSUME NEW y \in Deltas PROVE LateExecution(state', late'[y], delta'[y])
  BY <1>1 DEF LateInv
<1> QED
  BY <1>2 DEF LateInv

\* An execution that stops has nothing to its name.
LEMMA LateStops ==
  ASSUME TypeOK, LateInv, NEW x \in Deltas, Stops(x), UNCHANGED state
  PROVE  LateInv'
<1>1. /\ late'[x] = 0
      /\ \A y \in Deltas : y # x => late'[y] = late[y]
  BY DEF Stops, TypeOK, DeltaTypeOK
<1>2. LateExecution(state, 0, IdleDelta)
  BY DEF LateExecution, IdleDelta
<1> QED
  BY <1>1, <1>2, LateMoves DEF Stops

\* It goes from one phase to another and keeps its stage.
LEMMA LateTurns ==
  ASSUME TypeOK, LateInv, NEW x \in Deltas, NEW phase, Turns(x, phase),
         UNCHANGED <<state, late>>,
         phase \notin {"idle", "check", "create"} => delta[x].stage # "start",
         late[x] = 0 \/ phase \in Trailing
  PROVE  LateInv'
<1> DEFINE e == [delta[x] EXCEPT !.phase = phase]
<1>1. e.phase = phase /\ e.stage = delta[x].stage
  BY DEF TypeOK, DeltaTypeOK, DeltaExecution
<1>2. LateExecution(state, late[x], e)
  BY <1>1 DEF LateInv, LateExecution
<1> QED
  BY <1>2, LateMoves DEF Turns

\* It goes to e, with nothing to its name before and after.
LEMMA LatePasses ==
  ASSUME TypeOK, LateInv, NEW x \in Deltas, NEW e, Moves(x, e), UNCHANGED <<state, late>>,
         late[x] = 0, e.phase \in DeltaPhase, e.stage # "start", delta[x].stage # "start"
  PROVE  LateInv'
<1>1. LateExecution(state, late[x], e)
  BY DEF LateInv, LateExecution
<1> QED
  BY <1>1, LateMoves

LEMMA LateInvStep == TypeOK /\ LateInv /\ DeltaStep => LateInv'
<1> SUFFICES ASSUME TypeOK, LateInv, DeltaStep PROVE LateInv'
  OBVIOUS
<1>a. \A x \in Deltas : delta[x] \in DeltaExecution /\ late[x] \in 0 .. 2
  BY DEF TypeOK, DeltaTypeOK
<1>x. \A x \in Deltas : LateExecution(state, late[x], delta[x])
  BY DEF LateInv
<1>z. ASSUME NEW x \in Deltas, delta[x].phase \notin Trailing PROVE late[x] = 0
  BY <1>z, <1>x DEF LateExecution
<1>u. CASE UNCHANGED <<state, late, delta>>
  BY <1>u DEF LateInv
<1>1. CASE Post
  BY <1>1, <1>u DEF Post
<1>2. ASSUME NEW x \in Deltas, StartDelta(x) PROVE LateInv'
  <2>1. late[x] = 0
    BY <1>2, <1>z DEF StartDelta, AtPhase, Trailing
  <2> QED
    BY <1>2, <2>1, LateTurns DEF StartDelta
<1>p. \A x \in Deltas : /\ Permitted(x).stage # "start"
                        /\ Permitted(x).phase \in DeltaPhase
  BY <1>a DEF DeltaExecution, DeltaStage, DeltaPhase, Permitted
<1>3. ASSUME NEW x \in Deltas, CheckState(x) PROVE LateInv'
  <2>1. CASE state.status = "absent" /\ Turns(x, "create") /\ UNCHANGED <<late, state>>
    <3>1. late[x] = 0
      BY <2>1, <1>x DEF LateExecution
    <3> QED
      BY <2>1, <3>1, LateTurns
  <2>2. CASE state.status = "active" /\ Moves(x, Permitted(x)) /\ UNCHANGED <<late, state>>
    <3>1. late[x] = 0
      BY <2>2, <1>x DEF LateExecution
    <3>2. LateExecution(state, late[x], Permitted(x))
      BY <2>2, <3>1, <1>p DEF LateExecution
    <3> QED
      BY <2>2, <3>2, LateMoves
  <2>3. CASE Stops(x) /\ UNCHANGED state
    BY <2>3, LateStops
  <2> QED
    BY <1>3, <2>1, <2>2, <2>3 DEF CheckState
<1>4. ASSUME NEW x \in Deltas, CreateState(x) PROVE LateInv'
  <2>1. \A y \in Deltas : delta'[y] = IF y = x THEN Permitted(x) ELSE delta[y]
    BY <1>4 DEF CreateState, Moves, TypeOK, DeltaTypeOK
  <2>2. state'.status = "active" /\ \A y \in Deltas : late'[y] = 0
    BY <1>4 DEF CreateState, ActiveRecord
  <2>3. ASSUME NEW y \in Deltas PROVE LateExecution(state', late'[y], delta'[y])
    BY <1>x, <1>p, <2>1, <2>2 DEF LateExecution
  <2> QED
    BY <2>3 DEF LateInv
<1>5. ASSUME NEW x \in Deltas, SeedCursor(x) PROVE LateInv'
  <2> DEFINE e == [delta[x] EXCEPT !.phase = "fetch", !.at = Cursor]
  <2>1. late[x] = 0 /\ delta[x].stage # "start"
    BY <1>5, <1>x, <1>z DEF SeedCursor, AtPhase, Trailing, LateExecution
  <2>2. e.phase \in DeltaPhase /\ e.stage # "start"
    BY <2>1, <1>a DEF DeltaExecution, DeltaPhase
  <2> QED
    BY <1>5, <2>1, <2>2, LatePasses DEF SeedCursor
<1>c. ASSUME NEW e \in DeltaExecution, e.stage # "start"
      PROVE  Continue(e).phase \in DeltaPhase /\ Continue(e).stage # "start"
  BY <1>c DEF Continue, DeltaExecution, DeltaPhase
<1>6. ASSUME NEW x \in Deltas, FetchBatch(x) PROVE LateInv'
  <2> DEFINE e == WithBatch(delta[x])
  <2>1. late[x] = 0 /\ delta[x].stage # "start"
    BY <1>6, <1>x, <1>z DEF FetchBatch, AtPhase, Trailing, LateExecution
  <2>2. e \in DeltaExecution
    BY <1>a, BatchType DEF TypeOK, DeltaTypeOK
  <2>3. e.stage # "start"
    BY <2>1, <1>a DEF WithBatch, DeltaExecution
  <2> QED
    BY <1>6, <1>c, <2>1, <2>2, <2>3, LatePasses DEF FetchBatch
<1>7. ASSUME NEW x \in Deltas, Subscribe(x) PROVE LateInv'
  <2> DEFINE e == [delta[x] EXCEPT !.phase = "listen", !.stage = "live", !.at = posted]
  <2>1. late[x] = 0 /\ delta[x].stage # "start"
    BY <1>7, <1>x, <1>z DEF Subscribe, AtPhase, Trailing, LateExecution
  <2>2. e.phase \in DeltaPhase /\ e.stage # "start"
    BY <2>1, <1>a DEF DeltaExecution, DeltaPhase
  <2> QED
    BY <1>7, <2>1, <2>2, LatePasses DEF Subscribe
<1>8. ASSUME NEW x \in Deltas, Hear(x) PROVE LateInv'
  <2> DEFINE e == [delta[x] EXCEPT !.phase = "check", !.at = @ + 1]
  <2>1. e.phase = "check" /\ e.stage = delta[x].stage
    BY <1>a DEF DeltaExecution
  <2>2. LateExecution(state, late[x], e)
    BY <1>8, <1>x, <2>1 DEF LateExecution, Trailing
  <2> QED
    BY <1>8, <2>2, LateMoves DEF Hear
<1>9. ASSUME NEW x \in Deltas, ProcessMessage(x) PROVE LateInv'
  <2>1. late[x] = 0 /\ delta[x].stage # "start"
    BY <1>9, <1>x, <1>z DEF ProcessMessage, AtPhase, Trailing, LateExecution
  <2>2. CASE Turns(x, "save") /\ UNCHANGED <<late, state>>
    BY <2>1, <2>2, LateTurns
  <2>3. CASE ~(At(x) \notin Elsewhere /\ Claimable(row[At(x)]))
    BY <1>9, <2>2, <2>3 DEF ProcessMessage
  <2>4. CASE At(x) \notin Elsewhere /\ Claimable(row[At(x)])
    <3> DEFINE e == [delta[x] EXCEPT !.phase = "send"]
    <3>1. e.phase = "send" /\ e.stage = delta[x].stage
      BY <1>a DEF DeltaExecution
    <3>2. /\ Turns(x, "send")
          /\ UNCHANGED state
          /\ late' = [late EXCEPT ![x] =
                         IF delta[x].stage = "live" /\ state.status # "active"
                         THEN Smaller(late[x] + 1, 2) ELSE late[x]]
      BY <1>9, <2>4 DEF ProcessMessage
    <3>3. \A y \in Deltas : y # x => late'[y] = late[y]
      BY <3>2 DEF TypeOK, DeltaTypeOK
    <3>4. late'[x] = IF delta[x].stage = "live" /\ state.status # "active" THEN 1 ELSE 0
      BY <2>1, <3>2 DEF TypeOK, DeltaTypeOK, Smaller
    <3>5. state.status # "absent"
      BY <2>1, <1>x DEF LateExecution
    <3>6. LateExecution(state, late'[x], e)
      BY <2>1, <3>1, <3>4, <3>5 DEF LateExecution, Trailing
    <3> QED
      BY <3>2, <3>3, <3>6, LateMoves DEF Turns
  <2> QED
    BY <2>3, <2>4
<1>10. ASSUME NEW x \in Deltas,
              \/ MarkImported(x) \/ MarkAttachmentFailed(x) \/ MarkAttachmentUnclear(x)
              \/ MarkUnclear(x) \/ MarkFailed(x)
       PROVE  LateInv'
  <2>1. delta[x].stage # "start"
    BY <1>10, <1>x DEF MarkImported, MarkAttachmentFailed, MarkAttachmentUnclear, MarkUnclear,
                       MarkFailed, AtPhase, LateExecution
  <2>2. ASSUME NEW r, NEW phase \in {"save", "attachment_incomplete", "attachment_unclear"},
               WriteRow(x, r, phase)
        PROVE  LateInv'
    BY <2>1, <2>2, LateTurns DEF WriteRow, Trailing
  <2>3. CASE MarkImported(x)
    BY <2>2, <2>3 DEF MarkImported
  <2>4. CASE MarkAttachmentFailed(x)
    BY <2>2, <2>4 DEF MarkAttachmentFailed
  <2>5. CASE MarkAttachmentUnclear(x)
    BY <2>2, <2>5 DEF MarkAttachmentUnclear
  <2>6. CASE MarkUnclear(x)
    BY <2>2, <2>6 DEF MarkUnclear
  <2>7. CASE MarkFailed(x)
    BY <2>2, <2>7 DEF MarkFailed
  <2> QED
    BY <1>10, <2>3, <2>4, <2>5, <2>6, <2>7
<1>11. ASSUME NEW x \in Deltas, SaveCheckpoint(x) PROVE LateInv'
  <2>1. delta[x].stage # "start"
    BY <1>11, <1>x DEF SaveCheckpoint, AtPhase, LateExecution
  <2>2. CASE delta[x].stage = "live"
    BY <1>11, <2>1, <2>2, LateTurns DEF SaveCheckpoint, Trailing
  <2>3. CASE delta[x].stage # "live"
    <3>1. late[x] = 0
      BY <2>3, <1>x DEF LateExecution
    <3> QED
      BY <1>11, <1>a, <1>c, <2>1, <2>3, <3>1, LatePasses DEF SaveCheckpoint
  <2> QED
    BY <2>2, <2>3
<1>12. ASSUME NEW x \in Deltas, MarkCancelled(x) \/ Cancel(x) \/ DeltaDies(x) PROVE LateInv'
  <2>1. CASE Stops(x) /\ UNCHANGED state
    BY <2>1, LateStops
  <2>2. CASE AtPhase(x, "send") /\ Turns(x, "cancelled") /\ UNCHANGED <<late, state>>
    BY <2>2, <1>x, LateTurns DEF AtPhase, LateExecution, Trailing
  <2> QED
    BY <1>12, <2>1, <2>2 DEF MarkCancelled, Cancel, DeltaDies
<1>13. ASSUME NEW m \in Messages, GrowsStale(m) \/ Overrun(m) PROVE LateInv'
  BY <1>13, <1>u DEF GrowsStale, Overrun
<1> QED
  BY <1>1, <1>2, <1>3, <1>4, <1>5, <1>6, <1>7, <1>8, <1>9, <1>10, <1>11, <1>12, <1>13
     DEF DeltaStep, ExecutionStep

\* What the commands do to the record: none of them makes it disappear.
LEMMA RecordStays ==
  ASSUME TypeOK, C!CommandStep \/ C!TakeInventory(Cardinality(InChat))
  PROVE  \/ UNCHANGED state
         \/ state'.status \in {"active", "paused"}
         \/ \E c \in Commands :
               /\ C!SaveFinalized(c)
               /\ state'.status \in {"completed", "needs_manual_reconcile"}
<1>1. ASSUME NEW c \in Commands, C!SaveTransition(c)
      PROVE  state'.status \in {"active", "paused"}
  <2> DEFINE seen == command[c].seen
             kind == command[c].kind
  <2>1. seen \in C!StateRecord
    BY DEF TypeOK, C!CutoverTypeOK, C!Command
  <2>2. [seen EXCEPT !.status = "paused"].status = "paused"
    BY <2>1 DEF C!StateRecord
  <2>3. C!ActiveState.status = "active"
    BY DEF C!ActiveState, C!NoState
  <2>4. state' = C!Transition(kind, seen) /\ kind \in {"pause", "resume", "freeze"}
    BY <1>1 DEF C!SaveTransition, C!SaveState
  <2> HIDE DEF seen, kind
  <2> QED
    BY <2>2, <2>3, <2>4 DEF C!Transition
<1>2. ASSUME NEW c \in Commands, C!SaveFinalized(c)
      PROVE  state'.status \in {"completed", "needs_manual_reconcile"}
  BY <1>2 DEF C!SaveFinalized, C!SaveState
<1> QED
  BY <1>1, <1>2
     DEF C!CommandStep, C!TakeInventory, C!PauseDelta, C!ResumeDelta, C!FreezeCutover,
         C!ReadState, C!StartFinalize, C!ReadInventory, C!ReadMessages, C!ReadAttachments

\* An execution that listens takes at most the event it has already checked.
THEOREM PauseIsObeyed == Spec => []PauseStopsLive
<1>1. Init => LateInv
  BY DEF Init, DeltaInit, IdleDelta, LateInv, LateExecution
<1>2. TypeOK /\ LateInv /\ [Next]_vars => LateInv'
  <2> SUFFICES ASSUME TypeOK, LateInv, [Next]_vars PROVE LateInv'
    OBVIOUS
  <2>1. CASE DeltaSide
    BY <2>1, LateInvStep DEF DeltaSide
  <2>2. CASE CommandSide
    <3>1. UNCHANGED delta
      BY <2>2 DEF CommandSide
    <3>2. CASE state'.status = "active"
      <4>1. \A x \in Deltas : late'[x] = 0
        BY <2>2, <3>2 DEF CommandSide
      <4> QED
        BY <3>1, <3>2, <4>1 DEF LateInv, LateExecution
    <3>3. CASE state'.status # "active"
      <4>1. UNCHANGED late
        BY <2>2, <3>3 DEF CommandSide
      <4>2. UNCHANGED state \/ state'.status \notin {"active", "absent"}
        BY <2>2, <3>3, RecordStays DEF CommandSide
      <4> QED
        BY <3>1, <4>1, <4>2 DEF LateInv, LateExecution
    <3> QED
      BY <3>2, <3>3
  <2>3. CASE UNCHANGED vars
    BY <2>3 DEF vars, deltaVars, LateInv
  <2> QED
    BY <2>1, <2>2, <2>3 DEF Next
<1>3. LateInv => PauseStopsLive
  BY DEF LateInv, LateExecution, PauseStopsLive
<1> QED
  BY LiveTypeCorrect, <1>1, <1>2, <1>3, PTL DEF Spec

-----------------------------------------------------------------------------
(* A migration that is completed was settled when its registry was read.   *)
(* The invariant carries what was read from the reading to the save, past  *)
(* the steps of executions in between.                                     *)

\* Every message was delivered, or never seen, but for those in some set.
SettledBut(rows, some) ==
  \A m \in Messages \ some : rows[m].status \in {"absent", "imported"}

CompletedInv ==
  /\ state.status = "completed" => state.frozen /\ SettledBut(row, unseen)
  /\ \A c \in Commands :
        Deciding(command[c]) /\ command[c].clean => SettledBut(row, since[c])

\* What was written goes to the exceptions.
LEMMA SettledButWritten ==
  ASSUME NEW some, SettledBut(row, some)
  PROVE  SettledBut(row', some \cup Written)
BY DEF SettledBut, Written

\* A clean registry has no exceptions.
LEMMA CleanIsSettled ==
  ASSUME TypeOK, NEW listed, NEW some, C!MessagesClean(listed)
  PROVE  SettledBut(row, some)
<1> SUFFICES ASSUME NEW m \in Messages PROVE row[m].status \in {"absent", "imported"}
  BY DEF SettledBut
<1>1. row[m].status \in MessageStatus
  BY DEF TypeOK, DeltaTypeOK, MessageRow
<1>2. m \notin C!With("failed") /\ m \notin C!With("ambiguous") /\ m \notin C!With("processing")
  BY DEF C!MessagesClean
<1> QED
  BY <1>1, <1>2 DEF C!With, MessageStatus

\* A step of an execution.
LEMMA CompletedDeltaStep == TypeOK /\ CompletedInv /\ DeltaSide => CompletedInv'
<1> SUFFICES ASSUME TypeOK, CompletedInv, DeltaSide PROVE CompletedInv'
  OBVIOUS
<1>1. state' = state \/ state' = ActiveRecord
  BY DEF DeltaSide, DeltaStep, ExecutionStep, Post, StartDelta, CheckState, CreateState,
     SeedCursor, FetchBatch, Subscribe, Hear, ProcessMessage, MarkImported,
     MarkAttachmentFailed, MarkAttachmentUnclear, MarkUnclear, MarkFailed, MarkCancelled,
     SaveCheckpoint, WriteRow, Cancel, DeltaDies, GrowsStale, Overrun
<1>2. ASSUME state'.status = "completed" PROVE state'.frozen /\ SettledBut(row', unseen')
  <2>1. state' = state
    BY <1>1, <1>2 DEF ActiveRecord
  <2>2. unseen' = unseen \cup Written
    BY <1>2 DEF DeltaSide
  <2> QED
    BY <1>2, <2>1, <2>2, SettledButWritten DEF CompletedInv
<1>3. ASSUME NEW c \in Commands, Deciding(command'[c]), command'[c].clean
      PROVE  SettledBut(row', since'[c])
  <2>1. command' = command
    BY DEF DeltaSide
  <2>2. since'[c] = since[c] \cup Written
    BY <1>3, <2>1 DEF DeltaSide
  <2> QED
    BY <1>3, <2>1, <2>2, SettledButWritten DEF CompletedInv
<1> QED
  BY <1>2, <1>3 DEF CompletedInv

\* A step of a command.
LEMMA CompletedCommandStep == TypeOK /\ CompletedInv /\ CommandSide => CompletedInv'
<1> SUFFICES ASSUME TypeOK, CompletedInv, CommandSide PROVE CompletedInv'
  OBVIOUS
<1>r. row' = row
  BY DEF CommandSide
<1>t. \A c \in Commands : command[c] \in C!Command
  BY DEF TypeOK, C!CutoverTypeOK
<1>1. ASSUME state'.status = "completed" PROVE state'.frozen /\ SettledBut(row', unseen')
  <2>1. CASE \E c \in Commands : C!SaveFinalized(c)
    <3>1. PICK c \in Commands : C!SaveFinalized(c)
      BY <2>1
    <3>2. since[c] \subseteq unseen'
      BY <1>1, <3>1 DEF CommandSide
    <3>3. C!Checklist(command[c]) /\ state'.frozen = command[c].seen.frozen
      BY <1>1, <3>1 DEF C!SaveFinalized, C!SaveState
    <3>4. Deciding(command[c]) /\ command[c].clean
      BY <3>1, <3>3 DEF C!SaveFinalized, C!InStep, C!Checklist, Deciding
    <3>5. SettledBut(row, since[c])
      BY <3>4 DEF CompletedInv
    <3> QED
      BY <1>r, <3>2, <3>3, <3>5 DEF SettledBut, C!Checklist
  <2>2. CASE ~\E c \in Commands : C!SaveFinalized(c)
    <3>1. state' = state
      BY <1>1, <2>2, RecordStays DEF CommandSide
    <3> DEFINE known == UNION {since[c] : c \in {d \in Commands : C!SaveFinalized(d)}}
    <3>2. unseen' = known \cup unseen
      BY <1>1, <2>2 DEF CommandSide
    <3>3. unseen \subseteq unseen'
      <4> HIDE DEF known
      <4> QED
        BY <3>2
    <3> QED
      BY <1>1, <1>r, <3>1, <3>3 DEF CompletedInv, SettledBut
  <2> QED
    BY <2>1, <2>2
<1>2. ASSUME NEW c \in Commands, Deciding(command'[c]), command'[c].clean
      PROVE  SettledBut(row', since'[c])
  <2>1. since'[c] = since[c]
    BY <1>2 DEF CommandSide
  <2>p. ASSUME NEW d \in Commands, NEW e, C!Proceeds(d, e),
               d = c => ~Deciding(e) \/ ~e.clean \/ SettledBut(row, since[c])
        PROVE  SettledBut(row', since'[c])
    <3>1. command'[c] = IF c = d THEN e ELSE command[c]
      BY <2>p DEF C!Proceeds, TypeOK, C!CutoverTypeOK
    <3> QED
      BY <1>2, <1>r, <2>1, <2>p, <3>1 DEF CompletedInv
  <2>2. CASE C!TakeInventory(Cardinality(InChat))
    BY <1>2, <1>r, <2>1, <2>2 DEF C!TakeInventory, CompletedInv
  <2>3. ASSUME NEW d \in Commands, NEW kind \in {"pause", "resume", "freeze"},
               C!ReadState(d, kind)
        PROVE  SettledBut(row', since'[c])
    <3> DEFINE e == [C!NoCommand EXCEPT !.phase = "save", !.kind = kind, !.seen = state]
    <3>1. ~Deciding(e)
      BY DEF Deciding, C!NoCommand
    <3> QED
      BY <2>3, <2>p, <3>1 DEF C!ReadState
  <2>4. ASSUME NEW d \in Commands, C!SaveTransition(d) \/ C!SaveFinalized(d)
        PROVE  SettledBut(row', since'[c])
    <3>1. ~Deciding(C!NoCommand)
      BY DEF Deciding, C!NoCommand
    <3> QED
      BY <2>4, <2>p, <3>1 DEF C!SaveTransition, C!SaveFinalized, C!Returns
  <2>5. ASSUME NEW d \in Commands, C!StartFinalize(d) PROVE SettledBut(row', since'[c])
    <3> DEFINE e == [C!NoCommand EXCEPT !.phase = "inventory", !.kind = "finalize",
                                        !.seen = state]
    <3>1. ~Deciding(e)
      BY DEF Deciding, C!NoCommand
    <3> QED
      BY <2>5, <2>p, <3>1 DEF C!StartFinalize
  <2>6. ASSUME NEW d \in Commands, C!ReadInventory(d) PROVE SettledBut(row', since'[c])
    <3> DEFINE e == [command[d] EXCEPT !.phase = "messages", !.listed = inventory]
    <3>1. ~Deciding(e)
      BY <1>t DEF Deciding, C!Command
    <3> QED
      BY <2>6, <2>p, <3>1 DEF C!ReadInventory
  <2>7. ASSUME NEW d \in Commands, C!ReadMessages(d) PROVE SettledBut(row', since'[c])
    <3> DEFINE clean == C!MessagesClean(command[d].listed)
               e == [command[d] EXCEPT !.phase = "attachments", !.listed = C!NoSnapshot,
                                       !.clean = clean]
    <3>1. e.clean <=> clean
      BY <1>t DEF C!Command
    <3>2. e.clean => SettledBut(row, since[c])
      BY <3>1, CleanIsSettled
    <3> QED
      BY <2>7, <2>p, <3>2 DEF C!ReadMessages
  <2>8. ASSUME NEW d \in Commands, C!ReadAttachments(d) PROVE SettledBut(row', since'[c])
    <3>1. PICK others \in BOOLEAN :
            C!Proceeds(d, [command[d] EXCEPT !.phase = "save",
                                             !.clean = command[d].clean /\ others])
      BY <2>8 DEF C!ReadAttachments
    <3> DEFINE e == [command[d] EXCEPT !.phase = "save",
                                       !.clean = command[d].clean /\ others]
    <3>2. e.clean => command[d].clean
      BY <1>t DEF C!Command
    <3>3. e.kind = command[d].kind /\ e.phase = "save"
      BY <1>t DEF C!Command
    <3>4. Deciding(e) => Deciding(command[d])
      BY <2>8, <3>3 DEF Deciding, C!ReadAttachments, C!InStep
    <3>5. d = c => ~Deciding(e) \/ ~e.clean \/ SettledBut(row, since[c])
      BY <3>2, <3>4 DEF CompletedInv
    <3> QED
      BY <3>1, <3>5, <2>p
  <2> QED
    BY <2>2, <2>3, <2>4, <2>5, <2>6, <2>7, <2>8
       DEF CommandSide, C!CommandStep, C!PauseDelta, C!ResumeDelta, C!FreezeCutover
<1> QED
  BY <1>1, <1>2 DEF CompletedInv

\* Completed means frozen, and settled when the registry was read.
THEOREM CompletionWasEarned == Spec => []CompletedWasSettled
<1>1. Init => CompletedInv
  <2>1. C!NoState.status # "completed" /\ ~Deciding(C!NoCommand)
    BY DEF C!NoState, C!NoCommand, Deciding
  <2> QED
    BY <2>1 DEF Init, C!CutoverInit, CompletedInv
<1>2. TypeOK /\ CompletedInv /\ [Next]_vars => CompletedInv'
  <2> SUFFICES ASSUME TypeOK, CompletedInv, [Next]_vars PROVE CompletedInv'
    OBVIOUS
  <2>1. CASE UNCHANGED vars
    BY <2>1 DEF vars, deltaVars, CompletedInv
  <2> QED
    BY <2>1, CompletedDeltaStep, CompletedCommandStep DEF Next
<1>3. CompletedInv => CompletedWasSettled
  BY DEF CompletedInv, SettledBut, CompletedWasSettled
<1> QED
  BY LiveTypeCorrect, <1>1, <1>2, <1>3, PTL DEF Spec
=============================================================================
