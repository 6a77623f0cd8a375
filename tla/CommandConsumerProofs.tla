------------------------ MODULE CommandConsumerProofs ------------------------
(***************************************************************************)
(* Proofs about CommandConsumer, for every set of jobs and workers, every  *)
(* storage mode and every bound.                                           *)
(***************************************************************************)
EXTENDS CommandConsumer, TLAPS

-----------------------------------------------------------------------------
(* The transactions on one row, as in MigrationJobsProofs.                 *)

Row == JobRow(Workers, 0 .. MaxAttempts)

LEMMA RowTypes ==
  ASSUME NEW row \in Row, NEW w, NEW code \in ErrorCode
  PROVE  /\ Renewed(row, w) \in Row
         /\ Completed(row, w) \in Row
         /\ Failed(row, w, code) \in Row
         /\ CancelRequested(row) \in Row
         /\ Lapsed(row) \in Row
  <1> USE DEF Row, JobRow, JobStatus, Lease, ErrorCode
  <1>1. Renewed(row, w) \in Row
    BY DEF Renewed
  <1>2. Completed(row, w) \in Row
    BY DEF Completed
  <1>3. Failed(row, w, code) \in Row
    BY DEF Failed
  <1>4. CancelRequested(row) \in Row
    BY DEF CancelRequested
  <1>5. Lapsed(row) \in Row
    BY DEF Lapsed
  <1> QED
    BY <1>1, <1>2, <1>3, <1>4, <1>5

LEMMA NewRowTypes ==
  /\ AbsentRow \in Row
  /\ QueuedRow \in Row
  /\ \A row \in Row, w \in Workers :
        row.attempts < MaxAttempts => ClaimedBy(row, w) \in Row
  BY ModeAssumption
     DEF Row, JobRow, JobStatus, Lease, ErrorCode, AbsentRow, QueuedRow, ClaimedBy

\* What a row that is running keeps, and what is asked of one that is cancelled.
LEMMA RowEffects ==
  ASSUME NEW row \in Row, NEW w, NEW code \in ErrorCode
  PROVE  /\ Renewed(row, w).error = row.error
         /\ Completed(row, w).error = row.error
         /\ Failed(row, w, code).error \in {row.error, code}
         /\ \A v : Owns(row, v) =>
              /\ Owns(CancelRequested(row), v)
              /\ CancelRequested(row).lease = row.lease
              /\ v # w => /\ Completed(row, w) = row
                          /\ Failed(row, w, code) = row
              /\ Owns(Renewed(row, w), v)
              /\ row.lease = "live" => /\ Renewed(row, w).lease = "live"
                                       /\ ~Claimable(row)
  BY DEF Row, JobRow, JobStatus, Lease, ErrorCode, Renewed, Completed, Failed,
         CancelRequested, Owns, Claimable

-----------------------------------------------------------------------------
(* Types, and the offset: everything below what a consumer reads next is   *)
(* recorded.                                                               *)

\* The phases in which a consumer has a command in hand.
Handling == {"dedup", "claiming", "executing", "returned", "raised", "cancelling",
             "marking", "seeking", "committing"}

\* The first n commands of the topic are in the inbox.
Recorded(n) == n \in 0 .. Len(topic) /\ \A i \in 1 .. n : topic[i] \in inbox

\* The strengthening of NoCommandSkipped: it holds of every consumer's position,
\* of the ones that the group has replaced too, for the broker may take a late
\* commit while nobody is assigned.
Position(w) ==
  /\ consumer[w].phase \in {"new", "polling"} => Recorded(consumer[w].next - 1)
  /\ consumer[w].phase \in Handling =>
       /\ consumer[w].at \in 1 .. Len(topic)
       /\ consumer[w].next = consumer[w].at + 1
       /\ Recorded(consumer[w].at - 1)
  /\ consumer[w].phase = "committing" => InHand(w) \in inbox

OffsetInv == NoCommandSkipped /\ \A w \in Workers : Position(w)

LEMMA TypeInit == Init => TypeOK /\ OffsetInv
  <1> SUFFICES ASSUME Init PROVE TypeOK /\ OffsetInv
    OBVIOUS
  <1>1. TypeOK
    BY NewRowTypes, ModeAssumption DEF Init, TypeOK, Row, Consumer, Phase
  <1>2. OffsetInv
    BY DEF Init, OffsetInv, NoCommandSkipped, Position, Recorded, Handling
  <1> QED
    BY <1>1, <1>2

LEMMA InHandTyped ==
  ASSUME TypeOK, OffsetInv, NEW w \in Workers, consumer[w].phase \in Handling
  PROVE  /\ consumer[w].at \in 1 .. Len(topic)
         /\ InHand(w) \in Jobs
         /\ job[InHand(w)] \in Row
  BY DEF TypeOK, OffsetInv, Position, InHand, Row

LEMMA SetPhaseEffect ==
  ASSUME TypeOK, NEW w \in Workers, NEW phase \in Phase, SetPhase(w, phase)
  PROVE  /\ consumer' \in [Workers -> Consumer]
         /\ consumer'[w].phase = phase
         /\ consumer'[w].at = consumer[w].at
         /\ consumer'[w].next = consumer[w].next
         /\ \A v \in Workers \ {w} : consumer'[v] = consumer[v]
  BY DEF TypeOK, SetPhase, Consumer

\* What the steps of a consumer do to its position.
LEMMA PositionStep ==
  ASSUME TypeOK, OffsetInv, [Next]_vars, NEW v \in Workers
  PROVE  Position(v)'
  <1> USE DEF TypeOK
  <1>1. ASSUME topic' = topic, inbox \subseteq inbox', consumer'[v] = consumer[v]
        PROVE  Position(v)'
    BY <1>1 DEF OffsetInv, Position, Recorded, InHand
  <1>2. ASSUME NEW j \in Jobs, Deliver(j) PROVE Position(v)'
    <2>1. /\ topic \in Seq(Jobs)
          /\ topic' = Append(topic, j)
          /\ UNCHANGED <<inbox, consumer>>
      BY <1>2 DEF Deliver
    <2>2. /\ Len(topic') = Len(topic) + 1
          /\ \A i \in 1 .. Len(topic) : topic'[i] = topic[i]
      BY <2>1
    <2>3. ASSUME NEW n, Recorded(n) PROVE Recorded(n)'
      BY <2>1, <2>2, <2>3 DEF Recorded
    <2>4. Position(v)
      BY DEF OffsetInv
    <2>5. consumer[v].at \in 1 .. Len(topic) =>
             /\ consumer'[v].at \in 1 .. Len(topic')
             /\ InHand(v)' = InHand(v)
      BY <2>1, <2>2 DEF InHand
    <2>6. consumer[v].phase = "committing" => consumer[v].phase \in Handling
      BY DEF Handling
    <2> QED
      BY <2>1, <2>3, <2>4, <2>5, <2>6 DEF Position
  <1>3. ASSUME NEW w \in Workers, NEW phase \in Phase, SetPhase(w, phase),
               topic' = topic, inbox \subseteq inbox',
               \/ phase \in {"dead", "down"}
               \/ consumer[w].phase = "new" /\ phase = "polling"
               \/ /\ consumer[w].phase \in Handling /\ phase \in Handling
                  /\ phase = "committing" => InHand(w) \in inbox'
        PROVE  Position(v)'
    <2>1. /\ consumer'[w].phase = phase
          /\ consumer'[w].at = consumer[w].at
          /\ consumer'[w].next = consumer[w].next
          /\ v # w => consumer'[v] = consumer[v]
      BY <1>3, SetPhaseEffect
    <2>2. CASE v # w
      BY <1>1, <1>3, <2>1, <2>2
    <2>3. CASE v = w
      BY <1>3, <2>1, <2>3 DEF OffsetInv, Position, Recorded, InHand, Handling
    <2> QED
      BY <2>2, <2>3
  <1>4. ASSUME NEW j \in Jobs,
               Enqueue(j) \/ RequestCancel(j) \/ LeaseLapses(j) \/ LeaseStalls(j)
        PROVE  Position(v)'
    BY <1>1, <1>4 DEF Enqueue, RequestCancel, LeaseLapses, LeaseStalls
  <1>5. ASSUME NEW w \in Workers, Evict(w) \/ PollIntervalExceeded(w) \/ HeartbeatRenews(w)
        PROVE  Position(v)'
    BY <1>1, <1>5 DEF Evict, PollIntervalExceeded, HeartbeatRenews
  <1>6. ASSUME NEW w \in Workers, Assign(w) PROVE Position(v)'
    <2>1. CASE v # w
      BY <1>1, <1>6, <2>1 DEF Assign
    <2>2. CASE v = w
      <3>1. /\ consumer'[w].phase = "polling"
            /\ consumer'[w].next = committed + 1
        BY <1>6 DEF Assign, Consumer
      <3> QED
        BY <1>6, <2>2, <3>1
           DEF Assign, OffsetInv, NoCommandSkipped, Position, Recorded, Handling
    <2> QED
      BY <2>1, <2>2
  <1>7. ASSUME NEW w \in Workers, Poll(w) PROVE Position(v)'
    <2>1. CASE v # w
      BY <1>1, <1>7, <2>1 DEF Poll
    <2>2. CASE v = w
      <3>1. /\ consumer'[w].phase = "dedup"
            /\ consumer'[w].at = consumer[w].next
            /\ consumer'[w].next = consumer[w].next + 1
        BY <1>7 DEF Poll
      <3>2. Recorded(consumer[w].next - 1) /\ consumer[w].next \in 1 .. Len(topic)
        BY <1>7 DEF Poll, OffsetInv, Position, Recorded, Consumer
      <3>3. topic' = topic /\ inbox' = inbox
        BY <1>7 DEF Poll
      <3> QED
        BY <2>2, <3>1, <3>2, <3>3 DEF Position, Recorded, Handling
    <2> QED
      BY <2>1, <2>2
  <1>8. ASSUME NEW w \in Workers, Seek(w) PROVE Position(v)'
    <2>1. CASE assigned # w
      BY <1>3, <1>8, <2>1 DEF Seek, Phase
    <2>2. CASE assigned = w /\ v # w
      BY <1>1, <1>8, <2>2 DEF Seek
    <2>3. CASE assigned = w /\ v = w
      BY <1>8, <2>3 DEF Seek, OffsetInv, Position, Recorded, Handling
    <2> QED
      BY <2>1, <2>2, <2>3
  <1>9. ASSUME NEW w \in Workers, Commit(w) PROVE Position(v)'
    <2>1. CASE SetPhase(w, "dead")
      BY <1>3, <1>9, <2>1 DEF Commit, Phase
    <2>2. CASE SetPhase(w, "polling") /\ v # w
      BY <1>1, <1>9, <2>2 DEF Commit, SetPhase
    <2>3. CASE SetPhase(w, "polling") /\ v = w
      <3>1. /\ consumer'[w].phase = "polling"
            /\ consumer'[w].next = consumer[w].next
        BY <2>3, SetPhaseEffect DEF Phase
      <3>2. /\ consumer[w].at \in 1 .. Len(topic) /\ consumer[w].next = consumer[w].at + 1
            /\ Recorded(consumer[w].at - 1) /\ InHand(w) \in inbox
        BY <1>9 DEF Commit, OffsetInv, Position, Handling
      <3>3. Recorded(consumer[w].next - 1)
        BY <3>2 DEF Recorded, InHand
      <3>4. topic' = topic /\ inbox' = inbox
        BY <1>9 DEF Commit
      <3> QED
        BY <2>3, <3>1, <3>3, <3>4 DEF Position, Recorded, Handling
    <2> QED
      BY <1>9, <2>1, <2>2, <2>3 DEF Commit
  <1>10. ASSUME NEW w \in Workers, MarkProcessed(w) PROVE Position(v)'
    BY <1>3, <1>10 DEF MarkProcessed, Phase, Handling
  <1>11. ASSUME NEW w \in Workers, IsProcessed(w) PROVE Position(v)'
    BY <1>3, <1>11 DEF IsProcessed, Phase, Handling
  <1>12. ASSUME NEW w \in Workers,
                \/ Claim(w) \/ ClaimAnswerLost(w) \/ CallRaises(w) \/ ExecutionReturns(w)
                \/ ExecutionRaises(w) \/ MarkCompleted(w) \/ MarkFailed(w)
                \/ MarkCancelled(w) \/ HeartbeatCancels(w) \/ LoopDies(w)
                \/ Start(w) \/ Stop(w) \/ Crash(w)
         PROVE  Position(v)'
    <2>1. PICK phase \in Phase :
             /\ SetPhase(w, phase)
             /\ \/ phase \in {"dead", "down"}
                \/ consumer[w].phase = "new" /\ phase = "polling"
                \/ /\ consumer[w].phase \in Handling
                   /\ phase \in Handling \ {"committing"}
      BY <1>12
         DEF Claim, ClaimAnswerLost, CallRaises, ExecutionReturns, ExecutionRaises,
             MarkCompleted, MarkFailed, MarkCancelled, HeartbeatCancels, LoopDies, Start, Stop,
             Crash,
             Phase, Handling
    <2>2. topic' = topic /\ inbox' = inbox
      BY <1>12
         DEF Claim, ClaimAnswerLost, CallRaises, ExecutionReturns, ExecutionRaises,
             MarkCompleted, MarkFailed, MarkCancelled, HeartbeatCancels, LoopDies, Start, Stop,
             Crash
    <2> QED
      BY <1>3, <2>1, <2>2
  <1>13. CASE UNCHANGED vars
    BY <1>1, <1>13 DEF vars
  <1> QED
    BY <1>2, <1>4, <1>5, <1>6, <1>7, <1>8, <1>9, <1>10, <1>11, <1>12, <1>13
       DEF Next, JobStep, GroupStep, HandlerStep, LoopStep, ProcessStep

LEMMA OffsetStep ==
  ASSUME TypeOK, OffsetInv, [Next]_vars
  PROVE  OffsetInv'
  <1>1. \A v \in Workers : Position(v)'
    BY PositionStep
  <1>2. NoCommandSkipped'
    <2>1. CASE committed' = committed
      <3>1. \A i \in 1 .. committed : topic'[i] = topic[i]
        BY DEF TypeOK, Next, JobStep, GroupStep, HandlerStep, LoopStep, ProcessStep, Enqueue,
             Deliver, RequestCancel, LeaseLapses, LeaseStalls, Assign, Evict,
             PollIntervalExceeded, HeartbeatRenews, Start, Poll, IsProcessed, Claim,
             ClaimAnswerLost, CallRaises, ExecutionReturns, ExecutionRaises, MarkCompleted,
             MarkFailed, MarkCancelled, HeartbeatCancels, MarkProcessed, Seek, Commit, LoopDies,
             Stop, Crash, vars
      <3>2. inbox \subseteq inbox'
        BY DEF TypeOK, Next, JobStep, GroupStep, HandlerStep, LoopStep, ProcessStep, Enqueue,
             Deliver, RequestCancel, LeaseLapses, LeaseStalls, Assign, Evict,
             PollIntervalExceeded, HeartbeatRenews, Start, Poll, IsProcessed, Claim,
             ClaimAnswerLost, CallRaises, ExecutionReturns, ExecutionRaises, MarkCompleted,
             MarkFailed, MarkCancelled, HeartbeatCancels, MarkProcessed, Seek, Commit, LoopDies,
             Stop, Crash, vars
      <3> QED
        BY <2>1, <3>1, <3>2 DEF OffsetInv, NoCommandSkipped
    <2>2. CASE committed' # committed
      <3>1. PICK w \in Workers : Commit(w) \/ LoopDies(w)
        BY <2>2 DEF Next, JobStep, GroupStep, HandlerStep, LoopStep, ProcessStep, Enqueue,
             Deliver, RequestCancel, LeaseLapses, LeaseStalls, Assign, Evict,
             PollIntervalExceeded, HeartbeatRenews, Start, Poll, IsProcessed, Claim,
             ClaimAnswerLost, CallRaises, ExecutionReturns, ExecutionRaises, MarkCompleted,
             MarkFailed, MarkCancelled, HeartbeatCancels, MarkProcessed, Seek, Stop, Crash,
             vars
      <3> QED
        BY <2>2, <3>1
           DEF Commit, LoopDies, OffsetInv, NoCommandSkipped, Position, Recorded, InHand, Handling
    <2> QED
      BY <2>1, <2>2
  <1> QED
    BY <1>1, <1>2 DEF OffsetInv

LEMMA TypeStep ==
  ASSUME TypeOK, OffsetInv, [Next]_vars
  PROVE  TypeOK'
  <1> USE DEF TypeOK
  <1>1. ASSUME NEW j \in Jobs, Enqueue(j) PROVE TypeOK'
    BY <1>1, NewRowTypes DEF Enqueue, Row
  <1>2. ASSUME NEW j \in Jobs, Deliver(j) PROVE TypeOK'
    BY <1>2 DEF Deliver
  <1>3. ASSUME NEW j \in Jobs, RequestCancel(j) \/ LeaseLapses(j) \/ LeaseStalls(j)
        PROVE  TypeOK'
    <2>1. CancelRequested(job[j]) \in Row /\ Lapsed(job[j]) \in Row
      BY RowTypes DEF ErrorCode, Row
    <2> QED
      BY <1>3, <2>1, ModeAssumption
         DEF RequestCancel, LeaseLapses, LeaseStalls, LeaseExpires, Fault, Row
  <1>4. ASSUME NEW w \in Workers, Assign(w) \/ Evict(w) \/ PollIntervalExceeded(w)
        PROVE  TypeOK'
    <2>1. CASE Assign(w)
      <3> DEFINE joined == [consumer[w] EXCEPT !.next = committed + 1]
      <3>1. joined \in Consumer
        BY DEF Consumer
      <3>2. consumer' = [consumer EXCEPT ![w] = joined]
        BY <2>1 DEF Assign
      <3> HIDE DEF joined
      <3> QED
        BY <2>1, <3>1, <3>2 DEF Assign
    <2>2. CASE Evict(w) \/ PollIntervalExceeded(w)
      BY <2>2, ModeAssumption DEF Evict, PollIntervalExceeded, Fault
    <2> QED
      BY <1>4, <2>1, <2>2
  <1>5. ASSUME NEW w \in Workers, Poll(w) PROVE TypeOK'
    <2> DEFINE taken == [phase |-> "dedup", next |-> consumer[w].next + 1,
                         at |-> consumer[w].next]
    <2>1. taken \in Consumer
      BY DEF Consumer, Phase
    <2>2. consumer' = [consumer EXCEPT ![w] = taken]
      BY <1>5 DEF Poll
    <2> HIDE DEF taken
    <2> QED
      BY <1>5, <2>1, <2>2 DEF Poll
  <1>6. ASSUME NEW w \in Workers, Seek(w) PROVE TypeOK'
    <2> DEFINE back == [phase |-> "polling", next |-> consumer[w].at, at |-> consumer[w].at]
    <2>1. back \in Consumer
      BY DEF Consumer, Phase
    <2>2. CASE assigned = w
      <3>1. consumer' = [consumer EXCEPT ![w] = back]
        BY <1>6, <2>2 DEF Seek
      <3> QED
        BY <1>6, <2>1, <3>1 DEF Seek
    <2>3. CASE assigned # w
      BY <1>6, <2>3, SetPhaseEffect DEF Seek, Phase
    <2> QED
      BY <2>2, <2>3
  <1>7. ASSUME NEW w \in Workers, Commit(w) \/ LoopDies(w) PROVE TypeOK'
    <2>1. consumer' \in [Workers -> Consumer]
      BY <1>7, SetPhaseEffect DEF Commit, LoopDies, Phase
    <2>2. committed' \in 0 .. Len(topic)
      BY <1>7, InHandTyped DEF Commit, LoopDies, Handling
    <2> QED
      BY <1>7, <2>1, <2>2, ModeAssumption DEF Commit, LoopDies, Fault
  <1>8. ASSUME NEW w \in Workers,
               \/ IsProcessed(w) \/ CallRaises(w) \/ ExecutionReturns(w) \/ ExecutionRaises(w)
               \/ HeartbeatCancels(w) \/ Start(w) \/ Stop(w) \/ Crash(w)
        PROVE  TypeOK'
    <2>1. \E phase \in Phase : SetPhase(w, phase)
      BY <1>8
         DEF IsProcessed, CallRaises, ExecutionReturns, ExecutionRaises, HeartbeatCancels,
             Start, Stop, Crash, Phase
    <2>2. consumer' \in [Workers -> Consumer]
      BY <2>1, SetPhaseEffect
    <2> QED
      BY <1>8, <2>2, ModeAssumption
         DEF IsProcessed, CallRaises, ExecutionReturns, ExecutionRaises, HeartbeatCancels,
             Start, Stop, Crash, Fault
  <1>9. ASSUME NEW w \in Workers,
               \/ Claim(w) \/ ClaimAnswerLost(w) \/ MarkCompleted(w) \/ MarkFailed(w)
               \/ MarkCancelled(w)
        PROVE  TypeOK'
    <2>1. \E phase \in Phase : SetPhase(w, phase)
      BY <1>9 DEF Claim, ClaimAnswerLost, MarkCompleted, MarkFailed, MarkCancelled, Phase
    <2>2. consumer' \in [Workers -> Consumer]
      BY <2>1, SetPhaseEffect
    <2>3. InHand(w) \in Jobs /\ job[InHand(w)] \in Row
      BY <1>9, InHandTyped
         DEF Claim, ClaimAnswerLost, MarkCompleted, MarkFailed, MarkCancelled, Handling
    <2>4. /\ Completed(job[InHand(w)], w) \in Row
          /\ Failed(job[InHand(w)], w, "execution_error") \in Row
          /\ Failed(job[InHand(w)], w, "cancelled") \in Row
      BY <2>3, RowTypes DEF ErrorCode
    <2>5. job[InHand(w)].attempts < MaxAttempts => ClaimedBy(job[InHand(w)], w) \in Row
      BY <2>3, NewRowTypes
    <2>6. job' \in [Jobs -> Row]
      BY <1>9, <2>3, <2>4, <2>5
         DEF Claim, ClaimAnswerLost, MarkCompleted, MarkFailed, MarkCancelled, Row
    <2> QED
      BY <1>9, <2>2, <2>6, ModeAssumption
         DEF Claim, ClaimAnswerLost, MarkCompleted, MarkFailed, MarkCancelled, Fault, Row
  <1>10. ASSUME NEW w \in Workers, HeartbeatRenews(w) PROVE TypeOK'
    <2>1. InHand(w) \in Jobs /\ job[InHand(w)] \in Row
      BY <1>10, InHandTyped DEF HeartbeatRenews, Executing, Handling
    <2>2. Renewed(job[InHand(w)], w) \in Row
      BY <2>1, RowTypes DEF ErrorCode
    <2> QED
      BY <1>10, <2>1, <2>2 DEF HeartbeatRenews, Row
  <1>11. ASSUME NEW w \in Workers, MarkProcessed(w) PROVE TypeOK'
    <2>1. InHand(w) \in Jobs
      BY <1>11, InHandTyped DEF MarkProcessed, Handling
    <2> QED
      BY <1>11, <2>1, SetPhaseEffect DEF MarkProcessed, Phase
  <1>12. CASE UNCHANGED vars
    BY <1>12 DEF vars
  <1> QED
    BY <1>1, <1>2, <1>3, <1>4, <1>5, <1>6, <1>7, <1>8, <1>9, <1>10, <1>11, <1>12
       DEF Next, JobStep, GroupStep, HandlerStep, LoopStep, ProcessStep

LEMMA OffsetCorrect == Spec => [](TypeOK /\ OffsetInv)
  <1>1. TypeOK /\ OffsetInv /\ [Next]_vars => (TypeOK /\ OffsetInv)'
    BY TypeStep, OffsetStep
  <1> QED
    BY TypeInit, <1>1, PTL DEF Spec

\* The table, the inbox, the topic and the consumers keep their types.
THEOREM ConsumerTypeCorrect == Spec => []TypeOK
  BY OffsetCorrect, PTL

\* Every command below the committed offset is in the inbox, whatever raises,
\* crashes or is rebalanced between handling and commit.
THEOREM CommandsAreNotSkipped == Spec => []NoCommandSkipped
  <1>1. OffsetInv => NoCommandSkipped
    BY DEF OffsetInv
  <1> QED
    BY OffsetCorrect, <1>1, PTL

-----------------------------------------------------------------------------
(* One execution per job of which no heartbeat was lost.                   *)

\* The strengthening: an execution of a job of which no heartbeat was lost owns
\* the row, and the lease is live; so nobody else can claim the job.
LeaseInv ==
  \A w \in Workers :
     Executing(w) /\ InHand(w) \notin missed =>
       /\ Owns(job[InHand(w)], w)
       /\ job[InHand(w)].lease = "live"

LEMMA LeaseInvUnique == LeaseInv => OneExecutionPerJob
  BY DEF LeaseInv, OneExecutionPerJob, Owns

\* An execution that goes on keeps the command it has in hand.
LEMMA ExecutionGoesOn ==
  ASSUME TypeOK, OffsetInv, [Next]_vars, NEW w \in Workers, Executing(w), Executing(w)'
  PROVE  InHand(w)' = InHand(w)
  <1> USE DEF TypeOK
  <1>1. consumer[w].at \in 1 .. Len(topic)
    BY InHandTyped DEF Executing, Handling
  <1>2. topic'[consumer[w].at] = topic[consumer[w].at]
    BY <1>1
       DEF Next, JobStep, GroupStep, HandlerStep, LoopStep, ProcessStep, Enqueue,
           Deliver, RequestCancel, LeaseLapses, LeaseStalls, Assign, Evict,
           PollIntervalExceeded, HeartbeatRenews, Start, Poll, IsProcessed, Claim,
           ClaimAnswerLost, CallRaises, ExecutionReturns, ExecutionRaises, MarkCompleted,
           MarkFailed, MarkCancelled, HeartbeatCancels, MarkProcessed, Seek, Commit, LoopDies,
           Stop, Crash, vars
  <1>3. consumer'[w].at = consumer[w].at
    <2>1. ASSUME NEW v \in Workers, NEW phase \in Phase, SetPhase(v, phase)
          PROVE  consumer'[w].at = consumer[w].at
      BY <2>1, SetPhaseEffect
    <2>2. ASSUME NEW v \in Workers, Assign(v) \/ Poll(v) \/ Seek(v)
          PROVE  consumer'[w].at = consumer[w].at
      BY <2>1, <2>2 DEF Assign, Poll, Seek, Executing, Phase
    <2> QED
      BY <2>1, <2>2
         DEF Next, JobStep, GroupStep, HandlerStep, LoopStep, ProcessStep, Enqueue,
             Deliver, RequestCancel, LeaseLapses, LeaseStalls, Evict,
             PollIntervalExceeded, HeartbeatRenews, Start, IsProcessed, Claim,
             ClaimAnswerLost, CallRaises, ExecutionReturns, ExecutionRaises, MarkCompleted,
             MarkFailed, MarkCancelled, HeartbeatCancels, MarkProcessed, Commit, LoopDies,
             Stop, Crash, vars, Phase
  <1> QED
    BY <1>2, <1>3 DEF InHand

\* Only a claim starts an execution.
LEMMA ExecutionBegins ==
  ASSUME TypeOK, OffsetInv, [Next]_vars, NEW w \in Workers, ~Executing(w), Executing(w)'
  PROVE  /\ Claim(w)
         /\ Claimable(job[InHand(w)])
         /\ job' = [job EXCEPT ![InHand(w)] = ClaimedBy(job[InHand(w)], w)]
         /\ InHand(w)' = InHand(w)
         /\ InHand(w) \in Jobs
  <1> USE DEF TypeOK
  <1>1. ASSUME NEW v \in Workers, NEW phase \in Phase, SetPhase(v, phase)
        PROVE  /\ v = w
               /\ phase \in {"executing", "returned", "raised", "cancelling"}
               /\ consumer[w].phase \notin {"executing", "returned", "raised", "cancelling"}
    BY <1>1, SetPhaseEffect DEF Executing
  <1>2. ASSUME NEW v \in Workers, Assign(v) \/ Poll(v) \/ Seek(v) PROVE FALSE
    <2>1. CASE Assign(v)
      <3>1. consumer'[w].phase = consumer[w].phase
        BY <2>1 DEF Assign, Consumer
      <3> QED
        BY <3>1 DEF Executing
    <2>2. CASE Poll(v)
      BY <2>2 DEF Poll, Executing
    <2>3. CASE Seek(v)
      BY <1>1, <2>3 DEF Seek, Executing, Phase
    <2> QED
      BY <1>2, <2>1, <2>2, <2>3
  <1>3. Claim(w)
    BY <1>1, <1>2
       DEF Next, JobStep, GroupStep, HandlerStep, LoopStep, ProcessStep, Enqueue,
           Deliver, RequestCancel, LeaseLapses, LeaseStalls, Evict,
           PollIntervalExceeded, HeartbeatRenews, Start, IsProcessed, Claim,
           ClaimAnswerLost, CallRaises, ExecutionReturns, ExecutionRaises, MarkCompleted,
           MarkFailed, MarkCancelled, HeartbeatCancels, MarkProcessed, Commit, LoopDies,
           Stop, Crash, vars, Phase, Executing
  <1>4. ~SetPhase(w, "marking")
    BY <1>1 DEF Phase
  <1>5. SetPhase(w, "executing")
    BY <1>3, <1>4 DEF Claim
  <1> QED
    BY <1>3, <1>4, <1>5, SetPhaseEffect, InHandTyped DEF Claim, InHand, Phase, Handling

LEMMA MissedGrows == [Next]_vars => missed \subseteq missed'
  BY DEF Next, JobStep, GroupStep, HandlerStep, LoopStep, ProcessStep, Enqueue,
     Deliver, RequestCancel, LeaseLapses, LeaseStalls, Assign, Evict,
     PollIntervalExceeded, HeartbeatRenews, Start, Poll, IsProcessed, Claim,
     ClaimAnswerLost, CallRaises, ExecutionReturns, ExecutionRaises, MarkCompleted,
     MarkFailed, MarkCancelled, HeartbeatCancels, MarkProcessed, Seek, Commit, LoopDies,
     Stop, Crash, vars

LEMMA LeaseInvStep ==
  ASSUME TypeOK, OffsetInv, LeaseInv, [Next]_vars
  PROVE  LeaseInv'
  <1> DEFINE Held(row, w) == Owns(row, w) /\ row.lease = "live"
  <1> SUFFICES ASSUME NEW w \in Workers, Executing(w)', InHand(w)' \notin missed'
               PROVE  Held(job'[InHand(w)'], w)
    BY DEF LeaseInv, Owns
  <1> USE DEF TypeOK
  <1>1. CASE ~Executing(w)
    <2>1. job'[InHand(w)'] = ClaimedBy(job[InHand(w)], w)
      BY <1>1, ExecutionBegins
    <2> QED
      BY <2>1 DEF ClaimedBy, Owns
  <1>2. CASE Executing(w)
    <2> DEFINE j == InHand(w)
    <2>1. /\ InHand(w)' = j
          /\ j \in Jobs
          /\ job[j] \in Row
          /\ j \notin missed
      BY <1>2, ExecutionGoesOn, InHandTyped, MissedGrows DEF Executing, Handling
    <2>2. Held(job[j], w)
      BY <1>2, <2>1 DEF LeaseInv
    <2>3. /\ job[j].status = "running"
          /\ ~Claimable(job[j])
          /\ \A code \in ErrorCode, v \in Workers \ {w} :
                Completed(job[j], v) = job[j] /\ Failed(job[j], v, code) = job[j]
          /\ Held(CancelRequested(job[j]), w)
          /\ \A v : Held(Renewed(job[j], v), w)
      BY <2>1, <2>2, RowEffects DEF Owns, ErrorCode
    <2> HIDE DEF j, Held
    <2> SUFFICES Held(job'[j], w)
      BY <2>1
    <2>4. ASSUME job'[j] = job[j] PROVE Held(job'[j], w)
      BY <2>2, <2>4
    <2>5. ASSUME NEW i \in Jobs, Enqueue(i) \/ RequestCancel(i) PROVE Held(job'[j], w)
      BY <2>1, <2>2, <2>3, <2>5 DEF Enqueue, RequestCancel
    <2>6. ASSUME NEW i \in Jobs, LeaseLapses(i) \/ LeaseStalls(i) PROVE Held(job'[j], w)
      <3>1. i # j
        BY <1>2, <2>1, <2>2, <2>6 DEF LeaseLapses, LeaseStalls, Attended, j, Held, Owns
      <3> QED
        BY <2>1, <2>4, <2>6, <3>1 DEF LeaseLapses, LeaseStalls, LeaseExpires
    <2>7. ASSUME NEW v \in Workers, HeartbeatRenews(v) PROVE Held(job'[j], w)
      BY <2>1, <2>2, <2>3, <2>7 DEF HeartbeatRenews
    <2>8. ASSUME NEW v \in Workers, Claim(v) \/ ClaimAnswerLost(v) PROVE Held(job'[j], w)
      BY <2>1, <2>3, <2>4, <2>8 DEF Claim, ClaimAnswerLost
    <2>9. ASSUME NEW v \in Workers, MarkCompleted(v) \/ MarkFailed(v) \/ MarkCancelled(v)
          PROVE  Held(job'[j], w)
      <3>1. v # w
        BY <2>9, SetPhaseEffect
           DEF MarkCompleted, MarkFailed, MarkCancelled, Phase, Executing
      <3> QED
        BY <2>1, <2>3, <2>4, <2>9, <3>1
           DEF MarkCompleted, MarkFailed, MarkCancelled, ErrorCode
    <2> QED
      BY <2>4, <2>5, <2>6, <2>7, <2>8, <2>9
         DEF Next, JobStep, GroupStep, HandlerStep, LoopStep, ProcessStep, Deliver, Assign,
             Evict, PollIntervalExceeded, Start, Poll, IsProcessed, CallRaises,
             ExecutionReturns, ExecutionRaises, HeartbeatCancels, MarkProcessed, Seek,
             Commit, LoopDies, Stop, Crash, vars
  <1> QED
    BY <1>1, <1>2

LEMMA LeaseInvInit == Init => LeaseInv
  BY DEF Init, LeaseInv, Executing

\* Two consumers execute one job only if its lease ran out under the first of
\* them, although the group hands commands over while they are being executed.
THEOREM CommandRunsOnce == Spec => []OneExecutionPerJob
  <1>1. TypeOK /\ OffsetInv /\ LeaseInv /\ [Next]_vars => LeaseInv'
    BY LeaseInvStep
  <1> QED
    BY OffsetCorrect, LeaseInvInit, <1>1, LeaseInvUnique, PTL DEF Spec

-----------------------------------------------------------------------------
(* Cancellations are asked for.                                            *)

\* A row says cancelled, and an execution is being cancelled, only of a job whose
\* cancellation was asked for.
CancelInv ==
  /\ \A j \in Jobs : job[j].error \in {"cancel_requested", "cancelled"} => j \in cancelled
  /\ \A w \in Workers : consumer[w].phase = "cancelling" => InHand(w) \in cancelled

LEMMA CancelInvInit == Init => CancelInv
  BY DEF Init, CancelInv, AbsentRow

LEMMA CancelInvStep ==
  ASSUME TypeOK, OffsetInv, CancelInv, [Next]_vars
  PROVE  CancelInv'
  <1> USE DEF TypeOK
  <1> DEFINE Asked(row) == row.error \in {"cancel_requested", "cancelled"}
  <1>1. cancelled \subseteq cancelled'
    BY DEF Next, JobStep, GroupStep, HandlerStep, LoopStep, ProcessStep, Enqueue,
       Deliver, RequestCancel, LeaseLapses, LeaseStalls, Assign, Evict,
       PollIntervalExceeded, HeartbeatRenews, Start, Poll, IsProcessed, Claim,
       ClaimAnswerLost, CallRaises, ExecutionReturns, ExecutionRaises, MarkCompleted,
       MarkFailed, MarkCancelled, HeartbeatCancels, MarkProcessed, Seek, Commit, LoopDies,
       Stop, Crash, vars
  <1>2. ASSUME NEW j \in Jobs, Asked(job'[j]), j \notin cancelled' PROVE FALSE
    <2>1. job[j] \in Row /\ ~Asked(job[j]) /\ j \notin cancelled
      BY <1>1, <1>2 DEF CancelInv, Row
    <2>2. /\ \A w : /\ ~Asked(Renewed(job[j], w))
                    /\ ~Asked(Completed(job[j], w))
                    /\ ~Asked(Failed(job[j], w, "execution_error"))
          /\ ~Asked(QueuedRow)
          /\ ~Asked(Lapsed(job[j]))
          /\ \A w : ~Asked(ClaimedBy(job[j], w))
      BY <2>1, RowEffects
         DEF QueuedRow, AbsentRow, Lapsed, ClaimedBy, Row, JobRow, ErrorCode
    <2>3. job'[j] # job[j]
      BY <1>2, <2>1
    <2> HIDE DEF Asked
    <2>4. ASSUME NEW i \in Jobs,
                 \/ Enqueue(i) \/ RequestCancel(i) \/ LeaseLapses(i) \/ LeaseStalls(i)
          PROVE  FALSE
      BY <1>2, <2>1, <2>2, <2>3, <2>4
         DEF Enqueue, RequestCancel, LeaseLapses, LeaseStalls, LeaseExpires
    <2>5. ASSUME NEW w \in Workers,
                 \/ HeartbeatRenews(w) \/ Claim(w) \/ ClaimAnswerLost(w) \/ MarkCompleted(w)
                 \/ MarkFailed(w)
          PROVE  FALSE
      BY <1>2, <2>2, <2>3, <2>5
         DEF HeartbeatRenews, Claim, ClaimAnswerLost, MarkCompleted, MarkFailed
    <2>6. ASSUME NEW w \in Workers, MarkCancelled(w) PROVE FALSE
      BY <2>1, <2>3, <2>6 DEF MarkCancelled, CancelInv
    <2> QED
      BY <2>3, <2>4, <2>5, <2>6
         DEF Next, JobStep, GroupStep, HandlerStep, LoopStep, ProcessStep, Deliver, Assign,
             Evict, PollIntervalExceeded, Start, Poll, IsProcessed, CallRaises,
             ExecutionReturns, ExecutionRaises, HeartbeatCancels, MarkProcessed, Seek,
             Commit, LoopDies, Stop, Crash, vars
  <1>3. ASSUME NEW w \in Workers, consumer'[w].phase = "cancelling"
        PROVE  InHand(w)' \in cancelled'
    <2>1. Executing(w)'
      BY <1>3 DEF Executing
    <2>2. CASE consumer[w].phase = "cancelling"
      BY <1>1, <2>1, <2>2, ExecutionGoesOn DEF CancelInv, Executing
    <2>3. CASE consumer[w].phase # "cancelling"
      <3>1. ASSUME NEW v \in Workers, NEW phase \in Phase, SetPhase(v, phase)
            PROVE  phase = "cancelling"
        BY <1>3, <2>3, <3>1, SetPhaseEffect
      <3>2. ASSUME NEW v \in Workers, Assign(v) \/ Poll(v) \/ Seek(v) PROVE FALSE
        <4>1. CASE Assign(v)
          BY <1>3, <2>3, <4>1 DEF Assign, Consumer
        <4>2. CASE Poll(v)
          BY <1>3, <2>3, <4>2 DEF Poll
        <4>3. CASE Seek(v)
          BY <1>3, <2>3, <3>1, <4>3 DEF Seek, Phase
        <4> QED
          BY <3>2, <4>1, <4>2, <4>3
      <3>3. consumer' # consumer
        BY <1>3, <2>3
      <3>4. PICK v \in Workers : HeartbeatCancels(v) /\ SetPhase(v, "cancelling")
        BY <3>1, <3>2, <3>3
           DEF Next, JobStep, GroupStep, HandlerStep, LoopStep, ProcessStep, Enqueue,
               Deliver, RequestCancel, LeaseLapses, LeaseStalls, Evict,
               PollIntervalExceeded, HeartbeatRenews, Start, IsProcessed, Claim,
               ClaimAnswerLost, CallRaises, ExecutionReturns, ExecutionRaises,
               MarkCompleted, MarkFailed, MarkCancelled, HeartbeatCancels, MarkProcessed,
               Commit, LoopDies, Stop, Crash, vars, Phase
      <3>5. v = w
        BY <1>3, <2>3, <3>4, SetPhaseEffect DEF Phase
      <3>6. InHand(w) \in Jobs /\ InHand(w) \in cancelled
        BY <3>4, <3>5, InHandTyped DEF HeartbeatCancels, CancelInv, Executing, Handling
      <3> QED
        BY <1>1, <2>1, <3>4, <3>5, <3>6, ExecutionGoesOn DEF HeartbeatCancels
    <2> QED
      BY <2>2, <2>3
  <1> QED
    BY <1>2, <1>3 DEF CancelInv

-----------------------------------------------------------------------------
(* The Kafka mode implements the life cycle, as the polling mode does.     *)

LEMMA OutwardRow ==
  ASSUME NEW row \in Row, NEW w
  PROVE  /\ Outward(AbsentRow) = "absent"
         /\ Outward(QueuedRow) = "queued"
         /\ row.status = "absent" => Outward(row) = "absent"
         /\ Claimable(row) => Outward(row) \in {"queued", "running"}
         /\ Outward(ClaimedBy(row, w)) = "running"
         /\ row.status = "running" => Outward(Lapsed(row)) = Outward(row)
         /\ Outward(Renewed(row, w)) = Outward(row)
         /\ Owns(row, w) => /\ Outward(row) = "running"
                            /\ Outward(Completed(row, w)) = "completed"
                            /\ Outward(Failed(row, w, "execution_error")) = "failed"
                            /\ Outward(Failed(row, w, "cancelled")) = "cancelled"
         /\ ~Owns(row, w) => /\ Completed(row, w) = row
                             /\ Failed(row, w, "execution_error") = row
                             /\ Failed(row, w, "cancelled") = row
         /\ Outward(CancelRequested(row)) =
              IF Outward(row) = "queued" THEN "cancelled" ELSE Outward(row)
  BY DEF Row, JobRow, Outward, AbsentRow, QueuedRow, Claimable, ClaimedBy, Lapsed, Renewed,
         Owns, Completed, Failed, CancelRequested

\* A step that writes r over the row of j and asks for no cancellation is a step
\* of the life cycle if it leaves what the operator sees of j alone, starts the
\* job, or ends it.
LEMMA RowMaps ==
  ASSUME TypeOK, NEW j \in Jobs, NEW r, job' = [job EXCEPT ![j] = r],
         cancelled' = cancelled,
         \/ Outward(r) = Outward(job[j])
         \/ Outward(job[j]) = "absent" /\ Outward(r) = "queued"
         \/ Outward(job[j]) = "queued" /\ Outward(r) = "running"
         \/ /\ Outward(job[j]) = "running"
            /\ Outward(r) \in {"completed", "failed", "cancelled"}
            /\ Outward(r) = "cancelled" => j \in cancelled
  PROVE  [Lifecycle!Next]_(Lifecycle!vars)
  <1>1. LifecycleState' = [LifecycleState EXCEPT ![j] = Outward(r)]
    BY DEF TypeOK, LifecycleState
  <1>2. LifecycleState[j] = Outward(job[j])
    BY DEF LifecycleState
  <1>3. CASE Outward(r) = Outward(job[j])
    BY <1>1, <1>2, <1>3 DEF LifecycleState, Lifecycle!vars
  <1>4. CASE Outward(job[j]) = "absent" /\ Outward(r) = "queued"
    BY <1>1, <1>2, <1>4 DEF Lifecycle!Submit, Lifecycle!Next
  <1>5. CASE Outward(job[j]) = "queued" /\ Outward(r) = "running"
    BY <1>1, <1>2, <1>5 DEF Lifecycle!Start, Lifecycle!Next
  <1>6. CASE /\ Outward(job[j]) = "running"
             /\ Outward(r) \in {"completed", "failed", "cancelled"}
             /\ Outward(r) = "cancelled" => j \in cancelled
    BY <1>1, <1>2, <1>6 DEF Lifecycle!End, Lifecycle!Next
  <1> QED
    BY <1>3, <1>4, <1>5, <1>6

LEMMA LifecycleInit == Init => Lifecycle!Init
  BY DEF Init, Lifecycle!Init, LifecycleState, Outward, AbsentRow

LEMMA LifecycleStep ==
  ASSUME TypeOK, OffsetInv, CancelInv, [Next]_vars
  PROVE  [Lifecycle!Next]_(Lifecycle!vars)
  <1> USE DEF TypeOK
  <1>1. ASSUME UNCHANGED <<job, cancelled>> PROVE [Lifecycle!Next]_(Lifecycle!vars)
    BY <1>1 DEF LifecycleState, Lifecycle!vars
  <1>2. ASSUME NEW j \in Jobs, Enqueue(j) PROVE [Lifecycle!Next]_(Lifecycle!vars)
    <2>1. job[j] \in Row
      BY DEF Row
    <2> QED
      BY <1>2, <2>1, RowMaps, OutwardRow DEF Enqueue
  <1>3. ASSUME NEW j \in Jobs, RequestCancel(j) PROVE [Lifecycle!Next]_(Lifecycle!vars)
    <2>1. /\ job[j] \in Row
          /\ job' = [job EXCEPT ![j] = CancelRequested(job[j])]
          /\ cancelled' = cancelled \cup {j}
      BY <1>3 DEF Row, RequestCancel
    <2>2. Outward(CancelRequested(job[j])) =
            IF Outward(job[j]) = "queued" THEN "cancelled" ELSE Outward(job[j])
      BY <2>1, OutwardRow
    <2>3. LifecycleState' = [LifecycleState EXCEPT ![j] = Outward(CancelRequested(job[j]))]
      BY <2>1 DEF LifecycleState
    <2>4. LifecycleState[j] = Outward(job[j])
      BY DEF LifecycleState
    <2> QED
      BY <2>1, <2>2, <2>3, <2>4 DEF Lifecycle!AskCancel, Lifecycle!Next
  <1>4. ASSUME NEW j \in Jobs, LeaseLapses(j) \/ LeaseStalls(j)
        PROVE  [Lifecycle!Next]_(Lifecycle!vars)
    <2>1. /\ job[j].status = "running"
          /\ job' = [job EXCEPT ![j] = Lapsed(job[j])]
          /\ cancelled' = cancelled
          /\ job[j] \in Row
      BY <1>4 DEF LeaseLapses, LeaseStalls, LeaseExpires, Row
    <2> QED
      BY <2>1, RowMaps, OutwardRow
  <1>5. ASSUME NEW w \in Workers, NEW r,
               InHand(w) \in Jobs,
               job' = [job EXCEPT ![InHand(w)] = r],
               cancelled' = cancelled,
               \/ r = Renewed(job[InHand(w)], w)
               \/ Claimable(job[InHand(w)]) /\ r = ClaimedBy(job[InHand(w)], w)
               \/ r = Completed(job[InHand(w)], w)
               \/ r = Failed(job[InHand(w)], w, "execution_error")
               \/ InHand(w) \in cancelled /\ r = Failed(job[InHand(w)], w, "cancelled")
        PROVE  [Lifecycle!Next]_(Lifecycle!vars)
    <2> DEFINE row == job[InHand(w)]
    <2>1. row \in Row
      BY <1>5 DEF Row
    <2>2. \/ Outward(r) = Outward(row)
          \/ Outward(row) = "queued" /\ Outward(r) = "running"
          \/ /\ Outward(row) = "running"
             /\ Outward(r) \in {"completed", "failed", "cancelled"}
             /\ Outward(r) = "cancelled" => InHand(w) \in cancelled
      <3> HIDE DEF row
      <3>1. CASE r = Renewed(row, w)
        BY <2>1, <3>1, OutwardRow
      <3>2. CASE Claimable(row) /\ r = ClaimedBy(row, w)
        BY <2>1, <3>2, OutwardRow
      <3>3. CASE r = Completed(row, w)
        BY <2>1, <3>3, OutwardRow
      <3>4. CASE r = Failed(row, w, "execution_error")
        BY <2>1, <3>4, OutwardRow
      <3>5. CASE InHand(w) \in cancelled /\ r = Failed(row, w, "cancelled")
        BY <2>1, <3>5, OutwardRow
      <3> QED
        BY <1>5, <3>1, <3>2, <3>3, <3>4, <3>5 DEF row
    <2> QED
      BY <1>5, <2>2, RowMaps
  <1>6. ASSUME NEW w \in Workers,
               \/ HeartbeatRenews(w) \/ Claim(w) \/ ClaimAnswerLost(w) \/ MarkCompleted(w)
               \/ MarkFailed(w) \/ MarkCancelled(w)
        PROVE  [Lifecycle!Next]_(Lifecycle!vars)
    <2>1. InHand(w) \in Jobs
      BY <1>6, InHandTyped
         DEF HeartbeatRenews, Claim, ClaimAnswerLost, MarkCompleted, MarkFailed,
             MarkCancelled, Executing, Handling
    <2>2. CASE HeartbeatRenews(w)
      BY <1>5, <2>1, <2>2 DEF HeartbeatRenews
    <2>3. CASE Claim(w) \/ ClaimAnswerLost(w)
      BY <1>1, <1>5, <2>1, <2>3 DEF Claim, ClaimAnswerLost
    <2>4. CASE MarkCompleted(w)
      BY <1>5, <2>1, <2>4 DEF MarkCompleted
    <2>5. CASE MarkFailed(w)
      BY <1>5, <2>1, <2>5 DEF MarkFailed
    <2>6. CASE MarkCancelled(w)
      BY <1>5, <2>1, <2>6 DEF MarkCancelled, CancelInv
    <2> QED
      BY <1>6, <2>2, <2>3, <2>4, <2>5, <2>6
  <1> QED
    BY <1>1, <1>2, <1>3, <1>4, <1>6
       DEF Next, JobStep, GroupStep, HandlerStep, LoopStep, ProcessStep, Deliver, Assign,
           Evict, PollIntervalExceeded, Start, Poll, IsProcessed, CallRaises,
           ExecutionReturns, ExecutionRaises, HeartbeatCancels, MarkProcessed, Seek,
           Commit, LoopDies, Stop, Crash, vars

\* Seen from outside, a job that is started by commands starts once and ends once,
\* and ends as cancelled only on request, however often its command is delivered.
THEOREM ConsumerImplementsLifecycle == Spec => ImplementsLifecycle
  <1>1. TypeOK /\ OffsetInv /\ CancelInv /\ [Next]_vars => CancelInv'
    BY CancelInvStep
  <1>2. TypeOK /\ OffsetInv /\ CancelInv /\ [Next]_vars =>
          [Lifecycle!Next]_(Lifecycle!vars)
    BY LifecycleStep
  <1> QED
    BY OffsetCorrect, CancelInvInit, LifecycleInit, <1>1, <1>2, PTL
       DEF Spec, ImplementsLifecycle, Lifecycle!Spec
=============================================================================
