------------------------- MODULE MigrationJobsProofs -------------------------
(***************************************************************************)
(* Proofs about MigrationJobs, for every set of jobs and workers, every    *)
(* concurrency and every bound.                                            *)
(***************************************************************************)
EXTENDS MigrationJobs, TLAPS

-----------------------------------------------------------------------------
(* The transactions on one row.                                            *)

LEMMA RowTypes ==
  ASSUME NEW row \in JobRow(Workers, 0 .. MaxAttempts), NEW w,
         NEW code \in ErrorCode
  PROVE  /\ Renewed(row, w) \in JobRow(Workers, 0 .. MaxAttempts)
         /\ Completed(row, w) \in JobRow(Workers, 0 .. MaxAttempts)
         /\ Failed(row, w, code) \in JobRow(Workers, 0 .. MaxAttempts)
         /\ CancelRequested(row) \in JobRow(Workers, 0 .. MaxAttempts)
         /\ Lapsed(row) \in JobRow(Workers, 0 .. MaxAttempts)
  <1> USE DEF JobRow, JobStatus, Lease, ErrorCode
  <1>1. Renewed(row, w) \in JobRow(Workers, 0 .. MaxAttempts)
    BY DEF Renewed
  <1>2. Completed(row, w) \in JobRow(Workers, 0 .. MaxAttempts)
    BY DEF Completed
  <1>3. Failed(row, w, code) \in JobRow(Workers, 0 .. MaxAttempts)
    BY DEF Failed
  <1>4. CancelRequested(row) \in JobRow(Workers, 0 .. MaxAttempts)
    BY DEF CancelRequested
  <1>5. Lapsed(row) \in JobRow(Workers, 0 .. MaxAttempts)
    BY DEF Lapsed
  <1> QED
    BY <1>1, <1>2, <1>3, <1>4, <1>5

LEMMA NewRowTypes ==
  /\ AbsentRow \in JobRow(Workers, 0 .. MaxAttempts)
  /\ QueuedRow \in JobRow(Workers, 0 .. MaxAttempts)
  /\ \A row \in JobRow(Workers, 0 .. MaxAttempts), w \in Workers :
        row.attempts < MaxAttempts =>
          /\ ClaimedBy(row, w) \in JobRow(Workers, 0 .. MaxAttempts)
          /\ row.attempts + 1 \in Attempts
  BY BoundsAssumption
     DEF JobRow, JobStatus, Lease, ErrorCode, AbsentRow, QueuedRow, ClaimedBy, Attempts

\* Only a heartbeat, a closing update or a cancellation touches a row that is
\* running and live.
LEMMA RowEffects ==
  ASSUME NEW row \in JobRow(Workers, 0 .. MaxAttempts), NEW w,
         NEW code \in ErrorCode
  PROVE  /\ Terminal(row) => /\ ~Claimable(row)
                             /\ Renewed(row, w) = row
                             /\ Completed(row, w) = row
                             /\ Failed(row, w, code) = row
                             /\ CancelRequested(row) = row
         /\ Renewed(row, w).error = row.error
         /\ Renewed(row, w).status = row.status
         /\ Completed(row, w).error = row.error
         /\ Failed(row, w, code).error \in {row.error, code}
         /\ CancelRequested(row).status \in {row.status, "failed"}
  BY DEF JobRow, JobStatus, Lease, ErrorCode, Renewed, Completed, Failed,
         CancelRequested, Owns, Terminal, Claimable

-----------------------------------------------------------------------------
(* Type correctness.                                                       *)

LEMMA JobOfExecution == \A e \in Executions : JobOf(e) \in Jobs /\ e[2] \in Attempts
  BY DEF JobOf, Executions

LEMMA TypeInit == Init => TypeOK
  <1> SUFFICES ASSUME Init PROVE TypeOK
    OBVIOUS
  <1>1. AbsentRow \in JobRow(Workers, 0 .. MaxAttempts)
    BY NewRowTypes
  <1>2. NoExecution \in Execution
    BY DEF NoExecution, Execution, Phase, Beat
  <1> QED
    BY <1>1, <1>2, BoundsAssumption DEF Init, TypeOK, ProcessState

\* Closing, starting or moving an execution keeps the table of executions typed.
LEMMA SetRunTyped ==
  ASSUME TypeOK, NEW e \in Executions,
         NEW phase \in Phase, NEW beat \in Beat, SetRun(e, phase, beat)
  PROVE  run' \in [Executions -> Execution]
  BY DEF TypeOK, SetRun, Execution

LEMMA SetRunEffect ==
  ASSUME TypeOK, NEW e \in Executions, NEW phase, NEW beat, SetRun(e, phase, beat)
  PROVE  /\ run'[e].phase = phase
         /\ run'[e].beat = beat
         /\ run'[e].worker = run[e].worker
         /\ \A d \in Executions \ {e} : run'[d] = run[d]
  BY DEF TypeOK, SetRun, Execution

LEMMA EndedTyped ==
  ASSUME TypeOK, NEW w \in Workers
  PROVE  Ended(w) \in [Executions -> Execution]
  BY DEF TypeOK, Ended, Execution, Phase, Beat

LEMMA EndedEffect ==
  ASSUME TypeOK, NEW w \in Workers, NEW e \in Executions, run' = Ended(w)
  PROVE  /\ run'[e].worker = run[e].worker
         /\ e \in OpenOn(w) => run'[e].phase = "closed" /\ run'[e].beat = "off"
         /\ e \notin OpenOn(w) => run'[e] = run[e]
  <1>1. run[e] \in Execution
    BY DEF TypeOK
  <1>2. /\ [run[e] EXCEPT !.phase = "closed", !.beat = "off"].phase = "closed"
        /\ [run[e] EXCEPT !.phase = "closed", !.beat = "off"].beat = "off"
        /\ [run[e] EXCEPT !.phase = "closed", !.beat = "off"].worker = run[e].worker
    BY <1>1 DEF Execution
  <1>3. run'[e] = IF e \in OpenOn(w) THEN [run[e] EXCEPT !.phase = "closed", !.beat = "off"]
                                    ELSE run[e]
    BY DEF Ended
  <1> QED
    BY <1>2, <1>3

LEMMA TypeStep == TypeOK /\ [Next]_vars => TypeOK'
  <1> SUFFICES ASSUME TypeOK, [Next]_vars PROVE TypeOK'
    OBVIOUS
  <1> USE DEF TypeOK
  <1>1. ASSUME NEW j \in Jobs, Enqueue(j) PROVE TypeOK'
    BY <1>1, NewRowTypes DEF Enqueue
  <1>2. ASSUME NEW j \in Jobs, ListForCancel(j) \/ RequestCancel(j) PROVE TypeOK'
    <2>1. CancelRequested(job[j]) \in JobRow(Workers, 0 .. MaxAttempts)
      BY RowTypes DEF ErrorCode
    <2> QED
      BY <1>2, <2>1 DEF ListForCancel, RequestCancel
  <1>3. ASSUME NEW w \in Workers,
               StartWorker(w) \/ PollingDies(w) \/ RequestStop(w)
        PROVE  TypeOK'
    <2>1. job' \in [Jobs -> JobRow(Workers, 0 .. MaxAttempts)]
      <3>1. ASSUME NEW j \in Jobs, TakeOldest(w, j)
            PROVE  job' \in [Jobs -> JobRow(Workers, 0 .. MaxAttempts)]
        BY <3>1, NewRowTypes DEF TakeOldest
      <3> QED
        BY <1>3, <3>1 DEF StartWorker, PollingDies, RequestStop
    <2> QED
      BY <1>3, <2>1, BoundsAssumption
         DEF StartWorker, PollingDies, RequestStop, Fault, ProcessState
  <1>4. ASSUME NEW w \in Workers, NEW j \in Jobs, AcquireNext(w, j) PROVE TypeOK'
    <2> DEFINE started == [worker |-> w, phase |-> "executing", beat |-> "sleep"]
    <2>1. started \in Execution
      BY DEF Execution, Phase, Beat
    <2>2. /\ <<j, job[j].attempts + 1>> \in Executions
          /\ ClaimedBy(job[j], w) \in JobRow(Workers, 0 .. MaxAttempts)
      BY <1>4, NewRowTypes DEF AcquireNext, TakeOldest, Executions
    <2> QED
      BY <1>4, <2>1, <2>2 DEF AcquireNext, TakeOldest
  <1>5. ASSUME NEW w \in Workers, StopEnds(w) \/ Crash(w) PROVE TypeOK'
    BY <1>5, EndedTyped, BoundsAssumption DEF StopEnds, Crash, Fault, ProcessState
  <1>6. ASSUME NEW j \in Jobs, LeaseLapses(j) \/ LeaseStalls(j) PROVE TypeOK'
    <2>1. Lapsed(job[j]) \in JobRow(Workers, 0 .. MaxAttempts)
      BY RowTypes DEF ErrorCode
    <2> QED
      BY <1>6, <2>1, BoundsAssumption DEF LeaseLapses, LeaseStalls, LeaseExpires, Fault
  <1>7. ASSUME NEW e \in Executions,
               \/ ExecutionReturns(e)
               \/ ExecutionRaises(e)
               \/ BeatReads(e)
               \/ BeatSeesCancel(e)
               \/ BeatStops(e)
               \/ BeatDies(e)
               \/ CloseDies(e)
        PROVE  TypeOK'
    <2>1. /\ run[e].phase \in Phase
          /\ run[e].beat \in Beat
      BY DEF Execution
    <2>2. \E phase \in Phase, beat \in Beat : SetRun(e, phase, beat)
      BY <1>7, <2>1 DEF ExecutionReturns, ExecutionRaises, BeatReads, BeatSeesCancel,
            BeatStops, BeatDies, CloseDies, Phase, Beat
    <2>3. run' \in [Executions -> Execution]
      BY <2>2, SetRunTyped
    <2>4. missed' \subseteq Jobs
      BY <1>7, JobOfExecution
         DEF ExecutionReturns, ExecutionRaises, BeatReads, BeatSeesCancel, BeatStops,
             BeatDies, CloseDies
    <2> QED
      BY <1>7, <2>3, <2>4, BoundsAssumption
         DEF ExecutionReturns, ExecutionRaises, BeatReads, BeatSeesCancel, BeatStops,
             BeatDies, CloseDies, Fault
  <1>8. ASSUME NEW e \in Executions,
               \/ MarkCompleted(e)
               \/ MarkFailed(e)
               \/ MarkCancelled(e)
               \/ BeatWrites(e)
        PROVE  TypeOK'
    <2>1. run[e].phase \in Phase
      BY DEF Execution
    <2>2. \E phase \in Phase, beat \in Beat : SetRun(e, phase, beat)
      BY <1>8, <2>1 DEF MarkCompleted, MarkFailed, MarkCancelled, BeatWrites, Phase, Beat
    <2>3. run' \in [Executions -> Execution]
      BY <2>2, SetRunTyped
    <2>4. job' \in [Jobs -> JobRow(Workers, 0 .. MaxAttempts)]
      <3>1. JobOf(e) \in Jobs
        BY DEF JobOf, Executions
      <3>2. \A code \in ErrorCode :
              /\ Renewed(job[JobOf(e)], run[e].worker) \in JobRow(Workers, 0 .. MaxAttempts)
              /\ Completed(job[JobOf(e)], run[e].worker) \in JobRow(Workers, 0 .. MaxAttempts)
              /\ Failed(job[JobOf(e)], run[e].worker, code) \in JobRow(Workers, 0 .. MaxAttempts)
        BY <3>1, RowTypes
      <3> QED
        BY <1>8, <3>1, <3>2
           DEF MarkCompleted, MarkFailed, MarkCancelled, BeatWrites, ErrorCode
    <2> QED
      BY <1>8, <2>3, <2>4 DEF MarkCompleted, MarkFailed, MarkCancelled, BeatWrites
  <1>9. CASE UNCHANGED vars
    BY <1>9 DEF vars
  <1> QED
    BY <1>1, <1>2, <1>3, <1>4, <1>5, <1>6, <1>7, <1>8, <1>9
       DEF Next, BotStep, ProcessStep, LeaseStep, ExecutionStep

\* The table, the executions and the processes keep their types.
THEOREM TypeCorrect == Spec => []TypeOK
  BY TypeInit, TypeStep, PTL DEF Spec

-----------------------------------------------------------------------------
(* What a step may do to one row and to one execution.                     *)

\* The row of j before and after a step.
RowStep(j) ==
  \/ job'[j] = job[j]
  \/ job[j].status = "absent" /\ job'[j] = QueuedRow
  \/ job'[j] = CancelRequested(job[j]) /\ j \in cancelled'
  \/ \E w \in Workers : Claimable(job[j]) /\ job'[j] = ClaimedBy(job[j], w)
  \/ job[j].status = "running" /\ job'[j] = Lapsed(job[j])
  \/ \E e \in Executions :
        /\ JobOf(e) = j
        /\ \/ job'[j] = Renewed(job[j], run[e].worker)
           \/ /\ Open(e) /\ ~Open(e)'
              /\ \/ job'[j] = Completed(job[j], run[e].worker)
                 \/ job'[j] = Failed(job[j], run[e].worker, "execution_error")
                 \/ /\ run[e].phase = "cancelling"
                    /\ job'[j] = Failed(job[j], run[e].worker, "cancelled")

LEMMA EveryRowStep ==
  ASSUME TypeOK, [Next]_vars, NEW j \in Jobs
  PROVE  RowStep(j)
  <1> USE DEF TypeOK, RowStep
  <1>1. ASSUME NEW i \in Jobs, Enqueue(i) PROVE RowStep(j)
    BY <1>1 DEF Enqueue
  <1>2. ASSUME NEW i \in Jobs, ListForCancel(i) \/ RequestCancel(i) PROVE RowStep(j)
    BY <1>2 DEF ListForCancel, RequestCancel
  <1>3. ASSUME NEW w \in Workers,
               StartWorker(w) \/ RequestStop(w) \/ StopEnds(w) \/ Crash(w)
        PROVE  RowStep(j)
    BY <1>3 DEF StartWorker, RequestStop, StopEnds, Crash
  <1>4. ASSUME NEW w \in Workers, PollingDies(w) \/ \E i \in Jobs : AcquireNext(w, i)
        PROVE  RowStep(j)
    <2>1. UNCHANGED job \/ \E i \in Jobs : TakeOldest(w, i)
      BY <1>4 DEF PollingDies, AcquireNext
    <2> QED
      BY <2>1 DEF TakeOldest
  <1>5. ASSUME NEW i \in Jobs, LeaseLapses(i) \/ LeaseStalls(i) PROVE RowStep(j)
    BY <1>5 DEF LeaseLapses, LeaseStalls, LeaseExpires
  <1>6. ASSUME NEW e \in Executions,
               \/ ExecutionReturns(e) \/ ExecutionRaises(e) \/ CloseDies(e)
               \/ BeatReads(e) \/ BeatSeesCancel(e) \/ BeatStops(e) \/ BeatDies(e)
        PROVE  RowStep(j)
    BY <1>6 DEF ExecutionReturns, ExecutionRaises, CloseDies, BeatReads, BeatSeesCancel,
                BeatStops, BeatDies
  <1>7. ASSUME NEW e \in Executions, BeatWrites(e) PROVE RowStep(j)
    BY <1>7, JobOfExecution DEF BeatWrites
  <1>8. ASSUME NEW e \in Executions, MarkCompleted(e) \/ MarkFailed(e) \/ MarkCancelled(e)
        PROVE  RowStep(j)
    <2>0. SetRun(e, "closed", "off")
      BY <1>8 DEF MarkCompleted, MarkFailed, MarkCancelled
    <2>1. Open(e) /\ ~Open(e)'
      BY <1>8, <2>0, SetRunEffect DEF MarkCompleted, MarkFailed, MarkCancelled, Open
    <2>2. CASE JobOf(e) # j
      BY <1>8, <2>2, JobOfExecution DEF MarkCompleted, MarkFailed, MarkCancelled
    <2>3. CASE JobOf(e) = j
      <3>1. \/ job'[j] = Completed(job[j], run[e].worker)
            \/ job'[j] = Failed(job[j], run[e].worker, "execution_error")
            \/ /\ run[e].phase = "cancelling"
               /\ job'[j] = Failed(job[j], run[e].worker, "cancelled")
        BY <1>8, <2>3 DEF MarkCompleted, MarkFailed, MarkCancelled
      <3> QED
        BY <2>1, <2>3, <3>1
    <2> QED
      BY <2>2, <2>3
  <1>9. CASE UNCHANGED vars
    BY <1>9 DEF vars
  <1> QED
    BY <1>1, <1>2, <1>3, <1>4, <1>5, <1>6, <1>7, <1>8, <1>9
       DEF Next, BotStep, ProcessStep, LeaseStep, ExecutionStep

-----------------------------------------------------------------------------
(* A closed job stays closed, and a cancellation request stays on its row. *)

LEMMA TerminalStep ==
  TypeOK /\ [Next]_vars => \A j \in Jobs : Terminal(job[j]) => job'[j] = job[j]
  <1> SUFFICES ASSUME TypeOK, [Next]_vars, NEW j \in Jobs, Terminal(job[j])
               PROVE  job'[j] = job[j]
    OBVIOUS
  <1>1. RowStep(j)
    BY EveryRowStep
  <1>2. job[j] \in JobRow(Workers, 0 .. MaxAttempts)
    BY DEF TypeOK
  <1>3. \A w : /\ Renewed(job[j], w) = job[j]
              /\ Completed(job[j], w) = job[j]
              /\ Failed(job[j], w, "execution_error") = job[j]
              /\ Failed(job[j], w, "cancelled") = job[j]
    BY <1>2, RowEffects DEF ErrorCode
  <1>4. CancelRequested(job[j]) = job[j] /\ ~Claimable(job[j])
    BY <1>2, RowEffects DEF ErrorCode
  <1>5. job[j].status \notin {"absent", "running"}
    BY DEF Terminal
  <1> QED
    BY <1>1, <1>3, <1>4, <1>5 DEF RowStep

\* No interleaving of claims, late executors, heartbeats and cancellations
\* rewrites the row of a job that has ended.
THEOREM TerminalJobsAreFinal == Spec => TerminalIsFinal
  BY TypeCorrect, TerminalStep, PTL DEF Spec, TerminalIsFinal

LEMMA CancelRequestStep ==
  TypeOK /\ [Next]_vars =>
    \A j \in Jobs :
       job[j].status = "running" /\ job[j].error = "cancel_requested" =>
         job'[j].error = "cancel_requested" \/ Terminal(job'[j])
  <1> SUFFICES ASSUME TypeOK, [Next]_vars, NEW j \in Jobs,
                      job[j].status = "running", job[j].error = "cancel_requested"
               PROVE  job'[j].error = "cancel_requested" \/ Terminal(job'[j])
    OBVIOUS
  <1>1. RowStep(j)
    BY EveryRowStep
  <1>2. job[j] \in JobRow(Workers, 0 .. MaxAttempts)
    BY DEF TypeOK
  <1> QED
    BY <1>1, <1>2
       DEF RowStep, CancelRequested, Claimable, Lapsed, Renewed, Completed, Failed, Owns,
           Terminal, JobRow, QueuedRow, AbsentRow

\* The flag is never lost to a takeover.
THEOREM CancelRequestsSurvive == Spec => CancelRequestSurvives
  BY TypeCorrect, CancelRequestStep, PTL DEF Spec, CancelRequestSurvives

-----------------------------------------------------------------------------
(* Cancellations are asked for.                                            *)

\* The strengthening: an execution that is being cancelled read the flag.
CancelInv ==
  /\ NoCancelWithoutRequest
  /\ \A e \in Executions : run[e].phase = "cancelling" => JobOf(e) \in cancelled

LEMMA CancelInvInit == Init => CancelInv
  BY DEF Init, CancelInv, NoCancelWithoutRequest, AbsentRow, NoExecution

\* Only a heartbeat that read the flag starts cancelling an execution.
LEMMA CancellingBegins ==
  ASSUME TypeOK, [Next]_vars, NEW e \in Executions,
         run[e].phase # "cancelling", run'[e].phase = "cancelling"
  PROVE  BeatSeesCancel(e)
  <1> USE DEF TypeOK
  <1>1. ASSUME NEW w \in Workers, NEW j \in Jobs, AcquireNext(w, j) PROVE FALSE
    BY <1>1 DEF AcquireNext
  <1>2. ASSUME NEW w \in Workers, StopEnds(w) \/ Crash(w) PROVE FALSE
    BY <1>2, EndedEffect DEF StopEnds, Crash
  <1>3. ASSUME NEW d \in Executions,
               \/ ExecutionReturns(d) \/ ExecutionRaises(d) \/ MarkCompleted(d)
               \/ MarkFailed(d) \/ MarkCancelled(d) \/ CloseDies(d) \/ BeatReads(d)
               \/ BeatWrites(d) \/ BeatStops(d) \/ BeatDies(d)
        PROVE  FALSE
    <2>1. \E phase \in {"returned", "raised", "closed", run[d].phase}, beat \in Beat :
             SetRun(d, phase, beat)
      BY <1>3 DEF ExecutionReturns, ExecutionRaises, MarkCompleted, MarkFailed,
           MarkCancelled, CloseDies, BeatReads, BeatWrites, BeatStops, BeatDies, Beat,
           Execution
    <2> QED
      BY <2>1, SetRunEffect
  <1>4. ASSUME NEW d \in Executions, BeatSeesCancel(d), d # e PROVE FALSE
    <2>1. \E phase \in Phase, beat \in Beat : SetRun(d, phase, beat)
      BY <1>4 DEF BeatSeesCancel, Phase, Beat
    <2> QED
      BY <1>4, <2>1, SetRunEffect
  <1>5. run' # run
    OBVIOUS
  <1> QED
    BY <1>1, <1>2, <1>3, <1>4, <1>5
       DEF Next, BotStep, ProcessStep, LeaseStep, ExecutionStep, vars,
           Enqueue, ListForCancel, RequestCancel, StartWorker, PollingDies,
           RequestStop, LeaseLapses, LeaseStalls

LEMMA CancelledGrows == [Next]_vars => cancelled \subseteq cancelled'
  BY DEF Next, BotStep, ProcessStep, LeaseStep, ExecutionStep, vars,
         Enqueue, ListForCancel, RequestCancel, StartWorker, AcquireNext, PollingDies,
         RequestStop, StopEnds, Crash, LeaseLapses, LeaseStalls, ExecutionReturns,
         ExecutionRaises, MarkCompleted, MarkFailed, MarkCancelled, CloseDies,
         BeatReads, BeatSeesCancel, BeatWrites, BeatStops, BeatDies

LEMMA CancelInvStep == TypeOK /\ CancelInv /\ [Next]_vars => CancelInv'
  <1> SUFFICES ASSUME TypeOK, CancelInv, [Next]_vars PROVE CancelInv'
    OBVIOUS
  <1>1. cancelled \subseteq cancelled'
    BY CancelledGrows
  <1>2. NoCancelWithoutRequest'
    <2> SUFFICES ASSUME NEW j \in Jobs,
                        job'[j].error \in {"cancel_requested", "cancelled"}
                 PROVE  j \in cancelled'
      BY DEF NoCancelWithoutRequest
    <2>1. job[j] \in JobRow(Workers, 0 .. MaxAttempts)
      BY DEF TypeOK
    <2>2. CASE job[j].error \in {"cancel_requested", "cancelled"}
      BY <1>1, <2>2 DEF CancelInv, NoCancelWithoutRequest
    <2>3. CASE job[j].error \notin {"cancel_requested", "cancelled"}
      <3>1. RowStep(j)
        BY EveryRowStep
      <3>2. \A w : /\ Renewed(job[j], w).error = job[j].error
                   /\ Completed(job[j], w).error = job[j].error
                   /\ Failed(job[j], w, "execution_error").error
                        \in {job[j].error, "execution_error"}
        BY <2>1, RowEffects DEF ErrorCode
      <3>3. /\ QueuedRow.error = "none"
            /\ Lapsed(job[j]).error = job[j].error
            /\ \A w \in Workers : ClaimedBy(job[j], w).error = "none"
        BY <2>1 DEF QueuedRow, AbsentRow, Lapsed, ClaimedBy, JobRow
      <3>4. ASSUME NEW e \in Executions, JobOf(e) = j, run[e].phase = "cancelling"
            PROVE  j \in cancelled'
        BY <1>1, <3>4 DEF CancelInv
      <3> QED
        BY <2>3, <3>1, <3>2, <3>3, <3>4 DEF RowStep
    <2> QED
      BY <2>2, <2>3
  <1>3. ASSUME NEW e \in Executions, run'[e].phase = "cancelling"
        PROVE  JobOf(e) \in cancelled'
    <2>1. CASE run[e].phase = "cancelling"
      BY <1>1, <2>1 DEF CancelInv
    <2>2. CASE run[e].phase # "cancelling"
      <3>1. BeatSeesCancel(e)
        BY <1>3, <2>2, CancellingBegins
      <3> QED
        BY <1>1, <3>1, JobOfExecution DEF BeatSeesCancel, CancelInv, NoCancelWithoutRequest
    <2> QED
      BY <2>1, <2>2
  <1> QED
    BY <1>2, <1>3 DEF CancelInv

\* A row says cancelled only of a job whose cancellation the operator asked for.
THEOREM CancellationsWereRequested == Spec => []NoCancelWithoutRequest
  <1>1. CancelInv => NoCancelWithoutRequest
    BY DEF CancelInv
  <1> QED
    BY TypeCorrect, CancelInvInit, CancelInvStep, <1>1, PTL DEF Spec

-----------------------------------------------------------------------------
(* One execution per job of which no heartbeat was lost.                   *)

\* The strengthening: an open execution of a job of which no heartbeat was lost is
\* the job's last claim, and the row is running, held by its worker and live.
LeaseInv ==
  \A e \in Executions :
     Open(e) /\ JobOf(e) \notin missed =>
       /\ e[2] = job[JobOf(e)].attempts
       /\ job[JobOf(e)].status = "running"
       /\ job[JobOf(e)].worker = run[e].worker
       /\ job[JobOf(e)].lease = "live"
       /\ run[e].beat # "dead"

LEMMA LeaseInvInit == Init => LeaseInv
  BY DEF Init, LeaseInv, Open, NoExecution

LEMMA LeaseInvUnique == LeaseInv => OneExecutionPerJob
  BY DEF LeaseInv, OneExecutionPerJob, Executions, JobOf

\* A row that is running keeps what LeaseInv says of it under every transaction
\* but a claim, a closing update of its owner and the clock.
LEMMA RunningRow ==
  ASSUME NEW row \in JobRow(Workers, 0 .. MaxAttempts), row.status = "running", NEW w
  PROVE  /\ \A r \in {CancelRequested(row), Renewed(row, w)} :
              /\ r.status = "running"
              /\ r.worker = row.worker
              /\ r.attempts = row.attempts
              /\ row.lease = "live" => r.lease = "live"
         /\ row.lease = "live" => ~Claimable(row)
  BY DEF JobRow, CancelRequested, Renewed, Owns, Claimable

LEMMA MissedGrows == [Next]_vars => missed \subseteq missed'
  BY DEF Next, BotStep, ProcessStep, LeaseStep, ExecutionStep, Enqueue, ListForCancel,
     RequestCancel, StartWorker, AcquireNext, PollingDies, RequestStop, StopEnds, Crash,
     LeaseLapses, LeaseStalls, ExecutionReturns, ExecutionRaises, MarkCompleted, MarkFailed,
     MarkCancelled, CloseDies, BeatReads, BeatSeesCancel, BeatWrites, BeatStops, BeatDies,
     vars

LEMMA LeaseInvStep ==
  ASSUME TypeOK, LeaseInv, [Next]_vars
  PROVE  LeaseInv'
  <1> DEFINE Held(e) == /\ e[2] = job[JobOf(e)].attempts
                        /\ job[JobOf(e)].status = "running"
                        /\ job[JobOf(e)].worker = run[e].worker
                        /\ job[JobOf(e)].lease = "live"
                        /\ run[e].beat # "dead"
  <1> SUFFICES ASSUME NEW e \in Executions, Open(e)', JobOf(e) \notin missed' PROVE Held(e)'
    BY DEF LeaseInv
  <1>0. /\ JobOf(e) \in Jobs
        /\ job[JobOf(e)] \in JobRow(Workers, 0 .. MaxAttempts)
        /\ JobOf(e) \notin missed
        /\ Open(e) => Held(e)
    BY JobOfExecution, MissedGrows DEF TypeOK, LeaseInv
  <1> USE <1>0
  <1>1. ASSUME NEW i \in Jobs, Enqueue(i) \/ ListForCancel(i) \/ RequestCancel(i)
        PROVE  Held(e)'
    <2>1. Open(e) /\ Held(e) /\ run'[e] = run[e]
      BY <1>1 DEF Open, Enqueue, ListForCancel, RequestCancel
    <2>2. \/ job'[JobOf(e)] = job[JobOf(e)]
          \/ job'[JobOf(e)] = CancelRequested(job[JobOf(e)])
      BY <1>1, <2>1 DEF Enqueue, ListForCancel, RequestCancel, TypeOK
    <2> QED
      BY <2>1, <2>2, RunningRow
  <1>2. ASSUME NEW w \in Workers, StartWorker(w) \/ PollingDies(w) \/ RequestStop(w)
        PROVE  Held(e)'
    <2>1. Open(e) /\ Held(e) /\ run'[e] = run[e]
      BY <1>2 DEF StartWorker, PollingDies, RequestStop, Open
    <2>2. ~Claimable(job[JobOf(e)])
      BY <2>1, RunningRow
    <2>3. job'[JobOf(e)] = job[JobOf(e)]
      BY <1>2, <2>2 DEF StartWorker, PollingDies, RequestStop, TakeOldest, TypeOK
    <2> QED
      BY <2>1, <2>3
  <1>3. ASSUME NEW w \in Workers, NEW i \in Jobs, AcquireNext(w, i) PROVE Held(e)'
    <2> DEFINE new == <<i, job[i].attempts + 1>>
    <2>1. new \in Executions /\ JobOf(new) = i /\ new[2] = job[i].attempts + 1
      BY <1>3, NewRowTypes DEF AcquireNext, TakeOldest, Executions, JobOf, TypeOK
    <2>2. CASE e = new
      BY <1>3, <2>1, <2>2 DEF AcquireNext, TakeOldest, TypeOK, ClaimedBy
    <2>3. CASE e # new
      <3>1. run'[e] = run[e] /\ Open(e)
        BY <1>3, <2>1, <2>3 DEF AcquireNext, TakeOldest, TypeOK, Open
      <3>2. JobOf(e) # i
        BY <1>3, <3>1, RunningRow DEF AcquireNext, TakeOldest
      <3> QED
        BY <1>3, <3>1, <3>2 DEF AcquireNext, TakeOldest, TypeOK
    <2> QED
      BY <2>2, <2>3
  <1>4. ASSUME NEW w \in Workers, StopEnds(w) \/ Crash(w) PROVE Held(e)'
    <2>1. run'[e] = run[e] /\ Open(e)
      BY <1>4, EndedEffect DEF StopEnds, Crash, Open
    <2> QED
      BY <1>4, <2>1 DEF StopEnds, Crash
  <1>5. ASSUME NEW i \in Jobs, LeaseLapses(i) \/ LeaseStalls(i) PROVE Held(e)'
    <2>1. Open(e) /\ run'[e] = run[e]
      BY <1>5 DEF LeaseLapses, LeaseStalls, Open
    <2>2. JobOf(e) # i
      BY <1>5, <2>1 DEF LeaseLapses, LeaseStalls, Attended
    <2> QED
      BY <1>5, <2>1, <2>2 DEF LeaseLapses, LeaseStalls, LeaseExpires, TypeOK
  <1>6. ASSUME NEW d \in Executions,
               \/ ExecutionReturns(d) \/ ExecutionRaises(d) \/ BeatReads(d)
               \/ BeatSeesCancel(d) \/ BeatStops(d)
        PROVE  Held(e)'
    <2>1. PICK phase, beat : SetRun(d, phase, beat) /\ (d = e => beat # "dead")
      BY <1>6 DEF ExecutionReturns, ExecutionRaises, BeatReads, BeatSeesCancel, BeatStops,
            Open
    <2>2. Open(e) /\ run'[e].beat # "dead" /\ run'[e].worker = run[e].worker
      BY <1>6, <2>1, SetRunEffect
         DEF ExecutionReturns, ExecutionRaises, BeatReads, BeatSeesCancel, BeatStops, Open
    <2> QED
      BY <1>6, <2>2
         DEF ExecutionReturns, ExecutionRaises, BeatReads, BeatSeesCancel, BeatStops
  <1>7. ASSUME NEW d \in Executions, MarkCompleted(d) \/ MarkFailed(d) \/ MarkCancelled(d)
        PROVE  Held(e)'
    <2>1. SetRun(d, "closed", "off") /\ Open(d)
      BY <1>7 DEF MarkCompleted, MarkFailed, MarkCancelled, Open
    <2>2. d # e /\ run'[e] = run[e] /\ Open(e)
      BY <2>1, SetRunEffect DEF Open
    <2>3. JobOf(d) # JobOf(e)
      BY <2>1, <2>2, LeaseInvUnique DEF OneExecutionPerJob
    <2> QED
      BY <1>7, <2>2, <2>3, JobOfExecution
         DEF MarkCompleted, MarkFailed, MarkCancelled, TypeOK
  <1>8. ASSUME NEW d \in Executions, CloseDies(d) \/ BeatDies(d) PROVE Held(e)'
    <2>1. PICK phase, beat : SetRun(d, phase, beat)
      BY <1>8 DEF CloseDies, BeatDies
    <2>2. d # e
      BY <1>8, SetRunEffect DEF CloseDies, BeatDies, Open
    <2>3. run'[e] = run[e] /\ Open(e)
      BY <2>1, <2>2, SetRunEffect DEF Open
    <2> QED
      BY <1>8, <2>3 DEF CloseDies, BeatDies
  <1>9. ASSUME NEW d \in Executions, BeatWrites(d) PROVE Held(e)'
    <2>1. PICK beat : SetRun(d, run[d].phase, beat) /\ (Owns(job[JobOf(d)], run[d].worker) => beat # "dead")
      BY <1>9 DEF BeatWrites
    <2>2. Open(e) /\ run'[e].worker = run[e].worker
      BY <2>1, SetRunEffect DEF Open
    <2>3. run'[e].beat # "dead"
      BY <2>1, <2>2, SetRunEffect DEF Owns
    <2>4. JobOf(d) \in Jobs
      BY JobOfExecution
    <2>5. \/ job'[JobOf(e)] = job[JobOf(e)]
          \/ job'[JobOf(e)] = Renewed(job[JobOf(e)], run[d].worker)
      BY <1>9, <2>4 DEF BeatWrites, TypeOK
    <2> QED
      BY <2>2, <2>3, <2>5, RunningRow
  <1>10. CASE UNCHANGED vars
    BY <1>10 DEF vars, Open
  <1> QED
    BY <1>1, <1>2, <1>3, <1>4, <1>5, <1>6, <1>7, <1>8, <1>9, <1>10
       DEF Next, BotStep, ProcessStep, LeaseStep, ExecutionStep

\* No two workers, and no two tasks of one worker, execute the same job at the
\* same time, unless a heartbeat of that job was lost.
THEOREM LeaseIsExclusive == Spec => []OneExecutionPerJob
  <1>1. TypeOK /\ LeaseInv /\ [Next]_vars => LeaseInv'
    BY LeaseInvStep
  <1> QED
    BY TypeCorrect, LeaseInvInit, <1>1, LeaseInvUnique, PTL DEF Spec

-----------------------------------------------------------------------------
(* The lease token.                                                        *)

\* A row is closed by an execution of the process that holds it, and that execution
\* is the last claim of the job unless a heartbeat of the job was lost.
LEMMA CloseStep ==
  ASSUME TypeOK, LeaseInv, [Next]_vars, NEW j \in Jobs,
         job[j].status = "running", Terminal(job'[j])
  PROVE  \E e \in Executions :
            /\ JobOf(e) = j
            /\ Open(e) /\ ~Open(e)'
            /\ e = LatestClaim(j) \/ (j \in missed /\ run[e].worker = job[j].worker)
  <1>1. job[j] \in JobRow(Workers, 0 .. MaxAttempts)
    BY DEF TypeOK
  <1>2. PICK e \in Executions :
           /\ JobOf(e) = j
           /\ Open(e) /\ ~Open(e)'
           /\ Owns(job[j], run[e].worker)
    <2>1. RowStep(j)
      BY EveryRowStep
    <2>2. \A w : /\ Renewed(job[j], w).status = "running"
                 /\ ~Owns(job[j], w) => /\ Completed(job[j], w) = job[j]
                                        /\ Failed(job[j], w, "execution_error") = job[j]
                                        /\ Failed(job[j], w, "cancelled") = job[j]
      BY <1>1 DEF Renewed, Completed, Failed, Owns, JobRow
    <2>3. /\ CancelRequested(job[j]).status = "running"
          /\ Lapsed(job[j]).status = "running"
          /\ \A w : ClaimedBy(job[j], w).status = "running"
      BY <1>1 DEF CancelRequested, Lapsed, ClaimedBy, JobRow
    <2> QED
      BY <2>1, <2>2, <2>3 DEF RowStep, Terminal
  <1>3. CASE j \in missed
    BY <1>2, <1>3 DEF Owns
  <1>4. CASE j \notin missed
    BY <1>2, <1>4 DEF LeaseInv, LatestClaim, Executions, JobOf
  <1> QED
    BY <1>3, <1>4

\* Whatever the number of slots: worker_id keeps the executions of every other process
\* away from a running row, so that what closes the row is an execution of its owner,
\* and the latest one unless a heartbeat was lost.
THEOREM TokenFencesProcesses == Spec => ClosedByOwner
  <1>1. TypeOK /\ LeaseInv /\ [Next]_vars => LeaseInv'
    BY LeaseInvStep
  <1>2. TypeOK /\ LeaseInv /\ [Next]_vars =>
          \A j \in Jobs :
             job[j].status = "running" /\ Terminal(job'[j]) =>
               \E e \in Executions :
                  /\ JobOf(e) = j
                  /\ Open(e) /\ ~Open(e)'
                  /\ \/ e = LatestClaim(j)
                     \/ j \in missed /\ run[e].worker = job[j].worker
    BY CloseStep
  <1> QED
    BY TypeCorrect, LeaseInvInit, <1>1, <1>2, PTL DEF Spec, ClosedByOwner

-----------------------------------------------------------------------------
(* The queue implements the life cycle.                                    *)

LEMMA OutwardRow ==
  ASSUME NEW row \in JobRow(Workers, 0 .. MaxAttempts), NEW w
  PROVE  /\ Outward(AbsentRow) = "absent"
         /\ Outward(QueuedRow) = "queued"
         /\ row.status = "absent" => Outward(row) = "absent"
         /\ Claimable(row) => Outward(row) \in {"queued", "running"}
         /\ Outward(ClaimedBy(row, w)) = "running"
         /\ row.status = "running" => Outward(Lapsed(row)) = Outward(row)
         /\ Outward(Renewed(row, w)) = Outward(row)
         /\ Owns(row, w) => /\ Outward(row) = "running"
                            /\ Outward(Completed(row, w)) = "completed"
                            /\ Outward(Failed(row, w, "execution_error")) = "failed"
                            /\ Outward(Failed(row, w, "cancelled")) = "cancelled"
         /\ ~Owns(row, w) => /\ Completed(row, w) = row
                             /\ Failed(row, w, "execution_error") = row
                             /\ Failed(row, w, "cancelled") = row
         /\ Outward(CancelRequested(row)) =
              IF Outward(row) = "queued" THEN "cancelled" ELSE Outward(row)
  BY DEF JobRow, Outward, AbsentRow, QueuedRow, Claimable, ClaimedBy, Lapsed, Renewed,
         Owns, Completed, Failed, CancelRequested

LEMMA OutwardUpdate ==
  ASSUME TypeOK, NEW j \in Jobs, NEW r, job' = [job EXCEPT ![j] = r]
  PROVE  LifecycleState' = [LifecycleState EXCEPT ![j] = Outward(r)]
  BY DEF TypeOK, LifecycleState

\* A closing update either closes the running row or finds it taken and leaves
\* it alone.
LEMMA EndMaps ==
  ASSUME TypeOK, NEW j \in Jobs, NEW r, job' = [job EXCEPT ![j] = r],
         cancelled' = cancelled,
         \/ r = job[j]
         \/ /\ Outward(job[j]) = "running"
            /\ Outward(r) \in {"completed", "failed", "cancelled"}
            /\ Outward(r) = "cancelled" => j \in cancelled
  PROVE  Lifecycle!End(j) \/ (LifecycleState' = LifecycleState /\ cancelled' = cancelled)
  <1>1. LifecycleState' = [LifecycleState EXCEPT ![j] = Outward(r)]
    BY OutwardUpdate
  <1>2. LifecycleState[j] = Outward(job[j])
    BY DEF LifecycleState
  <1>3. CASE r = job[j]
    BY <1>1, <1>2, <1>3 DEF LifecycleState
  <1>4. CASE r # job[j]
    BY <1>1, <1>2, <1>4 DEF Lifecycle!End
  <1> QED
    BY <1>3, <1>4

LEMMA LifecycleInit == Init => Lifecycle!Init
  BY DEF Init, Lifecycle!Init, LifecycleState, Outward, AbsentRow

LEMMA LifecycleStep ==
  ASSUME TypeOK, CancelInv, [Next]_vars
  PROVE  [Lifecycle!Next]_(Lifecycle!vars)
  <1> DEFINE stutter == LifecycleState' = LifecycleState /\ cancelled' = cancelled
  <1>0. stutter => [Lifecycle!Next]_(Lifecycle!vars)
    BY DEF Lifecycle!vars
  <1>1. ASSUME NEW j \in Jobs, Enqueue(j) PROVE Lifecycle!Submit(j)
    <2>1. LifecycleState[j] = "absent"
      BY <1>1 DEF Enqueue, LifecycleState, Outward
    <2>2. LifecycleState' = [LifecycleState EXCEPT ![j] = "queued"]
      <3>1. job' = [job EXCEPT ![j] = QueuedRow]
        BY <1>1 DEF Enqueue
      <3>2. Outward(QueuedRow) = "queued"
        BY DEF Outward, QueuedRow, AbsentRow
      <3> QED
        BY <3>1, <3>2, OutwardUpdate
    <2> QED
      BY <1>1, <2>1, <2>2 DEF Enqueue, Lifecycle!Submit
  <1>2. ASSUME NEW j \in Jobs, RequestCancel(j) PROVE Lifecycle!AskCancel(j)
    <2>1. LifecycleState' = [LifecycleState EXCEPT ![j] = Outward(CancelRequested(job[j]))]
      BY <1>2, OutwardUpdate DEF RequestCancel
    <2>2. LifecycleState[j] = Outward(job[j])
      BY DEF LifecycleState
    <2>3. Outward(CancelRequested(job[j])) =
            IF LifecycleState[j] = "queued" THEN "cancelled" ELSE LifecycleState[j]
      BY <2>2, OutwardRow DEF TypeOK
    <2> QED
      BY <1>2, <2>1, <2>3 DEF RequestCancel, Lifecycle!AskCancel, LifecycleState
  <1>3. ASSUME NEW w \in Workers, NEW j \in Jobs, TakeOldest(w, j), cancelled' = cancelled
        PROVE  Lifecycle!Start(j) \/ stutter
    <2>1. LifecycleState' = [LifecycleState EXCEPT ![j] = "running"]
      <3>1. job' = [job EXCEPT ![j] = ClaimedBy(job[j], w)]
        BY <1>3 DEF TakeOldest
      <3>2. Outward(ClaimedBy(job[j], w)) = "running"
        BY DEF Outward, ClaimedBy
      <3> QED
        BY <3>1, <3>2, OutwardUpdate
    <2>2. LifecycleState[j] \in {"queued", "running"}
      BY <1>3 DEF TakeOldest, Claimable, LifecycleState, Outward
    <2>3. LifecycleState \in [Jobs -> {Outward(job[i]) : i \in Jobs}]
      BY DEF LifecycleState
    <2> QED
      BY <1>3, <2>1, <2>2, <2>3 DEF Lifecycle!Start
  <1>4. ASSUME NEW j \in Jobs, LeaseLapses(j) \/ LeaseStalls(j) PROVE stutter
    <2>1. /\ job[j].status = "running"
          /\ job' = [job EXCEPT ![j] = Lapsed(job[j])]
          /\ cancelled' = cancelled
      BY <1>4 DEF LeaseLapses, LeaseStalls, LeaseExpires
    <2>2. Outward(Lapsed(job[j])) = LifecycleState[j]
      BY <2>1, OutwardRow DEF TypeOK, LifecycleState
    <2> QED
      BY <2>1, <2>2, OutwardUpdate DEF LifecycleState
  <1>5. ASSUME NEW e \in Executions, BeatWrites(e) PROVE stutter
    <2>1. /\ job' = [job EXCEPT ![JobOf(e)] = Renewed(job[JobOf(e)], run[e].worker)]
          /\ cancelled' = cancelled
          /\ JobOf(e) \in Jobs
      BY <1>5, JobOfExecution DEF BeatWrites
    <2>2. Outward(Renewed(job[JobOf(e)], run[e].worker)) = LifecycleState[JobOf(e)]
      BY <2>1, OutwardRow DEF TypeOK, LifecycleState
    <2> QED
      BY <2>1, <2>2, OutwardUpdate DEF LifecycleState
  <1>6. ASSUME NEW e \in Executions, MarkCompleted(e) \/ MarkFailed(e) \/ MarkCancelled(e)
        PROVE  Lifecycle!End(JobOf(e)) \/ stutter
    <2>1. /\ JobOf(e) \in Jobs
          /\ job[JobOf(e)] \in JobRow(Workers, 0 .. MaxAttempts)
          /\ cancelled' = cancelled
      BY <1>6, JobOfExecution DEF MarkCompleted, MarkFailed, MarkCancelled, TypeOK
    <2>2. CASE MarkCompleted(e)
      <3> DEFINE r == Completed(job[JobOf(e)], run[e].worker)
      <3>1. job' = [job EXCEPT ![JobOf(e)] = r]
        BY <2>2 DEF MarkCompleted
      <3>2. \/ r = job[JobOf(e)]
            \/ /\ Outward(job[JobOf(e)]) = "running"
               /\ Outward(r) \in {"completed", "failed"}
        BY <2>1, OutwardRow
      <3> HIDE DEF r
      <3> QED
        BY <2>1, <3>1, <3>2, EndMaps
    <2>3. CASE MarkFailed(e)
      <3> DEFINE r == Failed(job[JobOf(e)], run[e].worker, "execution_error")
      <3>1. job' = [job EXCEPT ![JobOf(e)] = r]
        BY <2>3 DEF MarkFailed
      <3>2. \/ r = job[JobOf(e)]
            \/ /\ Outward(job[JobOf(e)]) = "running"
               /\ Outward(r) \in {"completed", "failed"}
        BY <2>1, OutwardRow
      <3> HIDE DEF r
      <3> QED
        BY <2>1, <3>1, <3>2, EndMaps
    <2>4. CASE MarkCancelled(e)
      <3>1. JobOf(e) \in cancelled
        BY <2>4 DEF MarkCancelled, CancelInv
      <3> DEFINE r == Failed(job[JobOf(e)], run[e].worker, "cancelled")
      <3>2. job' = [job EXCEPT ![JobOf(e)] = r]
        BY <2>4 DEF MarkCancelled
      <3>3. \/ r = job[JobOf(e)]
            \/ /\ Outward(job[JobOf(e)]) = "running"
               /\ Outward(r) = "cancelled"
        BY <2>1, OutwardRow
      <3> HIDE DEF r
      <3> QED
        BY <2>1, <3>1, <3>2, <3>3, EndMaps
    <2> QED
      BY <1>6, <2>2, <2>3, <2>4
  <1>7. ASSUME UNCHANGED <<job, cancelled>> PROVE stutter
    BY <1>7 DEF LifecycleState
  <1>8. CASE BotStep
    <2>1. ASSUME NEW j \in Jobs, ListForCancel(j) PROVE stutter
      BY <1>7, <2>1 DEF ListForCancel
    <2> HIDE DEF stutter
    <2> QED
      BY <1>0, <1>1, <1>2, <1>8, <2>1 DEF BotStep, Lifecycle!Next
  <1>9. CASE ProcessStep
    <2>1. ASSUME NEW w \in Workers,
                 StartWorker(w) \/ RequestStop(w) \/ StopEnds(w) \/ Crash(w)
          PROVE  stutter
      BY <1>7, <2>1 DEF StartWorker, RequestStop, StopEnds, Crash
    <2>2. ASSUME NEW w \in Workers, PollingDies(w) \/ \E j \in Jobs : AcquireNext(w, j)
          PROVE  Lifecycle!Next \/ stutter
      <3>1. /\ UNCHANGED job \/ \E j \in Jobs : TakeOldest(w, j)
            /\ cancelled' = cancelled
        BY <2>2 DEF PollingDies, AcquireNext
      <3> QED
        BY <1>3, <1>7, <3>1 DEF Lifecycle!Next
    <2> HIDE DEF stutter
    <2> QED
      BY <1>0, <1>9, <2>1, <2>2 DEF ProcessStep
  <1>10. CASE LeaseStep
    BY <1>0, <1>4, <1>10 DEF LeaseStep
  <1>11. CASE ExecutionStep
    <2>1. ASSUME NEW e \in Executions,
                 \/ ExecutionReturns(e) \/ ExecutionRaises(e) \/ CloseDies(e)
                 \/ BeatReads(e) \/ BeatSeesCancel(e) \/ BeatStops(e) \/ BeatDies(e)
          PROVE  stutter
      BY <1>7, <2>1 DEF ExecutionReturns, ExecutionRaises, CloseDies, BeatReads,
            BeatSeesCancel, BeatStops, BeatDies
    <2>2. ASSUME NEW e \in Executions,
                 MarkCompleted(e) \/ MarkFailed(e) \/ MarkCancelled(e)
          PROVE  Lifecycle!Next \/ stutter
      BY <1>6, <2>2, JobOfExecution DEF Lifecycle!Next
    <2> HIDE DEF stutter
    <2> QED
      BY <1>0, <1>5, <1>11, <2>1, <2>2 DEF ExecutionStep
  <1> QED
    BY <1>0, <1>7, <1>8, <1>9, <1>10, <1>11 DEF Next, vars

\* Seen from outside, a job starts once and ends once, and ends as cancelled
\* only on request, whatever the workers go through.
THEOREM QueueImplementsLifecycle == Spec => ImplementsLifecycle
  <1>1. TypeOK /\ CancelInv /\ [Next]_vars => [Lifecycle!Next]_(Lifecycle!vars)
    BY LifecycleStep
  <1> QED
    BY TypeCorrect, CancelInvInit, CancelInvStep, LifecycleInit, <1>1, PTL
       DEF Spec, ImplementsLifecycle, Lifecycle!Spec
=============================================================================
