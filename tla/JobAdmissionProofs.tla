------------------------- MODULE JobAdmissionProofs -------------------------
(***************************************************************************)
(* Proofs about JobAdmission, for every finite set of commands and chats,  *)
(* every set of workers, every limit of the queue and every bound.         *)
(***************************************************************************)
EXTENDS JobAdmission, FiniteSetTheorems, SequenceTheorems, TLAPS

-----------------------------------------------------------------------------
(* Types.                                                                  *)

Rows == JobRow(Workers, 0 .. MaxAttempts)

LEMMA RowTypes ==
  ASSUME NEW r \in Rows, NEW w
  PROVE  /\ Renewed(r, w) \in Rows
         /\ Completed(r, w) \in Rows
         /\ Failed(r, w, "execution_error") \in Rows
         /\ CancelRequested(r) \in Rows
         /\ Lapsed(r) \in Rows
         /\ r.attempts < MaxAttempts /\ w \in Workers => ClaimedBy(r, w) \in Rows
  <1> USE DEF Rows, JobRow, JobStatus, Lease, ErrorCode
  <1>1. Renewed(r, w) \in Rows
    BY DEF Renewed
  <1>2. Completed(r, w) \in Rows
    BY DEF Completed
  <1>3. Failed(r, w, "execution_error") \in Rows
    BY DEF Failed
  <1>4. CancelRequested(r) \in Rows
    BY DEF CancelRequested
  <1>5. Lapsed(r) \in Rows
    BY DEF Lapsed
  <1>6. r.attempts < MaxAttempts /\ w \in Workers => ClaimedBy(r, w) \in Rows
    BY AdmissionAssumption DEF ClaimedBy
  <1> QED
    BY <1>1, <1>2, <1>3, <1>4, <1>5, <1>6

LEMMA NewRows == AbsentRow \in Rows /\ QueuedRow \in Rows
  BY AdmissionAssumption
     DEF Rows, JobRow, JobStatus, Lease, ErrorCode, AbsentRow, QueuedRow

LEMMA ScopesAreSequences == \A s \in Scopes : s \in Seq(Chats) /\ s # <<>>
  <1> SUFFICES ASSUME NEW s \in Scopes PROVE s \in Seq(Chats) /\ s # <<>>
    OBVIOUS
  <1>1. PICK n \in 1 .. Cardinality(Chats) : s \in [1 .. n -> Chats]
    BY DEF Scopes
  <1>2. Cardinality(Chats) \in Nat
    BY AdmissionAssumption, FS_CardinalityType
  <1>3. n \in Nat /\ n > 0
    BY <1>1, <1>2
  <1> QED
    BY <1>1, <1>3

\* The commands after a step, without what counts them.
RequestsTyped ==
  /\ request \in [Requests -> Request]
  /\ \A r \in InFlight : request[r].todo # <<>>

\* r is in flight, and the rest of its scope is known.
LEMMA AtHand ==
  ASSUME RequestsTyped, NEW r \in Requests, r \in InFlight
  PROVE  Current(r) \in Chats /\ Key(r) \in Jobs /\ Tail(request[r].todo) \in Seq(Chats)
  <1>1. request[r].todo \in Seq(Chats) /\ request[r].todo # <<>>
    BY DEF RequestsTyped, Request
  <1> QED
    BY <1>1, HeadTailProperties DEF Current, Key, Jobs

LEMMA GoToTyped ==
  ASSUME RequestsTyped, NEW r \in Requests, r \in InFlight, NEW phase \in Phase,
         GoTo(r, phase)
  PROVE  RequestsTyped'
  <1>1. request[r] \in Request /\ request[r].todo # <<>>
    BY DEF RequestsTyped
  <1> DEFINE new == [request[r] EXCEPT !.phase = phase]
  <1>2. new \in Request
    BY <1>1 DEF Request
  <1>3. new.todo # <<>>
    BY <1>1 DEF Request
  <1>4. request' = [request EXCEPT ![r] = new]
    BY DEF GoTo, RequestsTyped
  <1> HIDE DEF new
  <1> QED
    BY <1>2, <1>3, <1>4 DEF RequestsTyped, InFlight

LEMMA SettleTyped ==
  ASSUME RequestsTyped, NEW r \in Requests, r \in InFlight, Settle(r)
  PROVE  RequestsTyped'
  <1> DEFINE rest == Tail(request[r].todo)
  <1>1. request[r] \in Request /\ rest \in Seq(Chats)
    BY AtHand DEF RequestsTyped
  <1> HIDE DEF rest
  <1> DEFINE new == [request[r] EXCEPT
                       !.phase = IF rest = <<>> THEN "done" ELSE "list_active", !.todo = rest]
  <1>2. new \in Request
    BY <1>1 DEF Request, Phase
  <1>3. new.phase # "done" => new.todo # <<>>
    BY <1>1 DEF Request
  <1>4. request' = [request EXCEPT ![r] = new]
    BY DEF Settle, RequestsTyped, rest
  <1> HIDE DEF new
  <1> QED
    BY <1>2, <1>3, <1>4 DEF RequestsTyped, InFlight

LEMMA InFlightFinite ==
  /\ IsFiniteSet(InFlight) /\ Cardinality(InFlight) \in Nat
  /\ Cardinality(InFlight) <= Cardinality(Requests)
  /\ \A r \in Requests \ InFlight : /\ Cardinality(InFlight \cup {r}) = Cardinality(InFlight) + 1
                                    /\ Cardinality(InFlight) + 1 <= Cardinality(Requests)
  <1>1. InFlight \subseteq Requests /\ IsFiniteSet(Requests)
    BY AdmissionAssumption DEF InFlight
  <1>2. IsFiniteSet(InFlight) /\ Cardinality(InFlight) <= Cardinality(Requests)
    BY <1>1, FS_Subset
  <1>3. ASSUME NEW r \in Requests \ InFlight
        PROVE  /\ Cardinality(InFlight \cup {r}) = Cardinality(InFlight) + 1
               /\ Cardinality(InFlight \cup {r}) <= Cardinality(Requests)
    <2>1. InFlight \cup {r} \in SUBSET Requests
      BY <1>1
    <2> QED
      BY <1>1, <1>2, <2>1, FS_AddElement, FS_Subset
  <1> QED
    BY <1>2, <1>3, FS_CardinalityType

LEMMA TypeInit == Init => TypeOK
  <1> SUFFICES ASSUME Init PROVE TypeOK
    OBVIOUS
  <1>1. job \in [Jobs -> Rows]
    BY NewRows DEF Init
  <1>2. progress \in [Chats -> Progress]
    BY DEF Init, Progress
  <1>3. request \in [Requests -> Request] /\ InFlight = {}
    BY DEF Init, Request, Phase, Policy, InFlight
  <1>4. 0 \in 0 .. Cardinality(Requests) /\ 0 \in 0 .. MaxFaults
    BY InFlightFinite, AdmissionAssumption, FS_CardinalityType
  <1> QED
    BY <1>1, <1>2, <1>3, <1>4 DEF Init, TypeOK, Rows

LEMMA SubmitTyped ==
  ASSUME TypeOK, NEW r \in Requests, NEW policy \in Policy, NEW scope \in Scopes,
         Submit(r, policy, scope)
  PROVE  TypeOK'
  <1>1. scope \in Seq(Chats) /\ scope # <<>>
    BY ScopesAreSequences
  <1> DEFINE new == [phase |-> "list_active", policy |-> policy, todo |-> scope,
                     mapped |-> FALSE]
  <1>2. new \in Request /\ new.todo # <<>>
    BY <1>1 DEF Request, Phase
  <1>3. request' = [request EXCEPT ![r] = new]
    BY DEF Submit
  <1> HIDE DEF new
  <1>4. RequestsTyped'
    BY <1>2, <1>3 DEF RequestsTyped, TypeOK, InFlight
  <1>5. r \notin InFlight /\ InFlight \subseteq Requests
    BY DEF Submit, InFlight
  <1>6. together' \subseteq Requests \X Requests
    BY <1>5 DEF Submit, TypeOK
  <1>7. peak' \in 0 .. Cardinality(Requests)
    <2>1. Cardinality(InFlight) \in Nat /\ Cardinality(InFlight) + 1 <= Cardinality(Requests)
      BY <1>5, InFlightFinite
    <2>2. Cardinality(Requests) \in Nat
      BY AdmissionAssumption, FS_CardinalityType
    <2>3. /\ Cardinality(InFlight) + 1 \in 0 .. Cardinality(Requests)
          /\ peak \in 0 .. Cardinality(Requests)
      BY <2>1, <2>2 DEF TypeOK
    <2>4. peak' \in {peak, Cardinality(InFlight) + 1}
      BY DEF Submit
    <2> QED
      BY <2>3, <2>4
  <1> QED
    BY <1>4, <1>6, <1>7 DEF Submit, TypeOK, RequestsTyped

\* What a step of a worker or a cancellation does to the table.
LEMMA RowStepTyped ==
  ASSUME TypeOK, NEW j \in Jobs, NEW r \in Rows, job' = [job EXCEPT ![j] = r]
  PROVE  job' \in [Jobs -> Rows]
  BY DEF TypeOK, Rows

LEMMA TypeStep == TypeOK /\ [Next]_vars => TypeOK'
  <1> SUFFICES ASSUME TypeOK, [Next]_vars PROVE TypeOK'
    OBVIOUS
  <1>1. RequestsTyped /\ \A r \in Requests : request[r].phase \notin {"new", "done", "lost"}
                                              <=> r \in InFlight
    BY DEF TypeOK, RequestsTyped, InFlight
  <1>2. ASSUME NEW r \in Requests,
               ListActive(r) \/ CountByStatus(r) \/ ReadCheckpoint(r)
        PROVE  TypeOK'
    <2>1. r \in InFlight /\ UNCHANGED <<job, progress, together, peak, missed, faults>>
      BY <1>1, <1>2 DEF ListActive, CountByStatus, ReadCheckpoint
    <2>2. RequestsTyped'
      BY <1>1, <1>2, <2>1, GoToTyped, SettleTyped
         DEF ListActive, CountByStatus, ReadCheckpoint, Phase
    <2> QED
      BY <2>1, <2>2 DEF TypeOK, RequestsTyped
  <1>3. ASSUME NEW r \in Requests, Summarize(r) PROVE TypeOK'
    <2>1. r \in InFlight /\ Current(r) \in Chats
      BY <1>1, <1>3, AtHand DEF Summarize
    <2>2. progress[Current(r)].mapped \in BOOLEAN
      BY <2>1 DEF TypeOK, Progress
    <2> DEFINE new == [request[r] EXCEPT !.phase = "checkpoint",
                                         !.mapped = progress[Current(r)].mapped]
    <2>3. request[r] \in Request /\ request[r].todo # <<>>
      BY <1>1, <2>1 DEF RequestsTyped
    <2>4. new \in Request
      BY <2>2, <2>3 DEF Request, Phase
    <2>5. new.todo # <<>>
      BY <2>3 DEF Request
    <2>6. request' = [request EXCEPT ![r] = new]
      BY <1>3, <1>1 DEF Summarize, RequestsTyped
    <2> HIDE DEF new
    <2>7. RequestsTyped'
      BY <1>1, <2>4, <2>5, <2>6 DEF RequestsTyped, InFlight
    <2> QED
      BY <1>3, <2>7 DEF Summarize, TypeOK, RequestsTyped
  <1>4. ASSUME NEW r \in Requests, Enqueue(r) PROVE TypeOK'
    <2>1. r \in InFlight /\ Key(r) \in Jobs
      BY <1>1, <1>4, AtHand DEF Enqueue
    <2>2. RequestsTyped' /\ job' \in [Jobs -> Rows]
      BY <1>1, <1>4, <2>1, SettleTyped, NewRows, RowStepTyped DEF Enqueue
    <2> QED
      BY <1>4, <2>2 DEF Enqueue, TypeOK, RequestsTyped, Rows
  <1>5. CASE BotCrash
    <2>1. \A r \in Requests : request[r] \in Request
      BY DEF TypeOK
    <2>2. \A r \in Requests : [request[r] EXCEPT !.phase = "lost"] \in Request
      BY <2>1 DEF Request, Phase
    <2>3. request' \in [Requests -> Request]
      BY <1>5, <2>1, <2>2 DEF BotCrash
    <2>4. InFlight' = {}
      BY <1>5, <2>1 DEF BotCrash, InFlight, Request
    <2>5. faults' \in 0 .. MaxFaults
      BY <1>5, AdmissionAssumption DEF BotCrash, Fault, TypeOK
    <2> QED
      BY <1>5, <2>3, <2>4, <2>5 DEF BotCrash, TypeOK
  <1>6. ASSUME NEW j \in Jobs,
               \/ Cancel(j) \/ HeartbeatRenews(j) \/ Close(j)
               \/ \E w \in Workers : Claim(j, w)
        PROVE  TypeOK'
    <2>1. job[j] \in Rows
      BY DEF TypeOK, Rows
    <2>2. PICK r \in Rows : job' = [job EXCEPT ![j] = r]
      BY <1>6, <2>1, RowTypes DEF Cancel, HeartbeatRenews, Close, Claim
    <2> QED
      BY <1>6, <2>2, RowStepTyped
         DEF Cancel, HeartbeatRenews, Close, Claim, TypeOK, Rows, InFlight
  <1>7. ASSUME NEW j \in Jobs, LeaseExpires(j) PROVE TypeOK'
    <2>1. job[j] \in Rows
      BY DEF TypeOK, Rows
    <2>2. job' \in [Jobs -> Rows]
      BY <1>7, <2>1, RowTypes, RowStepTyped DEF LeaseExpires
    <2>3. faults' \in 0 .. MaxFaults
      BY <1>7, AdmissionAssumption DEF LeaseExpires, Fault, TypeOK
    <2> QED
      BY <1>7, <2>2, <2>3 DEF LeaseExpires, TypeOK, Rows, InFlight
  <1>8. ASSUME NEW j \in Jobs, Import(j) PROVE TypeOK'
    <2>1. ChatOf(j) \in Chats
      BY DEF Jobs, ChatOf
    <2>2. progress' \in [Chats -> Progress]
      <3>1. progress[ChatOf(j)] \in Progress /\ progress \in [Chats -> Progress]
        BY <2>1 DEF TypeOK
      <3>2. /\ [progress[ChatOf(j)] EXCEPT !.mapped = TRUE] \in Progress
            /\ [progress[ChatOf(j)] EXCEPT !.checkpoint = TRUE] \in Progress
        BY <3>1 DEF Progress
      <3>3. PICK p \in Progress : progress' = [progress EXCEPT ![ChatOf(j)] = p]
        BY <1>8, <3>2 DEF Import
      <3> QED
        BY <3>1, <3>3
    <2> QED
      BY <1>8, <2>2 DEF Import, TypeOK, InFlight
  <1>9. CASE UNCHANGED vars
    BY <1>9 DEF vars, TypeOK, InFlight
  <1> QED
    BY <1>2, <1>3, <1>4, <1>5, <1>6, <1>7, <1>8, <1>9, SubmitTyped
       DEF Next, BotStep, WorkerStep

\* The table, the progress of the chats and the commands keep their shape.
THEOREM AdmissionTypeCorrect == Spec => []TypeOK
  BY TypeInit, TypeStep, PTL DEF Spec

-----------------------------------------------------------------------------
(* One active job per chat.                                                *)

\* Commands that were in flight at one time, or a lease that ran out, excuse two
\* active jobs of one chat.
Excused(j, k) ==
  \/ <<Requester(j), Requester(k)>> \in together
  \/ j \in missed \/ k \in missed

\* The command has seen that the chat at hand has no active job.
Admitting(r) == request[r].phase \in {"count", "summarize", "checkpoint", "enqueue"}

\* A job of the chat at hand that became active since is excused.
NewcomerExcused(r, j) == <<Requester(j), r>> \in together \/ j \in missed

\* The strengthening: commands in flight know of each other, a lease is found expired
\* only where it is recorded, and what a command has seen holds but for newcomers.
AdmissionInv ==
  /\ TypeOK
  /\ \A r, s \in Requests : <<r, s>> \in together => <<s, r>> \in together
  /\ \A r, s \in InFlight : r # s => <<r, s>> \in together
  /\ \A j \in Jobs : job[j].status = "running" /\ job[j].lease = "expired" => j \in missed
  /\ \A j, k \in Jobs :
        j # k /\ ChatOf(j) = ChatOf(k) /\ Active(j) /\ Active(k) => Excused(j, k)
  /\ \A r \in Requests, j \in Jobs :
        Admitting(r) /\ ChatOf(j) = Current(r) /\ Active(j) => NewcomerExcused(r, j)

LEMMA AdmissionInvInit == Init => AdmissionInv
  BY TypeInit DEF Init, AdmissionInv, AbsentRow, InFlight, Admitting, Active, EffectivelyActive

\* A row that is written becomes active only if its lease had run out, or if it is a
\* job that is enqueued.
LEMMA RowActivity ==
  ASSUME NEW r \in Rows, NEW w
  PROVE  /\ EffectivelyActive(CancelRequested(r)) => EffectivelyActive(r)
         /\ EffectivelyActive(Lapsed(r)) => EffectivelyActive(r)
         /\ ~EffectivelyActive(Completed(r, r.worker)) \/ r.status # "running"
         /\ ~EffectivelyActive(Failed(r, r.worker, "execution_error")) \/ r.status # "running"
         /\ Claimable(r) =>
              EffectivelyActive(r) \/ (r.status = "running" /\ r.lease = "expired")
         /\ r.status = "running" => EffectivelyActive(r) \/ r.lease = "expired"
  BY DEF Rows, JobRow, JobStatus, Lease, ErrorCode, EffectivelyActive, CancelRequested, Lapsed,
         Completed, Failed, Owns, Claimable

\* What a step of a worker or a cancellation may change: no job becomes active that
\* was not, but for a lease that had run out.
TableStep ==
  /\ UNCHANGED <<request, together>>
  /\ missed \subseteq missed'
  /\ \A j \in Jobs : job'[j].status = "running" /\ job'[j].lease = "expired" => j \in missed'
  /\ \A j \in Jobs : Active(j)' => Active(j) \/ j \in missed

LEMMA ClosedRow ==
  ASSUME NEW j \in Jobs, job[j] \in Rows, Close(j)
  PROVE  \E r : /\ job' = [job EXCEPT ![j] = r]
               /\ r.status \in {"completed", "failed"}
  <1>1. PICK r \in {Completed(job[j], job[j].worker),
                   Failed(job[j], job[j].worker, "execution_error")} :
             job' = [job EXCEPT ![j] = r]
    BY DEF Close
  <1>2. job[j].status = "running"
    BY DEF Close
  <1>3. r.status \in {"completed", "failed"}
    BY <1>1, <1>2 DEF Completed, Failed, Owns, Rows, JobRow
  <1> QED
    BY <1>1, <1>3

LEMMA TableSteps ==
  ASSUME AdmissionInv, NEW j \in Jobs,
         \/ Cancel(j) \/ LeaseExpires(j) \/ HeartbeatRenews(j) \/ Import(j) \/ Close(j)
         \/ \E w \in Workers : Claim(j, w)
  PROVE  TableStep
  <1>1. job[j] \in Rows /\ job \in [Jobs -> Rows]
    BY DEF AdmissionInv, TypeOK, Rows
  <1>2. UNCHANGED <<request, together>> /\ missed \subseteq missed'
    BY DEF Cancel, LeaseExpires, HeartbeatRenews, Import, Close, Claim
  <1>3. CASE Import(j)
    BY <1>2, <1>3 DEF TableStep, Import, AdmissionInv, Active
  <1>4. ASSUME NEW r, job' = [job EXCEPT ![j] = r],
               r.status = "running" /\ r.lease = "expired" => j \in missed',
               EffectivelyActive(r) => Active(j) \/ j \in missed
        PROVE  TableStep
    BY <1>1, <1>2, <1>4 DEF TableStep, AdmissionInv, Active
  <1>5. job[j].status = "running" /\ job[j].lease = "expired" => j \in missed
    BY DEF AdmissionInv
  <1>6. CASE Cancel(j)
    <2> DEFINE r == CancelRequested(job[j])
    <2>1. r.status = "running" /\ r.lease = "expired" =>
            job[j].status = "running" /\ job[j].lease = "expired"
      BY <1>1 DEF CancelRequested, Rows, JobRow
    <2>2. EffectivelyActive(r) => Active(j)
      BY <1>1, RowActivity DEF Active
    <2> HIDE DEF r
    <2> QED
      BY <1>4, <1>5, <1>6, <2>1, <2>2, <1>2 DEF Cancel, r
  <1>7. CASE LeaseExpires(j)
    BY <1>1, <1>4, <1>7, RowActivity DEF LeaseExpires, Active
  <1>8. CASE HeartbeatRenews(j)
    BY <1>1, <1>4, <1>5, <1>8 DEF HeartbeatRenews, Renewed, Rows, JobRow, Owns
  <1>9. CASE Close(j)
    <2>1. PICK r : /\ job' = [job EXCEPT ![j] = r]
                   /\ r.status \in {"completed", "failed"}
      BY <1>1, <1>9, ClosedRow
    <2> QED
      BY <1>4, <2>1 DEF EffectivelyActive
  <1>10. ASSUME NEW w \in Workers, Claim(j, w) PROVE TableStep
    BY <1>1, <1>4, <1>5, <1>10, RowActivity DEF Claim, ClaimedBy, Active
  <1> QED
    BY <1>3, <1>6, <1>7, <1>8, <1>9, <1>10

LEMMA TableStepKeeps ==
  ASSUME AdmissionInv, TypeOK', TableStep
  PROVE  AdmissionInv'
  <1>1. UNCHANGED <<request, together>> /\ missed \subseteq missed'
    BY DEF TableStep
  <1>2. \A r, s \in Requests : (<<r, s>> \in together => <<s, r>> \in together)'
    BY <1>1 DEF AdmissionInv
  <1>3. (\A r, s \in InFlight : r # s => <<r, s>> \in together)'
    BY <1>1 DEF AdmissionInv, InFlight
  <1>4. ASSUME NEW j \in Jobs, NEW k \in Jobs,
               j # k, ChatOf(j) = ChatOf(k), Active(j)', Active(k)'
        PROVE  Excused(j, k)'
    BY <1>1, <1>4 DEF TableStep, AdmissionInv, Excused
  <1>5. ASSUME NEW r \in Requests, NEW j \in Jobs,
               Admitting(r)', ChatOf(j) = Current(r)', Active(j)'
        PROVE  NewcomerExcused(r, j)'
    BY <1>1, <1>5 DEF TableStep, AdmissionInv, Admitting, Current, NewcomerExcused
  <1> QED
    BY <1>2, <1>3, <1>4, <1>5 DEF AdmissionInv, TableStep

\* A step of a command r that enqueues nothing: it goes on in flight, and begins to
\* admit a chat only if the chat has no active job.
LEMMA CommandStepKeeps ==
  ASSUME AdmissionInv, TypeOK', NEW r \in Requests, r \in InFlight,
         UNCHANGED <<job, together, missed>>,
         \A s \in Requests \ {r} : request'[s] = request[s],
         Admitting(r)' =>
           \/ Admitting(r) /\ request'[r].todo = request[r].todo
           \/ \A j \in Jobs : ~(ChatOf(j) = Current(r)' /\ Active(j))
  PROVE  AdmissionInv'
  <1>1. InFlight' \subseteq InFlight
    BY DEF InFlight
  <1>2. \A j \in Jobs : Active(j)' <=> Active(j)
    BY DEF Active
  <1>3. ASSUME NEW s \in Requests, NEW j \in Jobs,
               Admitting(s)', ChatOf(j) = Current(s)', Active(j)'
        PROVE  NewcomerExcused(s, j)'
    <2>1. Admitting(s) /\ Current(s)' = Current(s)
      BY <1>2, <1>3 DEF Admitting, Current
    <2> QED
      BY <1>2, <1>3, <2>1 DEF AdmissionInv, NewcomerExcused
  <1> QED
    BY <1>1, <1>2, <1>3 DEF AdmissionInv, Excused

LEMMA SubmitKeeps ==
  ASSUME AdmissionInv, TypeOK', NEW r \in Requests, NEW policy, NEW scope,
         Submit(r, policy, scope)
  PROVE  AdmissionInv'
  <1>1. /\ r \notin InFlight /\ InFlight' = InFlight \cup {r}
        /\ together' = together \cup (InFlight \X {r}) \cup ({r} \X InFlight)
        /\ \A s \in Requests \ {r} : request'[s] = request[s]
        /\ ~Admitting(r)' /\ UNCHANGED <<job, missed>>
    BY DEF Submit, InFlight, AdmissionInv, TypeOK, Admitting
  <1>2. \A j \in Jobs : Active(j)' <=> Active(j)
    BY <1>1 DEF Active
  <1>3. ASSUME NEW s \in Requests, NEW t \in Requests, <<s, t>> \in together'
        PROVE  <<t, s>> \in together'
    BY <1>1, <1>3 DEF AdmissionInv
  <1>4. ASSUME NEW s \in InFlight', NEW t \in InFlight', s # t
        PROVE  <<s, t>> \in together'
    BY <1>1, <1>4 DEF AdmissionInv
  <1>5. ASSUME NEW s \in Requests, NEW j \in Jobs,
               Admitting(s)', ChatOf(j) = Current(s)', Active(j)'
        PROVE  NewcomerExcused(s, j)'
    BY <1>1, <1>2, <1>5 DEF AdmissionInv, NewcomerExcused, Admitting, Current
  <1> QED
    BY <1>1, <1>2, <1>3, <1>4, <1>5 DEF AdmissionInv, Excused

\* The heart of the matter: the job that is enqueued meets only newcomers.
LEMMA EnqueueKeeps ==
  ASSUME AdmissionInv, TypeOK', NEW r \in Requests, Enqueue(r)
  PROVE  AdmissionInv'
  <1>1. /\ r \in InFlight /\ Admitting(r) /\ UNCHANGED <<together, missed>>
        /\ \A s \in Requests \ {r} : request'[s] = request[s]
        /\ ~Admitting(r)'
    BY DEF Enqueue, Settle, InFlight, Admitting, AdmissionInv, TypeOK, Request
  <1>2. Key(r) \in Jobs /\ Requester(Key(r)) = r /\ ChatOf(Key(r)) = Current(r)
    BY <1>1, AtHand DEF Key, Requester, ChatOf, AdmissionInv, TypeOK, RequestsTyped
  <1>3. /\ \A j \in Jobs : j # Key(r) => job'[j] = job[j]
        /\ job'[Key(r)] = QueuedRow
    BY <1>2 DEF Enqueue, AdmissionInv, TypeOK
  <1>4. \A j \in Jobs : Active(j)' => Active(j) \/ j = Key(r)
    BY <1>3 DEF Active
  <1>5. \A j \in Jobs : job'[j].status = "running" /\ job'[j].lease = "expired" => j \in missed
    BY <1>3 DEF AdmissionInv, QueuedRow, AbsentRow
  <1>6. InFlight' \subseteq InFlight
    BY <1>1 DEF InFlight
  <1>7. ASSUME NEW j \in Jobs, NEW k \in Jobs,
               j # k, ChatOf(j) = ChatOf(k), Active(j)', Active(k)'
        PROVE  Excused(j, k)'
    <2>1. CASE j # Key(r) /\ k # Key(r)
      BY <1>1, <1>4, <1>7, <2>1 DEF AdmissionInv, Excused
    <2>2. CASE j = Key(r)
      <3>1. Active(k) /\ ChatOf(k) = Current(r)
        BY <1>2, <1>4, <1>7, <2>2
      <3>2. NewcomerExcused(r, k)
        BY <1>1, <3>1 DEF AdmissionInv
      <3>3. Requester(k) \in Requests
        BY DEF Requester, Jobs
      <3> QED
        BY <1>1, <1>2, <2>2, <3>2, <3>3 DEF AdmissionInv, Excused, NewcomerExcused
    <2>3. CASE k = Key(r)
      <3>1. Active(j) /\ ChatOf(j) = Current(r)
        BY <1>2, <1>4, <1>7, <2>3
      <3>2. NewcomerExcused(r, j)
        BY <1>1, <3>1 DEF AdmissionInv
      <3> QED
        BY <1>1, <1>2, <2>3, <3>2 DEF Excused, NewcomerExcused
    <2> QED
      BY <2>1, <2>2, <2>3
  <1>8. ASSUME NEW s \in Requests, NEW j \in Jobs,
               Admitting(s)', ChatOf(j) = Current(s)', Active(j)'
        PROVE  NewcomerExcused(s, j)'
    <2>1. s # r /\ Admitting(s) /\ Current(s)' = Current(s) /\ s \in InFlight
      BY <1>1, <1>8 DEF Admitting, Current, InFlight
    <2>2. CASE Active(j)
      BY <1>1, <1>8, <2>1, <2>2 DEF AdmissionInv, NewcomerExcused
    <2>3. CASE j = Key(r)
      BY <1>1, <1>2, <2>1, <2>3 DEF AdmissionInv, NewcomerExcused
    <2> QED
      BY <1>4, <1>8, <2>2, <2>3
  <1> QED
    BY <1>1, <1>5, <1>6, <1>7, <1>8 DEF AdmissionInv

LEMMA BotCrashKeeps ==
  ASSUME AdmissionInv, TypeOK', BotCrash
  PROVE  AdmissionInv'
  <1>1. /\ UNCHANGED <<job, together, missed>>
        /\ \A r \in Requests : request'[r].phase \in {"new", "done", "lost"}
    BY DEF BotCrash, InFlight, AdmissionInv, TypeOK, Request
  <1>2. InFlight' = {} /\ \A r \in Requests : ~Admitting(r)'
    BY <1>1 DEF InFlight, Admitting
  <1>3. \A j \in Jobs : Active(j)' <=> Active(j)
    BY <1>1 DEF Active
  <1> QED
    BY <1>1, <1>2, <1>3 DEF AdmissionInv, Excused

LEMMA AdmissionInvStep == AdmissionInv /\ [Next]_vars => AdmissionInv'
  <1> SUFFICES ASSUME AdmissionInv, [Next]_vars PROVE AdmissionInv'
    OBVIOUS
  <1>1. TypeOK'
    BY TypeStep DEF AdmissionInv
  <1>2. ASSUME NEW r \in Requests,
               ListActive(r) \/ CountByStatus(r) \/ Summarize(r) \/ ReadCheckpoint(r)
        PROVE  AdmissionInv'
    <2>1. /\ r \in InFlight /\ UNCHANGED <<job, together, missed>>
          /\ \A s \in Requests \ {r} : request'[s] = request[s]
          /\ request[r] \in Request /\ request \in [Requests -> Request]
      BY <1>2 DEF ListActive, CountByStatus, Summarize, ReadCheckpoint, Settle, GoTo,
         InFlight, AdmissionInv, TypeOK
    <2>2. Settle(r) => ~Admitting(r)'
      BY <2>1 DEF Settle, Admitting, Request
    <2>3. ASSUME NEW phase, GoTo(r, phase) PROVE request'[r].todo = request[r].todo
      BY <2>1, <2>3 DEF GoTo, Request
    <2>4. CASE ListActive(r)
      BY <1>1, <2>1, <2>2, <2>3, <2>4, CommandStepKeeps
         DEF ListActive, Conflict, Active, Current
    <2>5. CASE CountByStatus(r) \/ Summarize(r) \/ ReadCheckpoint(r)
      <3>1. Admitting(r)
        BY <2>5 DEF CountByStatus, Summarize, ReadCheckpoint, Admitting
      <3>2. Admitting(r)' => request'[r].todo = request[r].todo
        BY <2>1, <2>2, <2>3, <2>5 DEF CountByStatus, Summarize, ReadCheckpoint, Request
      <3> QED
        BY <1>1, <2>1, <3>1, <3>2, CommandStepKeeps
    <2> QED
      BY <1>2, <2>4, <2>5
  <1>3. CASE UNCHANGED vars
    BY <1>1, <1>3 DEF vars, AdmissionInv, InFlight, Active, Excused, Admitting, Current,
       NewcomerExcused
  <1> QED
    BY <1>1, <1>2, <1>3, SubmitKeeps, EnqueueKeeps, BotCrashKeeps, TableSteps, TableStepKeeps
       DEF Next, BotStep, WorkerStep

\* Two jobs of one chat are active at once only if their commands were in flight at
\* one time or the lease of one of them ran out, for any number of commands and
\* chats: between its look at the active jobs and its enqueue, a command overlooks
\* only jobs of commands in flight beside it.
THEOREM OneActiveJobUnlessExcused == Spec => []OneActiveJobPerChat
  <1>1. AdmissionInv => OneActiveJobPerChat
    BY DEF AdmissionInv, OneActiveJobPerChat, Excused
  <1> QED
    BY AdmissionInvInit, AdmissionInvStep, <1>1, PTL DEF Spec

-----------------------------------------------------------------------------
(* A command that asks.                                                    *)

\* Some job of the chat at hand has come since the command looked.
HasNewcomer(r) == \E j \in Jobs : ChatOf(j) = Current(r) /\ NewcomerExcused(r, j)

\* The command has read that nothing of the chat is mapped, and asks first.
FoundNothing(r) ==
  \/ request[r].phase = "checkpoint" /\ ~request[r].mapped
  \/ request[r].phase = "enqueue" /\ request[r].policy = "ask"

AskInv ==
  \A r \in Requests :
     FoundNothing(r) /\ progress[Current(r)].mapped => HasNewcomer(r)

LEMMA AskInvInit == Init => AskInv
  BY DEF Init, AskInv, FoundNothing

\* A command in the middle of its admission that another step leaves alone.
LEMMA OthersKeepAsking ==
  ASSUME AdmissionInv, AskInv, NEW r \in Requests, request'[r] = request[r],
         together \subseteq together', missed \subseteq missed',
         FoundNothing(r)', progress'[Current(r)].mapped,
         progress[Current(r)].mapped \/ HasNewcomer(r)
  PROVE  HasNewcomer(r)'
  <1>1. FoundNothing(r) /\ Current(r)' = Current(r)
    BY DEF FoundNothing, Current
  <1>2. HasNewcomer(r)
    BY <1>1 DEF AskInv
  <1> QED
    BY <1>1, <1>2 DEF HasNewcomer, NewcomerExcused

LEMMA AskInvStep == AdmissionInv /\ AskInv /\ [Next]_vars => AskInv'
  <1> SUFFICES ASSUME AdmissionInv, AskInv, [Next]_vars, NEW r \in Requests,
                      FoundNothing(r)', (progress[Current(r)].mapped)'
               PROVE  HasNewcomer(r)'
    BY DEF AskInv
  <1>1. request[r] \in Request /\ request \in [Requests -> Request]
        /\ progress \in [Chats -> Progress]
    BY DEF AdmissionInv, TypeOK
  <1>2. together \subseteq together' /\ missed \subseteq missed'
    BY DEF Next, BotStep, WorkerStep, Submit, ListActive, CountByStatus, Summarize,
       ReadCheckpoint, Enqueue, BotCrash, Cancel, Claim, LeaseExpires, HeartbeatRenews,
       Import, Close, vars
  <1>3. CASE request'[r] = request[r]
    <2>1. FoundNothing(r) /\ Current(r)' = Current(r) /\ r \in InFlight
      BY <1>3 DEF FoundNothing, Current, InFlight
    <2>2. Current(r) \in Chats
      BY <2>1, AtHand DEF AdmissionInv, TypeOK, RequestsTyped
    <2>3. CASE progress[Current(r)].mapped
      BY <1>2, <1>3, <2>1, <2>3, OthersKeepAsking
    <2>4. CASE ~progress[Current(r)].mapped
      <3>1. progress' # progress
        BY <2>1, <2>4
      <3>2. PICK j \in Jobs : Import(j)
        BY <3>1 DEF Next, BotStep, WorkerStep, Submit, ListActive, CountByStatus, Summarize,
           ReadCheckpoint, Enqueue, BotCrash, Cancel, Claim, LeaseExpires, HeartbeatRenews,
           Close, vars
      <3>3. ChatOf(j) = Current(r) /\ job[j].status = "running"
        BY <1>1, <2>1, <2>2, <2>4, <3>2 DEF Import
      <3>4. Active(j) \/ j \in missed
        BY <3>3 DEF AdmissionInv, Active, EffectivelyActive
      <3>5. Admitting(r)
        BY <2>1 DEF FoundNothing, Admitting
      <3>6. NewcomerExcused(r, j)
        BY <3>3, <3>4, <3>5 DEF AdmissionInv, NewcomerExcused
      <3> QED
        BY <1>2, <2>1, <3>3, <3>6 DEF HasNewcomer, NewcomerExcused
    <2> QED
      BY <2>3, <2>4
  <1>4. CASE request'[r] # request[r]
    <2>1. \/ ListActive(r) \/ CountByStatus(r) \/ Summarize(r) \/ ReadCheckpoint(r)
          \/ Enqueue(r) \/ BotCrash
          \/ \E policy \in Policy, scope \in Scopes : Submit(r, policy, scope)
      <3>1. request' # request
        BY <1>4
      <3>2. \/ \E s \in Requests :
                 \/ ListActive(s) \/ CountByStatus(s) \/ Summarize(s) \/ ReadCheckpoint(s)
                 \/ Enqueue(s)
                 \/ \E policy \in Policy, scope \in Scopes : Submit(s, policy, scope)
            \/ BotCrash
        BY <3>1 DEF Next, BotStep, WorkerStep, Cancel, Claim, LeaseExpires, HeartbeatRenews,
           Import, Close, vars
      <3>3. ASSUME NEW s \in Requests, s # r, NEW new, request' = [request EXCEPT ![s] = new]
            PROVE  FALSE
        BY <1>1, <1>4, <3>3
      <3>4. ASSUME NEW s \in Requests, Settle(s) PROVE s = r
        BY <3>3, <3>4 DEF Settle
      <3>5. ASSUME NEW s \in Requests, NEW phase, GoTo(s, phase) PROVE s = r
        BY <3>3, <3>5 DEF GoTo
      <3>6. ASSUME NEW s \in Requests,
                   \/ ListActive(s) \/ CountByStatus(s) \/ ReadCheckpoint(s) \/ Enqueue(s)
            PROVE  s = r
        BY <3>4, <3>5, <3>6 DEF ListActive, CountByStatus, ReadCheckpoint, Enqueue
      <3>7. ASSUME NEW s \in Requests,
                   \/ Summarize(s)
                   \/ \E policy \in Policy, scope \in Scopes : Submit(s, policy, scope)
            PROVE  s = r
        BY <3>3, <3>7 DEF Summarize, Submit
      <3> QED
        BY <3>2, <3>6, <3>7
    <2>2. ~Settle(r)
      <3>1. Settle(r) => request'[r].phase \in {"done", "list_active"}
        BY <1>1 DEF Settle, Request
      <3>2. request'[r].phase \notin {"done", "list_active"}
        BY DEF FoundNothing
      <3> QED
        BY <3>1, <3>2
    <2>3. CASE Summarize(r)
      BY <1>1, <2>3 DEF Summarize, FoundNothing, Current, Request
    <2>4. CASE ReadCheckpoint(r)
      <3>1. /\ request[r].phase = "checkpoint" /\ progress' = progress
            /\ ~Refused(request[r].mapped, progress[Current(r)].checkpoint, request[r].policy)
            /\ request' = [request EXCEPT ![r] = [@ EXCEPT !.phase = "enqueue"]]
        BY <2>2, <2>4 DEF ReadCheckpoint, GoTo
      <3>2. Current(r)' = Current(r) /\ request'[r].policy = request[r].policy
            /\ request'[r].phase = "enqueue"
        BY <1>1, <3>1 DEF Current, Request
      <3>3. ~request[r].mapped
        BY <3>1, <3>2 DEF FoundNothing, Refused
      <3>4. HasNewcomer(r)
        BY <3>1, <3>2, <3>3 DEF AskInv, FoundNothing
      <3> QED
        BY <1>2, <3>2, <3>4 DEF HasNewcomer, NewcomerExcused
    <2>5. ~(ListActive(r) \/ CountByStatus(r) \/ Enqueue(r) \/ BotCrash)
      BY <1>1, <2>2 DEF ListActive, CountByStatus, Enqueue, BotCrash, GoTo, FoundNothing,
         Request, InFlight
    <2>6. ASSUME NEW policy \in Policy, NEW scope \in Scopes, Submit(r, policy, scope)
          PROVE  FALSE
      BY <1>1, <2>6 DEF Submit, FoundNothing
    <2> QED
      BY <2>1, <2>3, <2>4, <2>5, <2>6
  <1> QED
    BY <1>3, <1>4

\* A command that asks first is not carried out over progress that the registry
\* shows, unless a job came in beside it or a lease had run out.
THEOREM CommandsAskBeforeResume == Spec => AskedBeforeResume
  <1>1. ASSUME AdmissionInv, AskInv, [Next]_vars, NEW r \in Requests,
               request[r].phase = "enqueue", request[r].policy = "ask",
               progress[Current(r)].mapped
        PROVE  \E j \in Jobs : /\ ChatOf(j) = Current(r)
                               /\ \/ <<Requester(j), r>> \in together
                                  \/ j \in missed
    BY <1>1 DEF AskInv, FoundNothing, HasNewcomer, NewcomerExcused
  <1> DEFINE Asked ==
        \A r \in Requests :
           /\ request[r].phase = "enqueue" /\ job'[Key(r)].status = "queued"
           /\ request[r].policy = "ask"
           /\ progress[Current(r)].mapped
           => \E j \in Jobs : /\ ChatOf(j) = Current(r)
                              /\ \/ <<Requester(j), r>> \in together
                                 \/ j \in missed
  <1>2. AdmissionInv /\ AskInv /\ [Next]_vars => [Asked]_vars
    BY <1>1
  <1>3. Spec => [][Asked]_vars
    BY AdmissionInvInit, AdmissionInvStep, AskInvInit, AskInvStep, <1>2, PTL DEF Spec
  <1> QED
    BY <1>3 DEF AskedBeforeResume

-----------------------------------------------------------------------------
(* The limit of the queue.                                                 *)

Waiting == InStatus("queued")

\* The commands that have found room in the queue for the chat at hand.
Past == {r \in Requests : request[r].phase \in {"summarize", "checkpoint", "enqueue"}}

\* The strengthening counts the jobs that are queued and those that may still be,
\* with the commands that were let through before them.
QueueInv ==
  /\ Cardinality(InFlight) <= peak
  /\ MaxQueued > 0 => Cardinality(Waiting) + Cardinality(Past) < MaxQueued + peak

LEMMA WaitingFinite == IsFiniteSet(Waiting) /\ Cardinality(Waiting) \in Nat
  <1>1. IsFiniteSet(Jobs)
    BY AdmissionAssumption, FS_Product DEF Jobs
  <1>2. Waiting \in SUBSET Jobs
    BY DEF Waiting, InStatus
  <1> QED
    BY <1>1, <1>2, FS_Subset, FS_CardinalityType

LEMMA PastFinite ==
  /\ IsFiniteSet(Past) /\ Cardinality(Past) \in Nat
  /\ Cardinality(Past) <= Cardinality(InFlight)
  <1>1. Past \in SUBSET InFlight
    BY DEF Past, InFlight
  <1> QED
    BY <1>1, InFlightFinite, FS_Subset, FS_CardinalityType

LEMMA LimitTyped == MaxQueued \in Nat
  BY AdmissionAssumption

LEMMA QueueInvInit == Init => QueueInv
  <1> SUFFICES ASSUME Init PROVE QueueInv
    OBVIOUS
  <1>1. InFlight = {} /\ Waiting = {} /\ Past = {}
    BY DEF Init, InFlight, Waiting, InStatus, Past, AbsentRow
  <1>2. peak = 0 /\ Cardinality({}) = 0
    BY FS_EmptySet DEF Init
  <1> QED
    BY <1>1, <1>2, LimitTyped DEF QueueInv

\* A step that lets nobody through and queues nothing.
LEMMA NothingComes ==
  ASSUME TypeOK, QueueInv, InFlight' \subseteq InFlight, Waiting' \subseteq Waiting,
         Past' \subseteq Past, peak' = peak
  PROVE  QueueInv'
  <1>1. /\ Cardinality(InFlight') <= Cardinality(InFlight)
        /\ Cardinality(Waiting') <= Cardinality(Waiting)
        /\ Cardinality(Past') <= Cardinality(Past)
        /\ Cardinality(InFlight') \in Nat /\ Cardinality(Waiting') \in Nat
        /\ Cardinality(Past') \in Nat
    <2>1. IsFiniteSet(InFlight) /\ IsFiniteSet(Waiting) /\ IsFiniteSet(Past)
      BY InFlightFinite, WaitingFinite, PastFinite
    <2> QED
      BY <2>1, FS_Subset, FS_CardinalityType
  <1>2. peak \in Nat
    BY InFlightFinite, FS_CardinalityType, AdmissionAssumption DEF TypeOK
  <1> QED
    BY <1>1, <1>2, InFlightFinite, WaitingFinite, PastFinite, LimitTyped DEF QueueInv

\* A command that goes on to a phase before the count is taken, or is over.
LEMMA CommandLeaves ==
  ASSUME TypeOK, QueueInv, UNCHANGED <<job, peak>>, NEW r \in InFlight,
         \A s \in Requests \ {r} : request'[s] = request[s],
         request'[r].phase \in {"list_active", "count", "done"}
  PROVE  QueueInv'
  <1>1. InFlight' \subseteq InFlight /\ Past' \subseteq Past /\ Waiting' = Waiting
    BY DEF InFlight, Past, Waiting, InStatus
  <1> QED
    BY <1>1, NothingComes

LEMMA SettleLeaves ==
  ASSUME TypeOK, NEW r \in InFlight, Settle(r)
  PROVE  /\ \A s \in Requests \ {r} : request'[s] = request[s]
         /\ request'[r].phase \in {"list_active", "done"}
  BY DEF Settle, TypeOK, Request, InFlight

LEMMA GoToLeads ==
  ASSUME TypeOK, NEW r \in InFlight, NEW phase, GoTo(r, phase)
  PROVE  /\ \A s \in Requests \ {r} : request'[s] = request[s]
         /\ request'[r].phase = phase
  BY DEF GoTo, TypeOK, Request, InFlight

LEMMA SubmitCounts ==
  ASSUME TypeOK, QueueInv, NEW r \in Requests, NEW policy \in Policy, NEW scope \in Scopes,
         Submit(r, policy, scope)
  PROVE  QueueInv'
  <1>1. r \in Requests \ InFlight
    BY DEF Submit, InFlight
  <1>2. InFlight' = InFlight \cup {r} /\ Past' = Past /\ Waiting' = Waiting
    BY DEF Submit, InFlight, Past, Waiting, InStatus, TypeOK
  <1>3. Cardinality(InFlight') = Cardinality(InFlight) + 1
    BY <1>1, <1>2, InFlightFinite
  <1>4. peak \in Nat /\ peak' \in Nat /\ peak' >= peak /\ peak' >= Cardinality(InFlight) + 1
    BY InFlightFinite, FS_CardinalityType, AdmissionAssumption DEF TypeOK, Submit
  <1> QED
    BY <1>2, <1>3, <1>4, InFlightFinite, WaitingFinite, PastFinite, LimitTyped DEF QueueInv

\* The count: a command that is let through finds less than the limit.
LEMMA CountCounts ==
  ASSUME TypeOK, QueueInv, NEW r \in Requests, CountByStatus(r)
  PROVE  QueueInv'
  <1>1. r \in InFlight
    BY DEF CountByStatus, InFlight
  <1>2. UNCHANGED <<job, peak>>
    BY DEF CountByStatus
  <1>3. CASE Backpressure
    <2>1. Settle(r)
      BY <1>3 DEF CountByStatus
    <2> QED
      BY <1>1, <1>2, <2>1, SettleLeaves, CommandLeaves
  <1>4. CASE ~Backpressure
    <2>1. GoTo(r, "summarize")
      BY <1>4 DEF CountByStatus
    <2>2. InFlight' = InFlight /\ Waiting' = Waiting
      BY <1>1, <1>2, <2>1, GoToLeads DEF InFlight, Waiting, InStatus
    <2>3. IsFiniteSet(Past') /\ Cardinality(Past') \in Nat
          /\ Cardinality(Past') <= Cardinality(InFlight')
      <3>1. Past' \in SUBSET InFlight'
        BY DEF Past, InFlight
      <3> QED
        BY <2>2, <3>1, InFlightFinite, FS_Subset, FS_CardinalityType
    <2>4. MaxQueued > 0 => Cardinality(Waiting) < MaxQueued
      BY <1>4, WaitingFinite, LimitTyped DEF Backpressure, Waiting
    <2>5. peak \in Nat
      BY InFlightFinite, FS_CardinalityType, AdmissionAssumption DEF TypeOK
    <2> QED
      BY <1>2, <2>2, <2>3, <2>4, <2>5, InFlightFinite, WaitingFinite, LimitTyped
         DEF QueueInv
  <1> QED
    BY <1>3, <1>4

\* The enqueue: one more job waits, one command less may enqueue.
LEMMA EnqueueCounts ==
  ASSUME TypeOK, QueueInv, NEW r \in Requests, Enqueue(r)
  PROVE  QueueInv'
  <1>1. r \in InFlight /\ r \in Past
    BY DEF Enqueue, InFlight, Past
  <1>2. Settle(r) /\ peak' = peak /\ job' = [job EXCEPT ![Key(r)] = QueuedRow]
    BY DEF Enqueue
  <1>3. InFlight' \subseteq InFlight /\ Past' = Past \ {r}
    BY <1>1, <1>2, SettleLeaves DEF InFlight, Past
  <1>4. Waiting' \in SUBSET (Waiting \cup {Key(r)})
    BY <1>2 DEF Waiting, InStatus, TypeOK
  <1>5. Cardinality(Past') = Cardinality(Past) - 1
    BY <1>1, <1>3, PastFinite, FS_RemoveElement
  <1>6. Cardinality(Waiting') <= Cardinality(Waiting) + 1 /\ Cardinality(Waiting') \in Nat
    <2>1. IsFiniteSet(Waiting \cup {Key(r)})
          /\ Cardinality(Waiting \cup {Key(r)}) <= Cardinality(Waiting) + 1
      <3> DEFINE k == Key(r)
                 more == Waiting \cup {k}
      <3>1. /\ IsFiniteSet(more)
            /\ Cardinality(more) =
                 IF k \in Waiting THEN Cardinality(Waiting) ELSE Cardinality(Waiting) + 1
        <4> HIDE DEF k
        <4> QED
          BY WaitingFinite, FS_AddElement
      <3>2. Cardinality(more) <= Cardinality(Waiting) + 1
        <4> HIDE DEF more, k
        <4> QED
          BY <3>1, WaitingFinite
      <3> QED
        BY <3>1, <3>2
    <2>2. Cardinality(Waiting \cup {Key(r)}) \in Nat
      BY <2>1, FS_CardinalityType
    <2>3. IsFiniteSet(Waiting') /\ Cardinality(Waiting') <= Cardinality(Waiting \cup {Key(r)})
      BY <1>4, <2>1, FS_Subset
    <2> QED
      BY <2>1, <2>2, <2>3, WaitingFinite, FS_CardinalityType
  <1>7. Cardinality(InFlight') <= Cardinality(InFlight) /\ Cardinality(InFlight') \in Nat
    BY <1>3, InFlightFinite, FS_Subset, FS_CardinalityType
  <1>8. peak \in Nat
    BY InFlightFinite, FS_CardinalityType, AdmissionAssumption DEF TypeOK
  <1> QED
    BY <1>2, <1>5, <1>6, <1>7, <1>8, InFlightFinite, WaitingFinite, PastFinite, LimitTyped
       DEF QueueInv

LEMMA QueueInvStep == TypeOK /\ QueueInv /\ [Next]_vars => QueueInv'
  <1> SUFFICES ASSUME TypeOK, QueueInv, [Next]_vars PROVE QueueInv'
    OBVIOUS
  <1>1. CASE UNCHANGED vars
    BY <1>1, NothingComes DEF vars, InFlight, Past, Waiting, InStatus
  <1>2. ASSUME NEW r \in Requests, NEW policy \in Policy, NEW scope \in Scopes,
               Submit(r, policy, scope)
        PROVE  QueueInv'
    BY <1>2, SubmitCounts
  <1>3. ASSUME NEW r \in Requests, ListActive(r) PROVE QueueInv'
    <2>1. r \in InFlight /\ UNCHANGED <<job, peak>>
      BY <1>3 DEF ListActive, InFlight
    <2>2. Settle(r) \/ GoTo(r, "count")
      BY <1>3 DEF ListActive
    <2> QED
      BY <2>1, <2>2, SettleLeaves, GoToLeads, CommandLeaves
  <1>4. ASSUME NEW r \in Requests, CountByStatus(r) PROVE QueueInv'
    BY <1>4, CountCounts
  <1>5. ASSUME NEW r \in Requests, Summarize(r) PROVE QueueInv'
    <2>1. InFlight' = InFlight /\ Past' = Past /\ Waiting' = Waiting /\ peak' = peak
      BY <1>5 DEF Summarize, InFlight, Past, Waiting, InStatus, TypeOK, Request
    <2> QED
      BY <2>1, NothingComes
  <1>6. ASSUME NEW r \in Requests, ReadCheckpoint(r) PROVE QueueInv'
    <2>1. r \in InFlight /\ r \in Past /\ UNCHANGED <<job, peak>>
      BY <1>6 DEF ReadCheckpoint, InFlight, Past
    <2>2. CASE Settle(r)
      BY <2>1, <2>2, SettleLeaves, CommandLeaves
    <2>3. CASE GoTo(r, "enqueue")
      <3>1. InFlight' \subseteq InFlight /\ Past' \subseteq Past /\ Waiting' = Waiting
        BY <2>1, <2>3, GoToLeads DEF InFlight, Past, Waiting, InStatus
      <3> QED
        BY <2>1, <3>1, NothingComes
    <2> QED
      BY <1>6, <2>2, <2>3 DEF ReadCheckpoint
  <1>7. ASSUME NEW r \in Requests, Enqueue(r) PROVE QueueInv'
    BY <1>7, EnqueueCounts
  <1>8. CASE BotCrash
    <2>1. InFlight' \subseteq InFlight /\ Past' \subseteq Past /\ Waiting' = Waiting
          /\ peak' = peak
      BY <1>8 DEF BotCrash, InFlight, Past, Waiting, InStatus, TypeOK, Request
    <2> QED
      BY <2>1, NothingComes
  <1>9. ASSUME NEW j \in Jobs,
               \/ Cancel(j) \/ LeaseExpires(j) \/ HeartbeatRenews(j) \/ Import(j) \/ Close(j)
               \/ \E w \in Workers : Claim(j, w)
        PROVE  QueueInv'
    <2>1. UNCHANGED <<request, peak>>
      BY <1>9 DEF Cancel, LeaseExpires, HeartbeatRenews, Import, Close, Claim
    <2>2. job[j] \in Rows /\ job \in [Jobs -> Rows]
      BY DEF TypeOK, Rows
    <2>3. ASSUME NEW row, job' = [job EXCEPT ![j] = row],
                 row.status = "queued" => job[j].status = "queued"
          PROVE  Waiting' \subseteq Waiting
      BY <2>2, <2>3 DEF Waiting, InStatus
    <2>4. Waiting' \subseteq Waiting
      <3>1. CASE Import(j)
        BY <3>1 DEF Import, Waiting, InStatus
      <3>2. CASE Cancel(j)
        BY <2>2, <2>3, <3>2 DEF Cancel, CancelRequested, Rows, JobRow
      <3>3. CASE LeaseExpires(j)
        BY <2>2, <2>3, <3>3 DEF LeaseExpires, Lapsed, Rows, JobRow
      <3>4. CASE HeartbeatRenews(j)
        BY <2>2, <2>3, <3>4 DEF HeartbeatRenews, Renewed, Owns, Rows, JobRow
      <3>5. CASE Close(j)
        <4>1. PICK row : /\ job' = [job EXCEPT ![j] = row]
                         /\ row.status \in {"completed", "failed"}
          BY <2>2, <3>5, ClosedRow
        <4> QED
          BY <2>3, <4>1
      <3>6. CASE \E w \in Workers : Claim(j, w)
        BY <2>3, <3>6 DEF Claim, ClaimedBy
      <3> QED
        BY <1>9, <3>1, <3>2, <3>3, <3>4, <3>5, <3>6
    <2>5. InFlight' = InFlight /\ Past' = Past
      BY <2>1 DEF InFlight, Past
    <2> QED
      BY <2>1, <2>4, <2>5, NothingComes
  <1> QED
    BY <1>1, <1>2, <1>3, <1>4, <1>5, <1>6, <1>7, <1>8, <1>9 DEF Next, BotStep, WorkerStep

\* The queue exceeds its threshold by no more than the commands that were in flight
\* at one time, for every threshold and any number of chats per command.
THEOREM QueueStaysBounded == Spec => []QueueIsBounded
  <1>1. TypeOK /\ QueueInv => QueueIsBounded
    <2> SUFFICES ASSUME TypeOK, QueueInv, MaxQueued > 0
                 PROVE  Cardinality(Waiting) < MaxQueued + peak
      BY DEF QueueIsBounded, Waiting
    <2>1. peak \in Nat
      BY InFlightFinite, FS_CardinalityType, AdmissionAssumption DEF TypeOK
    <2> QED
      BY <2>1, WaitingFinite, PastFinite, LimitTyped DEF QueueInv
  <1>2. TypeOK /\ QueueInv /\ [Next]_vars => TypeOK' /\ QueueInv'
    BY TypeStep, QueueInvStep
  <1> QED
    BY TypeInit, QueueInvInit, <1>1, <1>2, PTL DEF Spec

=============================================================================
