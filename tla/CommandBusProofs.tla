--------------------------- MODULE CommandBusProofs ---------------------------
(***************************************************************************)
(* Proofs about CommandBus: the outbox publisher, and that it delivers     *)
(* what CommandConsumer assumes of the command topic.  They hold for every *)
(* set of jobs, any number of incarnations, every size of a batch and      *)
(* every bound.                                                            *)
(***************************************************************************)
EXTENDS CommandBus, FiniteSetTheorems, SequenceTheorems, TLAPS

\* The instances count with the operator of FiniteSets.
LEMMA SameCardinality ==
  \A S : P!Cardinality(S) = Cardinality(S) /\ C!Cardinality(S) = Cardinality(S)
  BY Zenon DEF P!Cardinality, C!Cardinality, Cardinality

-----------------------------------------------------------------------------
(* Every step of the bus is a step of the publisher or leaves it alone.    *)

LEMMA PublisherStepMaps == [Next]_vars => [P!Next]_(P!vars)
  <1> SUFFICES ASSUME [Next]_vars PROVE [P!Next]_(P!vars)
    OBVIOUS
  <1>1. ASSUME NEW j \in Jobs, Enqueue(j) PROVE P!Next
    BY <1>1 DEF Enqueue, P!Next
  <1>2. ASSUME NEW w \in Workers, StartProcess(w) \/ StopProcess(w) \/ CrashProcess(w)
        PROVE  P!Next
    BY <1>2 DEF StartProcess, StopProcess, CrashProcess, P!Next, P!ProcessStep
  <1>3. CASE PublisherStep
    BY <1>3 DEF PublisherStep, P!Next
  <1>4. CASE ConsumerStep
    <2>1. topic' = topic
      BY <1>4
         DEF ConsumerStep, C!JobStep, C!GroupStep, C!HandlerStep, C!LoopStep,
             C!RequestCancel, C!LeaseLapses, C!LeaseStalls, C!Assign, C!Evict,
             C!PollIntervalExceeded, C!HeartbeatRenews, C!Poll, C!IsProcessed, C!Claim,
             C!ClaimAnswerLost, C!CallRaises, C!ExecutionReturns, C!ExecutionRaises,
             C!MarkCompleted, C!MarkFailed, C!MarkCancelled, C!HeartbeatCancels,
             C!MarkProcessed, C!Seek, C!Commit, C!LoopDies
    <2> QED
      BY <1>4, <2>1 DEF ConsumerStep, publisherVars, P!vars
  <1>5. CASE UNCHANGED vars
    BY <1>5 DEF vars, publisherVars, P!vars
  <1> QED
    BY <1>1, <1>2, <1>3, <1>4, <1>5 DEF Next

-----------------------------------------------------------------------------
(* The types of the publisher.  An event is listed once in created, so it  *)
(* is once in a batch.                                                     *)

Batch(w) == publisher[w].batch

CreatedInv ==
  \A i \in DOMAIN created :
     /\ outbox[created[i]].status # "absent"
     /\ \A k \in DOMAIN created : created[i] = created[k] => i = k

RowInv == \A j \in Jobs : outbox[j].status = "absent" => outbox[j].leases = 0

\* A batch that is being worked on is not empty, lists no event twice, and only
\* events that were written.
BatchInv ==
  \A w \in Workers : P!AtWork(w) =>
     /\ Batch(w) # <<>>
     /\ \A m \in DOMAIN Batch(w) :
          /\ outbox[Batch(w)[m]].status # "absent"
          /\ \A n \in DOMAIN Batch(w) : Batch(w)[m] = Batch(w)[n] => m = n

HeldInv == \A w \in Workers : \A s \in held[w] : outbox[s[1]].status # "absent"

PublisherInv == P!TypeOK /\ CreatedInv /\ RowInv /\ BatchInv /\ HeldInv

LEMMA PublisherInit == P!Init => PublisherInv
  <1> SUFFICES ASSUME P!Init PROVE PublisherInv
    OBVIOUS
  <1>1. P!TypeOK
    BY BusAssumption
       DEF P!PublisherAssumption, P!Init, P!TypeOK, P!AbsentEvent, P!OutboxRow,
           P!OutboxStatus, P!Publisher, P!Stage, P!Send
  <1> QED
    BY <1>1
       DEF P!Init, PublisherInv, CreatedInv, RowInv, BatchInv, HeldInv, P!AbsentEvent,
           P!AtWork

\* What lease_batch takes: leasable events, each of them once.
LEMMA BatchTaken ==
  ASSUME P!TypeOK, CreatedInv, NEW place \in P!OldestLeasable,
         NEW batch, batch = [n \in DOMAIN place |-> created[place[n]]]
  PROVE  /\ batch \in Seq(Jobs)
         /\ \A m \in DOMAIN batch :
              /\ P!Leasable(outbox[batch[m]])
              /\ \A n \in DOMAIN batch : batch[m] = batch[n] => m = n
  <1> DEFINE due == {i \in DOMAIN created : P!Leasable(outbox[created[i]])}
             size == IF Cardinality(due) < BatchSize THEN Cardinality(due) ELSE BatchSize
  <1>1. /\ place \in [1 .. size -> due]
        /\ \A m, n \in 1 .. size : m < n => place[m] < place[n]
    BY SameCardinality, Zenon DEF P!OldestLeasable
  <1>2. created \in Seq(Jobs)
    BY DEF P!TypeOK
  <1>3. size \in Nat
    <2>1. due \subseteq 1 .. Len(created) /\ Len(created) \in Nat
      BY <1>2
    <2>2. IsFiniteSet(1 .. Len(created))
      BY <2>1, FS_Interval
    <2>3. IsFiniteSet(due)
      BY <2>1, <2>2, FS_Subset
    <2>4. Cardinality(due) \in Nat
      BY <2>3, FS_CardinalityType
    <2> HIDE DEF due
    <2> QED
      BY <2>4, BusAssumption DEF P!PublisherAssumption
  <1> HIDE DEF size
  <1>4. /\ DOMAIN batch = 1 .. size
        /\ \A n \in 1 .. size : batch[n] = created[place[n]] /\ place[n] \in due
    BY <1>1
  <1>5. batch \in Seq(Jobs)
    <2>1. batch \in [1 .. size -> Jobs]
      BY <1>1, <1>2, <1>4
    <2> QED
      BY <1>3, <2>1
  <1>6. ASSUME NEW m \in 1 .. size, NEW n \in 1 .. size, batch[m] = batch[n] PROVE m = n
    <2>1. place[m] = place[n]
      BY <1>4, <1>6 DEF CreatedInv
    <2>2. place[m] \in Nat /\ place[n] \in Nat
      BY <1>2, <1>4
    <2> QED
      BY <1>1, <1>3, <2>1, <2>2
  <1> QED
    BY <1>4, <1>5, <1>6

LEMMA SetStageEffect ==
  ASSUME P!TypeOK, NEW p \in Workers, NEW stage \in P!Stage, P!SetStage(p, stage)
  PROVE  /\ publisher' \in [Workers -> P!Publisher]
         /\ publisher'[p].stage = stage
         /\ publisher'[p].batch = publisher[p].batch
         /\ \A q \in Workers \ {p} : publisher'[q] = publisher[q]
  BY DEF P!TypeOK, P!SetStage, P!Publisher

LEMMA LeaveEffect ==
  ASSUME P!TypeOK, NEW p \in Workers, NEW stage \in P!Stage, P!Leave(p, stage)
  PROVE  /\ publisher' \in [Workers -> P!Publisher]
         /\ publisher'[p].stage = stage
         /\ publisher'[p].batch = <<>>
         /\ \A q \in Workers \ {p} : publisher'[q] = publisher[q]
  BY DEF P!TypeOK, P!Leave, P!Publisher

LEMMA NextInBatchEffect ==
  ASSUME P!TypeOK, NEW p \in Workers, P!AtWork(p), BatchInv, P!NextInBatch(p)
  PROVE  /\ publisher' \in [Workers -> P!Publisher]
         /\ publisher'[p].stage = IF Len(Batch(p)) = 1 THEN "idle" ELSE "sending"
         /\ Batch(p)' \in Seq(Jobs)
         /\ Len(Batch(p)) \in Nat \ {0}
         /\ Len(Batch(p)') = Len(Batch(p)) - 1
         /\ \A n \in 1 .. Len(Batch(p)) - 1 : Batch(p)'[n] = Batch(p)[n + 1]
         /\ \A q \in Workers \ {p} : publisher'[q] = publisher[q]
  <1> DEFINE rest == Tail(publisher[p].batch)
             new  == [stage |-> IF rest = <<>> THEN "idle" ELSE "sending", batch |-> rest]
  <1>1. Batch(p) \in Seq(Jobs) /\ Batch(p) # <<>>
    BY DEF P!TypeOK, P!Publisher, BatchInv, Batch
  <1>2. /\ rest \in Seq(Jobs)
        /\ Len(Batch(p)) \in Nat \ {0}
        /\ Len(rest) = Len(Batch(p)) - 1
        /\ \A n \in 1 .. Len(Batch(p)) - 1 : rest[n] = Batch(p)[n + 1]
    BY <1>1 DEF Batch
  <1>3. rest = <<>> <=> Len(Batch(p)) = 1
    <2> HIDE DEF rest
    <2>1. rest = <<>> => Len(rest) = 0
      BY EmptySeq
    <2>2. rest # <<>> => Len(rest) \in Nat \ {0}
      BY <1>2, EmptySeq
    <2> QED
      BY <1>2, <2>1, <2>2
  <1>4. new \in P!Publisher
    BY <1>2 DEF P!Publisher, P!Stage
  <1>5. publisher' = [publisher EXCEPT ![p] = new]
    BY DEF P!NextInBatch
  <1>6. new.batch = rest /\ new.stage = IF rest = <<>> THEN "idle" ELSE "sending"
    OBVIOUS
  <1> HIDE DEF rest, new
  <1>7. publisher'[p] = new /\ publisher' \in [Workers -> P!Publisher]
    BY <1>4, <1>5 DEF P!TypeOK
  <1>8. Batch(p)' = rest
    BY <1>6, <1>7 DEF Batch
  <1> QED
    BY <1>2, <1>3, <1>5, <1>6, <1>7, <1>8 DEF P!TypeOK

LEMMA MarkEffect ==
  ASSUME P!TypeOK, NEW p \in Workers, NEW status \in {"published", "failed"},
         P!Mark(p, status)
  PROVE  /\ outbox' \in [Jobs -> P!OutboxRow]
         /\ \A j \in Jobs :
              /\ (outbox'[j].status = "leased") <=> (outbox'[j].owner # NoWorker)
              /\ outbox'[j].leases = outbox[j].leases
              /\ outbox'[j].status = "absent" <=> outbox[j].status = "absent"
              /\ \/ outbox'[j] = outbox[j]
                 \/ /\ j = P!Event(p)
                    /\ outbox[j].status = "leased"
                    /\ outbox'[j].status = status
  <1>1. CASE outbox' = outbox
    BY <1>1 DEF P!TypeOK
  <1>2. CASE outbox' # outbox
    <2> DEFINE e == P!Event(p)
               new == P!Marked(outbox[e], status)
    <2>1. e \in Jobs /\ P!Holds(outbox[e], p) /\ outbox' = [outbox EXCEPT ![e] = new]
      BY <1>2 DEF P!TypeOK, P!Mark
    <2>2. outbox[e] \in P!OutboxRow /\ outbox[e].status = "leased"
      BY <2>1 DEF P!TypeOK, P!Holds
    <2>3. new \in P!OutboxRow
      BY <2>2 DEF P!Marked, P!OutboxRow, P!OutboxStatus
    <2>4. new.status = status /\ new.owner = NoWorker /\ new.leases = outbox[e].leases
      BY <2>2 DEF P!Marked, P!OutboxRow
    <2> HIDE DEF e, new
    <2>5. /\ outbox' \in [Jobs -> P!OutboxRow]
          /\ outbox'[e] = new
          /\ \A j \in Jobs \ {e} : outbox'[j] = outbox[j]
      BY <2>1, <2>3 DEF P!TypeOK
    <2>6. \A j \in Jobs : (outbox[j].status = "leased") <=> (outbox[j].owner # NoWorker)
      BY DEF P!TypeOK
    <2> QED
      BY <2>1, <2>2, <2>4, <2>5, <2>6 DEF e
  <1> QED
    BY <1>1, <1>2

LEMMA TakeEffect ==
  ASSUME P!TypeOK, CreatedInv, NEW p \in Workers, P!LeaseBatch(p)
  PROVE  /\ outbox' \in [Jobs -> P!OutboxRow]
         /\ publisher' \in [Workers -> P!Publisher]
         /\ publisher'[p].stage = "sending"
         /\ Batch(p)' # <<>>
         /\ \A q \in Workers \ {p} : publisher'[q] = publisher[q]
         /\ \A m \in DOMAIN Batch(p)' :
              /\ Batch(p)'[m] \in Jobs
              /\ \A n \in DOMAIN Batch(p)' : Batch(p)'[m] = Batch(p)'[n] => m = n
         /\ \A j \in Jobs :
              /\ (outbox'[j].status = "leased") <=> (outbox'[j].owner # NoWorker)
              /\ \/ /\ outbox'[j] = outbox[j]
                    /\ \A m \in DOMAIN Batch(p)' : Batch(p)'[m] # j
                 \/ /\ P!Leasable(outbox[j])
                    /\ outbox'[j].status = "leased"
                    /\ outbox'[j].leases = outbox[j].leases + 1
  <1>1. PICK place \in P!OldestLeasable :
           P!Take(p, [n \in DOMAIN place |-> created[place[n]]])
    BY DEF P!LeaseBatch
  <1> DEFINE batch == [n \in DOMAIN place |-> created[place[n]]]
             Taken(j) == \E n \in DOMAIN batch : batch[n] = j
             new == [stage |-> "sending", batch |-> batch]
             row(j) == [status |-> "leased", owner |-> p, lease |-> "live",
                        leases |-> outbox[j].leases + 1]
  <1>2. /\ batch \in Seq(Jobs)
        /\ \A m \in DOMAIN batch :
             /\ P!Leasable(outbox[batch[m]])
             /\ \A n \in DOMAIN batch : batch[m] = batch[n] => m = n
    BY BatchTaken
  <1> HIDE DEF batch
  <1>3. /\ batch # <<>>
        /\ \A j \in Jobs : Taken(j) => outbox[j].leases < MaxLeases
        /\ outbox' = [j \in Jobs |-> IF Taken(j) THEN row(j) ELSE outbox[j]]
        /\ publisher' = [publisher EXCEPT ![p] = new]
    BY <1>1 DEF P!Take, batch
  <1>4. new \in P!Publisher /\ new.stage = "sending" /\ new.batch = batch
    BY <1>2 DEF P!Publisher, P!Stage
  <1>5. ASSUME NEW j \in Jobs, Taken(j)
        PROVE  /\ row(j) \in P!OutboxRow
               /\ row(j).status = "leased"
               /\ row(j).owner = p
               /\ row(j).leases = outbox[j].leases + 1
               /\ P!Leasable(outbox[j])
    <2>1. outbox[j].leases \in 0 .. MaxLeases /\ outbox[j].leases < MaxLeases
      BY <1>3, <1>5 DEF P!TypeOK, P!OutboxRow
    <2>2. outbox[j].leases + 1 \in 0 .. MaxLeases
      BY <2>1, BusAssumption DEF P!PublisherAssumption
    <2> QED
      BY <1>2, <1>5, <2>2 DEF P!OutboxRow, P!OutboxStatus
  <1> HIDE DEF new, row
  <1>6. publisher'[p] = new /\ publisher' \in [Workers -> P!Publisher]
    BY <1>3, <1>4 DEF P!TypeOK
  <1>7. Batch(p)' = batch
    BY <1>4, <1>6 DEF Batch
  <1>8. outbox' \in [Jobs -> P!OutboxRow]
    BY <1>3, <1>5 DEF P!TypeOK
  <1>9. \A j \in Jobs :
              /\ (outbox'[j].status = "leased") <=> (outbox'[j].owner # NoWorker)
              /\ \/ /\ outbox'[j] = outbox[j]
                    /\ \A m \in DOMAIN batch : batch[m] # j
                 \/ /\ P!Leasable(outbox[j])
                    /\ outbox'[j].status = "leased"
                    /\ outbox'[j].leases = outbox[j].leases + 1
    <2> SUFFICES ASSUME NEW j \in Jobs
                 PROVE  /\ (outbox'[j].status = "leased") <=> (outbox'[j].owner # NoWorker)
                        /\ \/ /\ outbox'[j] = outbox[j]
                              /\ ~Taken(j)
                           \/ /\ P!Leasable(outbox[j])
                              /\ outbox'[j].status = "leased"
                              /\ outbox'[j].leases = outbox[j].leases + 1
      OBVIOUS
    <2>1. CASE Taken(j)
      <3>1. outbox'[j] = row(j)
        BY <1>3, <2>1
      <3>2. p # NoWorker
        BY BusAssumption DEF P!PublisherAssumption
      <3> QED
        BY <1>5, <2>1, <3>1, <3>2
    <2>2. CASE ~Taken(j)
      BY <1>3, <2>2 DEF P!TypeOK
    <2> QED
      BY <2>1, <2>2
  <1> QED
    BY <1>2, <1>3, <1>4, <1>6, <1>7, <1>8, <1>9

LEMMA AbsentStep ==
  ASSUME PublisherInv, [P!Next]_(P!vars), NEW j \in Jobs
  PROVE  outbox'[j].status = "absent" => outbox[j].status = "absent"
  <1> USE DEF PublisherInv
  <1>1. ASSUME NEW e \in Jobs, P!AppendEvent(e)
        PROVE  outbox'[j].status = "absent" => outbox[j].status = "absent"
    BY <1>1 DEF P!AppendEvent, P!TypeOK
  <1>2. ASSUME NEW e \in Jobs, P!LeaseLapses(e) \/ P!LeaseOverrun(e)
        PROVE  outbox'[j].status = "absent" => outbox[j].status = "absent"
    BY <1>2 DEF P!LeaseLapses, P!LeaseOverrun, P!LeaseRunsOut, P!TypeOK, P!OutboxRow
  <1>3. ASSUME NEW p \in Workers, P!LeaseBatch(p)
        PROVE  outbox'[j].status = "absent" => outbox[j].status = "absent"
    BY <1>3, TakeEffect
  <1>4. ASSUME NEW p \in Workers, P!MarkPublished(p) \/ P!MarkFailed(p)
        PROVE  outbox'[j].status = "absent" => outbox[j].status = "absent"
    BY <1>4, MarkEffect DEF P!MarkPublished, P!MarkFailed
  <1> QED
    BY <1>1, <1>2, <1>3, <1>4
       DEF P!Next, P!TableStep, P!TaskStep, P!ProcessStep, P!BrokerAcks, P!BrokerRefuses,
           P!FlushTimesOut, P!LateDelivery, P!TaskDies, P!Start, P!Stop, P!Crash, P!vars

LEMMA EventTyped ==
  ASSUME PublisherInv, NEW p \in Workers, P!AtWork(p)
  PROVE  /\ P!Event(p) = Batch(p)[1]
         /\ P!Event(p) \in Jobs
         /\ 1 \in DOMAIN Batch(p)
         /\ outbox[P!Event(p)].status # "absent"
         /\ outbox[P!Event(p)].leases \in 0 .. MaxLeases
  <1>1. Batch(p) \in Seq(Jobs) /\ Batch(p) # <<>>
    BY DEF PublisherInv, P!TypeOK, P!Publisher, BatchInv, Batch
  <1>2. P!Event(p) = Batch(p)[1] /\ 1 \in DOMAIN Batch(p) /\ Batch(p)[1] \in Jobs
    BY <1>1, EmptySeq DEF P!Event, Batch
  <1> QED
    BY <1>2 DEF PublisherInv, BatchInv, P!TypeOK, P!OutboxRow

LEMMA TopicGrows ==
  ASSUME P!TypeOK
  PROVE  \A e \in Jobs : Append(topic, e) \in Seq(Jobs)
  BY AppendProperties DEF P!TypeOK

LEMMA PublisherTypeStep ==
  ASSUME PublisherInv, [P!Next]_(P!vars)
  PROVE  P!TypeOK'
  <1> USE DEF PublisherInv, P!TypeOK
  <1>0. MaxPublisherFaults \in Nat /\ NoWorker \notin Workers
    BY BusAssumption DEF P!PublisherAssumption
  <1>1. ASSUME NEW e \in Jobs, P!AppendEvent(e) PROVE P!TypeOK'
    <2>1. /\ [P!AbsentEvent EXCEPT !.status = "pending"] \in P!OutboxRow
          /\ [P!AbsentEvent EXCEPT !.status = "pending"].status = "pending"
          /\ [P!AbsentEvent EXCEPT !.status = "pending"].owner = NoWorker
      BY BusAssumption
         DEF P!PublisherAssumption, P!AbsentEvent, P!OutboxRow, P!OutboxStatus
    <2> QED
      BY <1>1, <2>1 DEF P!AppendEvent
  <1>2. ASSUME NEW e \in Jobs, P!LeaseLapses(e) \/ P!LeaseOverrun(e) PROVE P!TypeOK'
    <2>1. /\ [outbox[e] EXCEPT !.lease = "expired"] \in P!OutboxRow
          /\ [outbox[e] EXCEPT !.lease = "expired"].status = outbox[e].status
          /\ [outbox[e] EXCEPT !.lease = "expired"].owner = outbox[e].owner
      BY DEF P!OutboxRow
    <2>2. /\ outbox' = [outbox EXCEPT ![e] = [outbox[e] EXCEPT !.lease = "expired"]]
          /\ publisherFaults' \in 0 .. MaxPublisherFaults
      BY <1>0, <1>2 DEF P!LeaseLapses, P!LeaseOverrun, P!LeaseRunsOut, P!Fault
    <2> QED
      BY <1>2, <2>1, <2>2 DEF P!LeaseLapses, P!LeaseOverrun
  <1>3. ASSUME NEW p \in Workers, P!LeaseBatch(p) PROVE P!TypeOK'
    BY <1>3, TakeEffect DEF P!LeaseBatch
  <1>4. ASSUME NEW p \in Workers, P!MarkPublished(p) \/ P!MarkFailed(p) PROVE P!TypeOK'
    <2>1. P!AtWork(p)
      BY <1>4 DEF P!MarkPublished, P!MarkFailed, P!AtWork
    <2>2. publisher' \in [Workers -> P!Publisher]
      BY <1>4, <2>1, NextInBatchEffect DEF P!MarkPublished, P!MarkFailed
    <2>3. /\ outbox' \in [Jobs -> P!OutboxRow]
          /\ \A j \in Jobs :
                (outbox'[j].status = "leased") <=> (outbox'[j].owner # NoWorker)
      BY <1>4, MarkEffect DEF P!MarkPublished, P!MarkFailed
    <2> QED
      BY <1>4, <2>2, <2>3 DEF P!MarkPublished, P!MarkFailed
  <1>5. ASSUME NEW p \in Workers, P!BrokerAcks(p) \/ P!BrokerRefuses(p) \/ P!FlushTimesOut(p)
        PROVE  P!TypeOK'
    <2>1. publisher' \in [Workers -> P!Publisher]
      BY <1>5, SetStageEffect DEF P!BrokerAcks, P!BrokerRefuses, P!FlushTimesOut, P!Stage
    <2>2. P!Event(p) \in Jobs /\ outbox[P!Event(p)].leases \in 0 .. MaxLeases
      BY <1>5, EventTyped DEF P!BrokerAcks, P!BrokerRefuses, P!FlushTimesOut, P!AtWork
    <2>3. topic' \in Seq(Jobs) /\ held' \in [Workers -> SUBSET P!Send]
      <3>1. topic' \in {topic, Append(topic, P!Event(p))}
        BY <1>5 DEF P!BrokerAcks, P!BrokerRefuses, P!FlushTimesOut
      <3>2. topic' \in Seq(Jobs)
        BY <2>2, <3>1
      <3> DEFINE s == <<P!Event(p), outbox[P!Event(p)].leases>>
      <3>3. s \in P!Send
        BY <2>2 DEF P!Send
      <3> HIDE DEF s
      <3>4. held' = held \/ held' = [held EXCEPT ![p] = held[p] \cup {s}]
        BY <1>5 DEF P!BrokerAcks, P!BrokerRefuses, P!FlushTimesOut, s
      <3> QED
        BY <3>2, <3>3, <3>4
    <2>4. publisherFaults' \in 0 .. MaxPublisherFaults
      BY <1>0, <1>5 DEF P!BrokerAcks, P!BrokerRefuses, P!FlushTimesOut, P!Fault
    <2> QED
      BY <1>5, <2>1, <2>3, <2>4 DEF P!BrokerAcks, P!BrokerRefuses, P!FlushTimesOut
  <1>6. ASSUME NEW p \in Workers, P!LateDelivery(p) PROVE P!TypeOK'
    <2>1. PICK s \in held[p] : /\ held' = [held EXCEPT ![p] = @ \ {s}]
                               /\ topic' \in {topic, Append(topic, s[1])}
      BY <1>6 DEF P!LateDelivery
    <2>2. s[1] \in Jobs
      BY <2>1 DEF P!Send
    <2>3. topic' \in Seq(Jobs)
      BY <2>1, <2>2, TopicGrows
    <2>4. held' \in [Workers -> SUBSET P!Send]
      BY <2>1
    <2> QED
      BY <1>6, <2>3, <2>4 DEF P!LateDelivery
  <1>7. ASSUME NEW p \in Workers, P!TaskDies(p) \/ P!Stop(p) \/ P!Crash(p) PROVE P!TypeOK'
    <2>1. publisher' \in [Workers -> P!Publisher]
      BY <1>7, LeaveEffect DEF P!TaskDies, P!Stop, P!Crash, P!Stage
    <2>2. publisherFaults' \in 0 .. MaxPublisherFaults
      BY <1>0, <1>7 DEF P!TaskDies, P!Stop, P!Crash, P!Fault
    <2>3. held' \in [Workers -> SUBSET P!Send]
      BY <1>7 DEF P!TaskDies, P!Stop, P!Crash
    <2> QED
      BY <1>7, <2>1, <2>2, <2>3 DEF P!TaskDies, P!Stop, P!Crash
  <1>8. ASSUME NEW p \in Workers, P!Start(p) PROVE P!TypeOK'
    <2>1. [stage |-> "idle", batch |-> <<>>] \in P!Publisher
      BY DEF P!Publisher, P!Stage
    <2> QED
      BY <1>8, <2>1 DEF P!Start
  <1>9. CASE UNCHANGED P!vars
    BY <1>9 DEF P!vars
  <1> QED
    BY <1>1, <1>2, <1>3, <1>4, <1>5, <1>6, <1>7, <1>8, <1>9
       DEF P!Next, P!TableStep, P!TaskStep, P!ProcessStep

LEMMA PublisherInvStep ==
  ASSUME PublisherInv, [P!Next]_(P!vars)
  PROVE  PublisherInv'
  <1>0. /\ P!TypeOK'
        /\ \A j \in Jobs : outbox'[j].status = "absent" => outbox[j].status = "absent"
    BY PublisherTypeStep, AbsentStep
  <1> USE DEF PublisherInv
  <1>1. CreatedInv' /\ RowInv'
    <2>1. ASSUME NEW e \in Jobs, P!AppendEvent(e) PROVE CreatedInv' /\ RowInv'
      <3>1. \A i \in DOMAIN created : created[i] \in Jobs /\ created[i] # e
        BY <2>1 DEF P!AppendEvent, P!TypeOK, CreatedInv
      <3>2. /\ outbox'[e].status = "pending"
            /\ \A j \in Jobs \ {e} : outbox'[j] = outbox[j]
        BY <2>1 DEF P!AppendEvent, P!TypeOK, P!AbsentEvent
      <3>3. CreatedInv'
        BY <2>1, <3>1, <3>2 DEF P!AppendEvent, P!TypeOK, CreatedInv
      <3>4. RowInv'
        BY <3>2 DEF RowInv
      <3> QED
        BY <3>3, <3>4
    <2>2. ASSUME created' = created,
                 \A j \in Jobs : outbox[j].status = "absent" => outbox'[j] = outbox[j]
          PROVE  CreatedInv' /\ RowInv'
      BY <1>0, <2>2 DEF CreatedInv, RowInv, P!TypeOK
    <2>3. ASSUME NEW e \in Jobs, P!LeaseLapses(e) \/ P!LeaseOverrun(e)
          PROVE  CreatedInv' /\ RowInv'
      BY <2>2, <2>3 DEF P!LeaseLapses, P!LeaseOverrun, P!LeaseRunsOut, P!TypeOK
    <2>4. ASSUME NEW p \in Workers, P!LeaseBatch(p) PROVE CreatedInv' /\ RowInv'
      BY <2>2, <2>4, TakeEffect DEF P!LeaseBatch, P!Leasable
    <2>5. ASSUME NEW p \in Workers, P!MarkPublished(p) \/ P!MarkFailed(p)
          PROVE  CreatedInv' /\ RowInv'
      <3>1. \A j \in Jobs : outbox[j].status = "absent" => outbox'[j] = outbox[j]
        BY <2>5, MarkEffect DEF P!MarkPublished, P!MarkFailed
      <3> QED
        BY <2>2, <2>5, <3>1 DEF P!MarkPublished, P!MarkFailed
    <2>6. ASSUME UNCHANGED <<outbox, created>> PROVE CreatedInv' /\ RowInv'
      BY <2>2, <2>6
    <2> QED
      BY <2>1, <2>3, <2>4, <2>5, <2>6
         DEF P!Next, P!TableStep, P!TaskStep, P!ProcessStep, P!BrokerAcks, P!BrokerRefuses,
             P!FlushTimesOut, P!LateDelivery, P!TaskDies, P!Start, P!Stop, P!Crash, P!vars
  <1>2. BatchInv'
    <2> SUFFICES ASSUME NEW w \in Workers, P!AtWork(w)'
                 PROVE  /\ Batch(w)' # <<>>
                        /\ \A m \in DOMAIN Batch(w)' :
                             /\ outbox'[Batch(w)'[m]].status # "absent"
                             /\ \A n \in DOMAIN Batch(w)' :
                                   Batch(w)'[m] = Batch(w)'[n] => m = n
      BY DEF BatchInv
    <2>0. Batch(w) \in Seq(Jobs)
      BY DEF P!TypeOK, P!Publisher, Batch
    <2> DEFINE Sound == /\ Batch(w)' # <<>>
                        /\ \A m \in DOMAIN Batch(w)' :
                             /\ outbox'[Batch(w)'[m]].status # "absent"
                             /\ \A n \in DOMAIN Batch(w)' :
                                   Batch(w)'[m] = Batch(w)'[n] => m = n
    <2>1. ASSUME Batch(w)' = Batch(w), P!AtWork(w) PROVE Sound
      BY <1>0, <2>0, <2>1 DEF BatchInv
    <2>2. ASSUME publisher'[w] = publisher[w] PROVE Sound
      BY <2>1, <2>2 DEF P!AtWork, Batch
    <2>3. ASSUME NEW p \in Workers, P!LeaseBatch(p) PROVE Sound
      <3>1. CASE w # p
        BY <2>2, <2>3, <3>1, TakeEffect
      <3>2. CASE w = p
        <4>1. \A m \in DOMAIN Batch(w)' : outbox'[Batch(w)'[m]].status = "leased"
          BY <2>3, <3>2, TakeEffect
        <4> QED
          BY <2>3, <3>2, <4>1, TakeEffect
      <3> QED
        BY <3>1, <3>2
    <2>4. ASSUME NEW p \in Workers, P!MarkPublished(p) \/ P!MarkFailed(p) PROVE Sound
      <3>0. P!AtWork(p) /\ P!NextInBatch(p)
        BY <2>4 DEF P!AtWork, P!MarkPublished, P!MarkFailed
      <3>1. CASE w # p
        BY <2>2, <3>0, <3>1, NextInBatchEffect
      <3>2. CASE w = p
        <4>1. /\ publisher'[p].stage = IF Len(Batch(p)) = 1 THEN "idle" ELSE "sending"
              /\ Batch(p)' \in Seq(Jobs)
              /\ Len(Batch(p)) \in Nat \ {0}
              /\ Len(Batch(p)') = Len(Batch(p)) - 1
              /\ \A n \in 1 .. Len(Batch(p)) - 1 : Batch(p)'[n] = Batch(p)[n + 1]
          BY <3>0, NextInBatchEffect
        <4>2. Len(Batch(p)) # 1
          BY <3>2, <4>1 DEF P!AtWork
        <4>3. Batch(p)' # <<>>
          BY <4>1, <4>2, EmptySeq
        <4>4. ASSUME NEW m \in DOMAIN Batch(p)'
              PROVE  /\ m \in 1 .. Len(Batch(p)) - 1
                     /\ m + 1 \in DOMAIN Batch(p)
                     /\ Batch(p)'[m] = Batch(p)[m + 1]
                     /\ Batch(p)'[m] \in Jobs
          BY <2>0, <3>2, <4>1
        <4>5. ASSUME NEW m \in DOMAIN Batch(p)' PROVE outbox'[Batch(p)'[m]].status # "absent"
          BY <1>0, <3>0, <4>4 DEF BatchInv
        <4>6. ASSUME NEW m \in DOMAIN Batch(p)', NEW n \in DOMAIN Batch(p)',
                     Batch(p)'[m] = Batch(p)'[n]
              PROVE  m = n
          <5>1. m + 1 = n + 1
            BY <3>0, <4>4, <4>6 DEF BatchInv
          <5>2. m \in Int /\ n \in Int
            BY <4>1, <4>4
          <5> QED
            BY <5>1, <5>2
        <4> QED
          BY <3>2, <4>3, <4>5, <4>6
      <3> QED
        BY <3>1, <3>2
    <2>5. ASSUME NEW p \in Workers,
                 P!BrokerAcks(p) \/ P!BrokerRefuses(p) \/ P!FlushTimesOut(p)
          PROVE  Sound
      <3>1. PICK stage \in P!Stage : P!SetStage(p, stage)
        BY <2>5 DEF P!BrokerAcks, P!BrokerRefuses, P!FlushTimesOut, P!Stage
      <3>2. P!AtWork(p)
        BY <2>5 DEF P!BrokerAcks, P!BrokerRefuses, P!FlushTimesOut, P!AtWork
      <3> QED
        BY <2>1, <2>2, <3>1, <3>2, SetStageEffect DEF Batch
    <2>6. ASSUME NEW p \in Workers, P!TaskDies(p) \/ P!Stop(p) \/ P!Crash(p) PROVE Sound
      <3>1. PICK stage \in {"dead", "down"} : P!Leave(p, stage)
        BY <2>6 DEF P!TaskDies, P!Stop, P!Crash
      <3>2. w # p
        BY <3>1, LeaveEffect DEF P!AtWork, P!Stage
      <3> QED
        BY <2>2, <3>1, <3>2, LeaveEffect DEF P!Stage
    <2>7. ASSUME NEW p \in Workers, P!Start(p) PROVE Sound
      <3>1. w # p
        BY <2>7 DEF P!Start, P!AtWork, P!TypeOK
      <3> QED
        BY <2>2, <2>7, <3>1 DEF P!Start, P!TypeOK
    <2>8. ASSUME publisher' = publisher PROVE Sound
      BY <2>2, <2>8
    <2> HIDE DEF Sound
    <2>9. Sound
      BY <2>3, <2>4, <2>5, <2>6, <2>7, <2>8
         DEF P!Next, P!TableStep, P!TaskStep, P!ProcessStep, P!AppendEvent, P!LeaseLapses,
             P!LeaseOverrun, P!LateDelivery, P!vars
    <2> QED
      BY <2>9 DEF Sound
  <1>3. HeldInv'
    <2> SUFFICES ASSUME NEW w \in Workers, NEW s \in held'[w]
                 PROVE  outbox'[s[1]].status # "absent"
      BY DEF HeldInv
    <2>1. ASSUME s \in held[w] PROVE outbox'[s[1]].status # "absent"
      <3>1. s[1] \in Jobs
        BY <2>1 DEF P!TypeOK, P!Send
      <3> QED
        BY <1>0, <2>1, <3>1 DEF HeldInv
    <2>2. ASSUME NEW p \in Workers, P!FlushTimesOut(p) PROVE outbox'[s[1]].status # "absent"
      <3>1. /\ P!Event(p) \in Jobs
            /\ outbox[P!Event(p)].status # "absent"
        BY <2>2, EventTyped DEF P!FlushTimesOut, P!AtWork
      <3>2. s \in held[w] \/ s = <<P!Event(p), outbox[P!Event(p)].leases>>
        BY <2>2 DEF P!FlushTimesOut, P!TypeOK
      <3> QED
        BY <1>0, <2>1, <3>1, <3>2
    <2>3. ASSUME NEW p \in Workers, P!LateDelivery(p) \/ P!Stop(p) \/ P!Crash(p)
          PROVE  outbox'[s[1]].status # "absent"
      <3>1. held'[w] \subseteq held[w]
        BY <2>3 DEF P!LateDelivery, P!Stop, P!Crash, P!TypeOK
      <3> QED
        BY <2>1, <3>1
    <2>4. ASSUME held' = held PROVE outbox'[s[1]].status # "absent"
      BY <2>1, <2>4
    <2> QED
      BY <2>2, <2>3, <2>4
         DEF P!Next, P!TableStep, P!TaskStep, P!ProcessStep, P!AppendEvent, P!LeaseLapses,
             P!LeaseOverrun, P!LeaseBatch, P!BrokerAcks, P!BrokerRefuses, P!MarkPublished,
             P!MarkFailed, P!TaskDies, P!Start, P!vars
  <1> QED
    BY <1>0, <1>1, <1>2, <1>3

LEMMA PublisherCorrect == Spec => [](P!TypeOK /\ PublisherInv)
  <1>1. Init => PublisherInv
    BY PublisherInit DEF Init
  <1>2. PublisherInv /\ [Next]_vars => PublisherInv'
    BY PublisherStepMaps, PublisherInvStep
  <1>3. PublisherInv => P!TypeOK
    BY DEF PublisherInv
  <1> QED
    BY <1>1, <1>2, <1>3, PTL DEF Spec

\* The outbox table, the publishers and the topic keep their types; a row has an
\* owner while it is leased and at no other time.
THEOREM PublisherTypeCorrect == Spec => []P!TypeOK
  BY PublisherCorrect, PTL

-----------------------------------------------------------------------------
(* What the marks may say.                                                 *)

\* The strengthening: an event that its publisher is about to mark published is
\* on the topic.
TopicInv ==
  /\ P!PublishedIsOnTopic
  /\ \A w \in Workers : publisher[w].stage = "acked" => P!OnTopic(P!Event(w))

LEMMA TopicInvInit == P!Init => TopicInv
  BY DEF P!Init, TopicInv, P!PublishedIsOnTopic, P!AbsentEvent

\* The topic stays as it is, or one event is appended to it.
LEMMA TopicStep ==
  ASSUME PublisherInv, [P!Next]_(P!vars)
  PROVE  \/ topic' = topic
         \/ \E p \in Workers :
              \/ P!BrokerAcks(p) /\ topic' = Append(topic, P!Event(p))
              \/ /\ P!LateDelivery(p)
                 /\ \E s \in held[p] : topic' = Append(topic, s[1])
  BY DEF P!Next, P!TableStep, P!TaskStep, P!ProcessStep, P!AppendEvent, P!LeaseLapses,
         P!LeaseOverrun, P!LeaseBatch, P!BrokerAcks, P!BrokerRefuses, P!FlushTimesOut,
         P!LateDelivery, P!MarkPublished, P!MarkFailed, P!TaskDies, P!Start, P!Stop,
         P!Crash, P!vars

LEMMA OnTopicStays ==
  ASSUME PublisherInv, [P!Next]_(P!vars), NEW j, P!OnTopic(j)
  PROVE  P!OnTopic(j)'
  <1>1. topic \in Seq(Jobs)
    BY DEF PublisherInv, P!TypeOK
  <1>2. ASSUME NEW e \in Jobs, topic' = Append(topic, e) PROVE P!OnTopic(j)'
    BY <1>1, <1>2, AppendProperties DEF P!OnTopic
  <1>3. \A p \in Workers : P!BrokerAcks(p) => P!Event(p) \in Jobs
    BY EventTyped DEF P!BrokerAcks, P!AtWork
  <1>4. \A p \in Workers : \A s \in held[p] : s[1] \in Jobs
    BY DEF PublisherInv, P!TypeOK, P!Send
  <1> QED
    BY <1>2, <1>3, <1>4, TopicStep DEF P!OnTopic

LEMMA TopicInvStep ==
  ASSUME PublisherInv, TopicInv, [P!Next]_(P!vars)
  PROVE  TopicInv'
  <1>1. ASSUME NEW j \in Jobs, outbox'[j].status = "published" PROVE P!OnTopic(j)'
    <2>1. CASE outbox[j].status = "published"
      BY <2>1, OnTopicStays DEF TopicInv, P!PublishedIsOnTopic
    <2>2. CASE outbox[j].status # "published"
      <3>1. ASSUME NEW e \in Jobs, P!AppendEvent(e) \/ P!LeaseLapses(e) \/ P!LeaseOverrun(e)
            PROVE  FALSE
        BY <1>1, <2>2, <3>1
           DEF P!AppendEvent, P!LeaseLapses, P!LeaseOverrun, P!LeaseRunsOut, PublisherInv,
               P!TypeOK, P!OutboxRow, P!AbsentEvent
      <3>2. ASSUME NEW p \in Workers, P!LeaseBatch(p) PROVE FALSE
        BY <1>1, <2>2, <3>2, TakeEffect DEF PublisherInv
      <3>3. ASSUME NEW p \in Workers, P!MarkFailed(p) PROVE FALSE
        BY <1>1, <2>2, <3>3, MarkEffect DEF PublisherInv, P!MarkFailed
      <3>4. ASSUME NEW p \in Workers, P!MarkPublished(p) PROVE P!OnTopic(j)'
        <4>1. j = P!Event(p)
          BY <1>1, <2>2, <3>4, MarkEffect DEF PublisherInv, P!MarkPublished
        <4> QED
          BY <3>4, <4>1, OnTopicStays DEF TopicInv, P!MarkPublished
      <3> QED
        BY <1>1, <2>2, <3>1, <3>2, <3>3, <3>4
           DEF P!Next, P!TableStep, P!TaskStep, P!ProcessStep, P!BrokerAcks,
               P!BrokerRefuses, P!FlushTimesOut, P!LateDelivery, P!TaskDies, P!Start,
               P!Stop, P!Crash, P!vars
    <2> QED
      BY <2>1, <2>2
  <1>2. ASSUME NEW w \in Workers, publisher'[w].stage = "acked" PROVE P!OnTopic(P!Event(w))'
    <2>1. ASSUME publisher'[w] = publisher[w] PROVE P!OnTopic(P!Event(w))'
      <3>1. P!OnTopic(P!Event(w)) /\ P!Event(w)' = P!Event(w)
        BY <1>2, <2>1 DEF TopicInv, P!Event
      <3> DEFINE e == P!Event(w)
      <3>2. P!OnTopic(e)
        BY <3>1
      <3> HIDE DEF e
      <3>3. \E i \in DOMAIN topic' : topic'[i] = e
        BY <3>2, OnTopicStays DEF P!OnTopic
      <3> QED
        BY <3>1, <3>3 DEF P!OnTopic, e
    <2>2. ASSUME NEW p \in Workers, P!BrokerAcks(p) PROVE P!OnTopic(P!Event(w))'
      <3>1. CASE w # p
        BY <2>1, <2>2, <3>1, SetStageEffect DEF P!BrokerAcks, P!Stage, PublisherInv
      <3>2. CASE w = p
        <4>1. P!Event(p)' = P!Event(p)
          BY <2>2, SetStageEffect DEF P!BrokerAcks, P!Stage, PublisherInv, P!Event
        <4>2. P!Event(p) \in Jobs /\ topic \in Seq(Jobs) /\ topic' = Append(topic, P!Event(p))
          BY <2>2, EventTyped DEF P!BrokerAcks, P!AtWork, PublisherInv, P!TypeOK
        <4> DEFINE e == P!Event(p)
        <4>3. \E i \in DOMAIN topic' : topic'[i] = e
          <5> HIDE DEF e
          <5>1. e \in Jobs /\ topic \in Seq(Jobs) /\ topic' = Append(topic, e)
            BY <4>2 DEF e
          <5>2. topic'[Len(topic) + 1] = e /\ Len(topic) + 1 \in DOMAIN topic'
            BY <5>1, AppendProperties, LenProperties
          <5> QED
            BY <5>2
        <4> QED
          BY <3>2, <4>1, <4>3 DEF P!OnTopic
      <3> QED
        BY <3>1, <3>2
    <2>3. ASSUME NEW p \in Workers,
                 \/ P!Start(p) \/ P!LeaseBatch(p) \/ P!BrokerRefuses(p) \/ P!FlushTimesOut(p)
                 \/ P!MarkPublished(p) \/ P!MarkFailed(p) \/ P!TaskDies(p) \/ P!Stop(p)
                 \/ P!Crash(p)
          PROVE  P!OnTopic(P!Event(w))'
      <3>1. \/ publisher'[w] = publisher[w]
            \/ publisher'[w].stage \in {"idle", "sending", "refused", "dead", "down"}
        <4>1. CASE P!Start(p)
          BY <4>1 DEF P!Start, PublisherInv, P!TypeOK
        <4>2. CASE P!LeaseBatch(p)
          BY <4>2, TakeEffect DEF PublisherInv
        <4>3. CASE P!BrokerRefuses(p) \/ P!FlushTimesOut(p)
          BY <4>3, SetStageEffect DEF P!BrokerRefuses, P!FlushTimesOut, P!Stage, PublisherInv
        <4>4. CASE P!MarkPublished(p) \/ P!MarkFailed(p)
          BY <4>4, NextInBatchEffect DEF P!MarkPublished, P!MarkFailed, P!AtWork, PublisherInv
        <4>5. CASE P!TaskDies(p) \/ P!Stop(p) \/ P!Crash(p)
          BY <4>5, LeaveEffect DEF P!TaskDies, P!Stop, P!Crash, P!Stage, PublisherInv
        <4> QED
          BY <2>3, <4>1, <4>2, <4>3, <4>4, <4>5
      <3> QED
        BY <1>2, <2>1, <3>1
    <2> QED
      BY <2>1, <2>2, <2>3
         DEF P!Next, P!TableStep, P!TaskStep, P!ProcessStep, P!AppendEvent, P!LeaseLapses,
             P!LeaseOverrun, P!LateDelivery, P!vars
  <1> QED
    BY <1>1, <1>2 DEF TopicInv, P!PublishedIsOnTopic

\* A row says published only of an event that is on the topic: no publisher that
\* was overtaken, refused or killed can make it say so.
THEOREM PublishedEventsAreOnTopic == Spec => []PublishedIsOnTopic
  <1>1. Init => TopicInv
    BY TopicInvInit DEF Init
  <1>2. PublisherInv /\ TopicInv /\ [Next]_vars => TopicInv'
    BY PublisherStepMaps, TopicInvStep
  <1>3. TopicInv => PublishedIsOnTopic
    BY DEF TopicInv, PublishedIsOnTopic
  <1> QED
    BY PublisherCorrect, <1>1, <1>2, <1>3, PTL DEF Spec

LEMMA MarkStep ==
  ASSUME PublisherInv, [P!Next]_(P!vars), NEW j \in Jobs,
         outbox[j].status \in {"published", "failed"}
  PROVE  outbox'[j] = outbox[j]
  <1>1. ASSUME NEW e \in Jobs, P!AppendEvent(e) \/ P!LeaseLapses(e) \/ P!LeaseOverrun(e)
        PROVE  outbox'[j] = outbox[j]
    BY <1>1
       DEF P!AppendEvent, P!LeaseLapses, P!LeaseOverrun, P!LeaseRunsOut, PublisherInv,
           P!TypeOK
  <1>2. ASSUME NEW p \in Workers, P!LeaseBatch(p) PROVE outbox'[j] = outbox[j]
    BY <1>2, TakeEffect DEF PublisherInv, P!Leasable
  <1>3. ASSUME NEW p \in Workers, P!MarkPublished(p) \/ P!MarkFailed(p)
        PROVE  outbox'[j] = outbox[j]
    BY <1>3, MarkEffect DEF PublisherInv, P!MarkPublished, P!MarkFailed
  <1> QED
    BY <1>1, <1>2, <1>3
       DEF P!Next, P!TableStep, P!TaskStep, P!ProcessStep, P!BrokerAcks, P!BrokerRefuses,
           P!FlushTimesOut, P!LateDelivery, P!TaskDies, P!Start, P!Stop, P!Crash, P!vars

\* Whoever marks an event first decides what the row says.
THEOREM MarksAreFinal == Spec => MarkIsFinal
  <1>1. PublisherInv /\ [Next]_vars =>
          [\A e \in Jobs :
             outbox[e].status \in {"published", "failed"} => outbox'[e] = outbox[e]]_(P!vars)
    BY PublisherStepMaps, MarkStep
  <1> QED
    BY PublisherCorrect, <1>1, PTL DEF Spec, MarkIsFinal, P!MarkIsFinal

-----------------------------------------------------------------------------
(* A copy of an event costs a lease of it.  What may still put a copy on   *)
(* the topic is counted together with the copies that are there: a batch   *)
(* whose publisher has not sent the event yet, and a send that a producer  *)
(* client has not given up.  A lease adds one token; nothing else does.    *)

Unsent(w, j) ==
  \/ publisher[w].stage = "sending" /\ \E n \in DOMAIN Batch(w) : Batch(w)[n] = j
  \/ /\ publisher[w].stage \in {"acked", "refused"}
     /\ \E n \in DOMAIN Batch(w) : n # 1 /\ Batch(w)[n] = j

IsToken(t, j) ==
  \/ t[1] = "topic" /\ t[2] \in DOMAIN topic /\ topic[t[2]] = j /\ t[3] = 0
  \/ t[1] = "unsent" /\ t[2] \in Workers /\ Unsent(t[2], j) /\ t[3] = 0
  \/ t[1] = "held" /\ t[2] \in Workers /\ <<j, t[3]>> \in held[t[2]]

Tokens(j) ==
  {t \in {"topic", "unsent", "held"} \X (Nat \cup Workers) \X Nat : IsToken(t, j)}

TokenInv ==
  \A j \in Jobs :
     IsFiniteSet(Tokens(j)) /\ Cardinality(Tokens(j)) <= outbox[j].leases

\* How a set and a bound on its size may change together.
LEMMA Exchange ==
  ASSUME NEW S, NEW n \in Nat, IsFiniteSet(S), Cardinality(S) <= n, NEW T, NEW m \in Nat,
         \/ T \subseteq S /\ m = n
         \/ (\E x : T \subseteq S \cup {x}) /\ m = n + 1
         \/ (\E a \in S : \E x : T \subseteq (S \ {a}) \cup {x}) /\ m = n
  PROVE  IsFiniteSet(T) /\ Cardinality(T) <= m
  <1>0. Cardinality(S) \in Nat
    BY FS_CardinalityType
  <1>1. CASE T \subseteq S /\ m = n
    <2>1. IsFiniteSet(T) /\ Cardinality(T) <= Cardinality(S)
      BY <1>1, FS_Subset
    <2>2. Cardinality(T) \in Nat
      BY <2>1, FS_CardinalityType
    <2> QED
      BY <1>0, <1>1, <2>1, <2>2
  <1>2. ASSUME NEW x, T \subseteq S \cup {x}, m = n + 1
        PROVE  IsFiniteSet(T) /\ Cardinality(T) <= m
    <2>1. IsFiniteSet(S \cup {x}) /\ Cardinality(S \cup {x}) <= Cardinality(S) + 1
      BY <1>0, FS_AddElement
    <2>2. IsFiniteSet(T) /\ Cardinality(T) <= Cardinality(S \cup {x})
      BY <1>2, <2>1, FS_Subset
    <2>3. Cardinality(T) \in Nat /\ Cardinality(S \cup {x}) \in Nat
      BY <2>1, <2>2, FS_CardinalityType
    <2> QED
      BY <1>0, <1>2, <2>1, <2>2, <2>3
  <1>3. ASSUME NEW a \in S, NEW x, T \subseteq (S \ {a}) \cup {x}, m = n
        PROVE  IsFiniteSet(T) /\ Cardinality(T) <= m
    <2> DEFINE R == S \ {a}
    <2>1. IsFiniteSet(R) /\ Cardinality(R) = Cardinality(S) - 1
      BY FS_RemoveElement
    <2> HIDE DEF R
    <2>2. IsFiniteSet(R \cup {x}) /\ Cardinality(R \cup {x}) <= Cardinality(S)
      BY <1>0, <2>1, FS_AddElement
    <2>3. IsFiniteSet(T) /\ Cardinality(T) <= Cardinality(R \cup {x})
      BY <1>3, <2>2, FS_Subset DEF R
    <2>4. Cardinality(T) \in Nat /\ Cardinality(R \cup {x}) \in Nat
      BY <2>2, <2>3, FS_CardinalityType
    <2> QED
      BY <1>0, <1>3, <2>2, <2>3, <2>4
  <1> QED
    BY <1>1, <1>2, <1>3

\* A set of tokens is changed by naming what happens to a single token.
LEMMA TokensOf ==
  ASSUME NEW j, NEW t \in Tokens(j)
  PROVE  t = <<t[1], t[2], t[3]>> /\ IsToken(t, j)
  BY DEF Tokens

\* What a step does to the tokens of one event.
TokenChange(j) ==
  \/ Tokens(j)' \subseteq Tokens(j) /\ outbox'[j].leases = outbox[j].leases
  \/ /\ \E x : Tokens(j)' \subseteq Tokens(j) \cup {x}
     /\ outbox'[j].leases = outbox[j].leases + 1
  \/ /\ \E a \in Tokens(j) : \E x : Tokens(j)' \subseteq (Tokens(j) \ {a}) \cup {x}
     /\ outbox'[j].leases = outbox[j].leases

\* Sends are given up, and batches are shortened or dropped.
LEMMA TokensLost ==
  ASSUME NEW j \in Jobs, topic' = topic,
         \A w \in Workers : Unsent(w, j)' => Unsent(w, j),
         \A w \in Workers : \A k \in Nat : <<j, k>> \in held'[w] => <<j, k>> \in held[w]
  PROVE  Tokens(j)' \subseteq Tokens(j)
  BY DEF Tokens, IsToken

LEMMA UnsentSame ==
  ASSUME NEW w, NEW j, publisher'[w] = publisher[w]
  PROVE  Unsent(w, j)' <=> Unsent(w, j)
  BY DEF Unsent, Batch

\* The event that is sent is nowhere else in its batch.
LEMMA UnsentHead ==
  ASSUME PublisherInv, NEW p \in Workers, publisher[p].stage = "sending", NEW j \in Jobs,
         NEW stage \in {"acked", "refused"}, P!SetStage(p, stage)
  PROVE  /\ Unsent(p, j)' <=> Unsent(p, j) /\ j # P!Event(p)
         /\ Unsent(p, P!Event(p))
  <1>1. P!AtWork(p)
    BY DEF P!AtWork
  <1>2. P!Event(p) = Batch(p)[1] /\ 1 \in DOMAIN Batch(p)
    BY <1>1, EventTyped
  <1>3. publisher'[p].stage = stage /\ Batch(p)' = Batch(p)
    BY SetStageEffect DEF PublisherInv, P!Stage, Batch
  <1>4. \A n \in DOMAIN Batch(p) : Batch(p)[n] = P!Event(p) => n = 1
    BY <1>1, <1>2 DEF PublisherInv, BatchInv
  <1> QED
    BY <1>2, <1>3, <1>4 DEF Unsent

LEMMA TokenStep ==
  ASSUME PublisherInv, [P!Next]_(P!vars), NEW j \in Jobs
  PROVE  TokenChange(j)
  <1> USE DEF PublisherInv
  <1>0. /\ topic \in Seq(Jobs)
        /\ outbox \in [Jobs -> P!OutboxRow]
        /\ outbox[j].leases \in 0 .. MaxLeases
    BY DEF P!TypeOK, P!OutboxRow
  <1>1. ASSUME NEW e \in Jobs, P!AppendEvent(e) PROVE TokenChange(j)
    <2>1. Tokens(j)' \subseteq Tokens(j)
      BY <1>1, TokensLost, UnsentSame DEF P!AppendEvent
    <2>2. outbox'[j].leases = outbox[j].leases
      BY <1>1 DEF P!AppendEvent, P!TypeOK, P!AbsentEvent, RowInv
    <2> QED
      BY <2>1, <2>2 DEF TokenChange
  <1>2. ASSUME NEW e \in Jobs, P!LeaseLapses(e) \/ P!LeaseOverrun(e) PROVE TokenChange(j)
    <2>1. Tokens(j)' \subseteq Tokens(j)
      BY <1>2, TokensLost, UnsentSame DEF P!LeaseLapses, P!LeaseOverrun
    <2>2. outbox'[j].leases = outbox[j].leases
      <3> DEFINE new == [outbox[e] EXCEPT !.lease = "expired"]
      <3>1. new.leases = outbox[e].leases
        BY DEF P!TypeOK, P!OutboxRow
      <3>2. outbox' = [outbox EXCEPT ![e] = new]
        BY <1>2 DEF P!LeaseLapses, P!LeaseOverrun, P!LeaseRunsOut
      <3> HIDE DEF new
      <3> QED
        BY <1>0, <3>1, <3>2
    <2> QED
      BY <2>1, <2>2 DEF TokenChange
  <1>3. ASSUME NEW p \in Workers, P!LeaseBatch(p) PROVE TokenChange(j)
    <2>1. topic' = topic /\ held' = held
      BY <1>3 DEF P!LeaseBatch
    <2>2. \A w \in Workers \ {p} : Unsent(w, j)' <=> Unsent(w, j)
      BY <1>3, TakeEffect, UnsentSame
    <2>3. CASE /\ outbox'[j] = outbox[j]
               /\ \A m \in DOMAIN Batch(p)' : Batch(p)'[m] # j
      <3>1. ~Unsent(p, j)'
        BY <1>3, <2>3, TakeEffect DEF Unsent
      <3>2. Tokens(j)' \subseteq Tokens(j)
        BY <2>1, <2>2, <3>1, TokensLost
      <3> QED
        BY <2>3, <3>2 DEF TokenChange
    <2>4. CASE outbox'[j].leases = outbox[j].leases + 1
      <3>1. Tokens(j)' \subseteq Tokens(j) \cup {<<"unsent", p, 0>>}
        BY <2>1, <2>2 DEF Tokens, IsToken
      <3> QED
        BY <2>4, <3>1 DEF TokenChange
    <2> QED
      BY <1>3, <2>3, <2>4, TakeEffect
  <1>4. ASSUME NEW p \in Workers, P!MarkPublished(p) \/ P!MarkFailed(p) PROVE TokenChange(j)
    <2>0. P!AtWork(p) /\ P!NextInBatch(p) /\ publisher[p].stage \in {"acked", "refused"}
      BY <1>4 DEF P!MarkPublished, P!MarkFailed, P!AtWork
    <2>1. ASSUME Unsent(p, j)' PROVE Unsent(p, j)
      <3>1. PICK n \in DOMAIN Batch(p)' : Batch(p)'[n] = j
        BY <2>1 DEF Unsent
      <3>2. Batch(p) \in Seq(Jobs)
        BY DEF P!TypeOK, P!Publisher, Batch
      <3>3. /\ Batch(p)' \in Seq(Jobs)
            /\ Len(Batch(p)) \in Nat \ {0}
            /\ Len(Batch(p)') = Len(Batch(p)) - 1
            /\ \A m \in 1 .. Len(Batch(p)) - 1 : Batch(p)'[m] = Batch(p)[m + 1]
        BY <2>0, NextInBatchEffect
      <3>4. n \in 1 .. Len(Batch(p)) - 1
        BY <3>1, <3>3
      <3>5. n + 1 \in DOMAIN Batch(p) /\ n + 1 # 1 /\ Batch(p)[n + 1] = j
        BY <3>1, <3>2, <3>3, <3>4
      <3> QED
        BY <2>0, <3>5 DEF Unsent
    <2>2. \A w \in Workers \ {p} : Unsent(w, j)' <=> Unsent(w, j)
      BY <2>0, NextInBatchEffect, UnsentSame
    <2>3. Tokens(j)' \subseteq Tokens(j)
      BY <1>4, <2>1, <2>2, TokensLost DEF P!MarkPublished, P!MarkFailed
    <2>4. outbox'[j].leases = outbox[j].leases
      BY <1>4, MarkEffect DEF P!MarkPublished, P!MarkFailed
    <2> QED
      BY <2>3, <2>4 DEF TokenChange
  <1>5. ASSUME NEW p \in Workers, P!BrokerRefuses(p) PROVE TokenChange(j)
    <2>1. /\ Unsent(p, j)' => Unsent(p, j)
          /\ \A w \in Workers \ {p} : Unsent(w, j)' <=> Unsent(w, j)
      BY <1>5, UnsentHead, SetStageEffect, UnsentSame DEF P!BrokerRefuses, P!Stage
    <2> QED
      BY <1>5, <2>1, TokensLost DEF P!BrokerRefuses, TokenChange
  <1>6. ASSUME NEW p \in Workers, P!BrokerAcks(p) \/ P!FlushTimesOut(p) PROVE TokenChange(j)
    <2>1. /\ Unsent(p, j)' <=> Unsent(p, j) /\ j # P!Event(p)
          /\ Unsent(p, P!Event(p))
          /\ \A w \in Workers \ {p} : Unsent(w, j)' <=> Unsent(w, j)
      BY <1>6, UnsentHead, SetStageEffect, UnsentSame
         DEF P!BrokerAcks, P!FlushTimesOut, P!Stage
    <2>2. /\ outbox' = outbox
          /\ P!Event(p) \in Jobs
          /\ outbox[P!Event(p)].leases \in 0 .. MaxLeases
      BY <1>6, EventTyped DEF P!BrokerAcks, P!FlushTimesOut, P!AtWork
    <2> DEFINE e == P!Event(p)
               k == outbox[e].leases
               sent == <<"unsent", p, 0>>
    <2>3. e \in Jobs /\ k \in Nat
      BY <2>2
    <2>4. CASE P!BrokerAcks(p)
      <3>1. topic' = Append(topic, e) /\ held' = held
        BY <2>4 DEF P!BrokerAcks
      <3> HIDE DEF e
      <3>2. \A i \in DOMAIN topic' :
              \/ i = Len(topic) + 1 /\ topic'[i] = e
              \/ i \in DOMAIN topic /\ topic'[i] = topic[i]
        BY <1>0, <2>3, <3>1, AppendProperties
      <3>3. CASE j = e
        <4>1. sent \in Tokens(j)
          BY <2>1, <3>3 DEF Tokens, IsToken, e
        <4>2. ~Unsent(p, j)'
          BY <2>1, <3>3 DEF e
        <4>3. Tokens(j)' \subseteq
                (Tokens(j) \ {sent}) \cup {<<"topic", Len(topic) + 1, 0>>}
          BY <2>1, <3>1, <3>2, <4>2 DEF Tokens, IsToken
        <4> QED
          BY <2>2, <4>1, <4>3 DEF TokenChange
      <3>4. CASE j # e
        <4>1. Tokens(j)' \subseteq Tokens(j)
          BY <2>1, <3>1, <3>2, <3>4 DEF Tokens, IsToken
        <4> QED
          BY <2>2, <4>1 DEF TokenChange
      <3> QED
        BY <3>3, <3>4
    <2>5. CASE P!FlushTimesOut(p)
      <3>1. topic' = topic /\ held' = [held EXCEPT ![p] = @ \cup {<<e, k>>}]
        BY <2>5 DEF P!FlushTimesOut
      <3> HIDE DEF e, k
      <3>2. /\ \A w \in Workers \ {p} : held'[w] = held[w]
            /\ held'[p] = held[p] \cup {<<e, k>>}
        BY <3>1 DEF P!TypeOK
      <3>3. CASE j = e
        <4>1. sent \in Tokens(j)
          BY <2>1, <3>3 DEF Tokens, IsToken, e
        <4>2. ~Unsent(p, j)'
          BY <2>1, <3>3 DEF e
        <4>3. Tokens(j)' \subseteq (Tokens(j) \ {sent}) \cup {<<"held", p, k>>}
          BY <2>1, <3>1, <3>2, <3>3, <4>2 DEF Tokens, IsToken
        <4> QED
          BY <2>2, <4>1, <4>3 DEF TokenChange
      <3>4. CASE j # e
        <4>1. \A i : <<j, i>> # <<e, k>>
          BY <3>4
        <4>2. Tokens(j)' \subseteq Tokens(j)
          BY <2>1, <3>1, <3>2, <4>1 DEF Tokens, IsToken
        <4> QED
          BY <2>2, <4>2 DEF TokenChange
      <3> QED
        BY <3>3, <3>4
    <2> QED
      BY <1>6, <2>4, <2>5
  <1>7. ASSUME NEW p \in Workers, P!LateDelivery(p) PROVE TokenChange(j)
    <2>1. PICK s \in held[p] : /\ held' = [held EXCEPT ![p] = @ \ {s}]
                               /\ topic' \in {topic, Append(topic, s[1])}
      BY <1>7 DEF P!LateDelivery
    <2>2. \A w \in Workers : Unsent(w, j)' <=> Unsent(w, j)
      BY <1>7, UnsentSame DEF P!LateDelivery
    <2>3. outbox' = outbox
      BY <1>7 DEF P!LateDelivery
    <2>4. PICK e \in Jobs, k \in 0 .. MaxLeases : s = <<e, k>>
      BY <2>1 DEF P!TypeOK, P!Send
    <2>5. /\ \A w \in Workers : held'[w] \subseteq held[w]
          /\ held'[p] = held[p] \ {<<e, k>>}
      BY <2>1, <2>4 DEF P!TypeOK
    <2>6. CASE topic' = topic
      BY <2>2, <2>3, <2>5, <2>6, TokensLost DEF TokenChange
    <2>7. CASE topic' = Append(topic, e)
      <3>1. \A i \in DOMAIN topic' :
              \/ i = Len(topic) + 1 /\ topic'[i] = e
              \/ i \in DOMAIN topic /\ topic'[i] = topic[i]
        BY <1>0, <2>4, <2>7, AppendProperties
      <3>2. CASE j = e
        <4> DEFINE given == <<"held", p, k>>
        <4>1. given \in Tokens(j)
          BY <2>1, <2>4, <3>2 DEF Tokens, IsToken
        <4>2. Tokens(j)' \subseteq
                (Tokens(j) \ {given}) \cup {<<"topic", Len(topic) + 1, 0>>}
          BY <2>2, <2>5, <3>1, <3>2 DEF Tokens, IsToken
        <4> QED
          BY <2>3, <4>1, <4>2 DEF TokenChange
      <3>3. CASE j # e
        <4>1. Tokens(j)' \subseteq Tokens(j)
          BY <2>2, <2>5, <3>1, <3>3 DEF Tokens, IsToken
        <4> QED
          BY <2>3, <4>1 DEF TokenChange
      <3> QED
        BY <3>2, <3>3
    <2>8. s[1] = e
      BY <2>4
    <2> QED
      BY <2>1, <2>6, <2>7, <2>8
  <1>8. ASSUME NEW p \in Workers, P!TaskDies(p) \/ P!Stop(p) \/ P!Crash(p)
        PROVE  TokenChange(j)
    <2>1. PICK stage \in {"dead", "down"} : P!Leave(p, stage)
      BY <1>8 DEF P!TaskDies, P!Stop, P!Crash
    <2>2. /\ publisher'[p].stage = stage
          /\ \A w \in Workers \ {p} : publisher'[w] = publisher[w]
      BY <2>1, LeaveEffect DEF P!Stage
    <2>6. ~Unsent(p, j)'
      BY <2>2 DEF Unsent
    <2>4. \A w \in Workers : Unsent(w, j)' => Unsent(w, j)
      BY <2>6, <2>2, UnsentSame
    <2>3. \A w \in Workers : held'[w] \subseteq held[w]
      BY <1>8 DEF P!TaskDies, P!Stop, P!Crash, P!TypeOK
    <2>5. outbox' = outbox /\ topic' = topic
      BY <1>8 DEF P!TaskDies, P!Stop, P!Crash
    <2> QED
      BY <2>3, <2>4, <2>5, TokensLost DEF TokenChange
  <1>9. ASSUME NEW p \in Workers, P!Start(p) PROVE TokenChange(j)
    <2>1. /\ publisher'[p].stage = "idle"
          /\ \A w \in Workers \ {p} : publisher'[w] = publisher[w]
      BY <1>9 DEF P!Start, P!TypeOK
    <2>4. ~Unsent(p, j)'
      BY <2>1 DEF Unsent
    <2>2. \A w \in Workers : Unsent(w, j)' => Unsent(w, j)
      BY <2>1, <2>4, UnsentSame
    <2>3. outbox' = outbox /\ topic' = topic /\ held' = held
      BY <1>9 DEF P!Start
    <2> QED
      BY <2>2, <2>3, TokensLost DEF TokenChange
  <1>10. CASE UNCHANGED P!vars
    BY <1>10, TokensLost, UnsentSame DEF P!vars, TokenChange
  <1> QED
    BY <1>1, <1>2, <1>3, <1>4, <1>5, <1>6, <1>7, <1>8, <1>9, <1>10
       DEF P!Next, P!TableStep, P!TaskStep, P!ProcessStep

LEMMA TokenInvStep ==
  ASSUME PublisherInv, PublisherInv', TokenInv, [P!Next]_(P!vars)
  PROVE  TokenInv'
  <1> SUFFICES ASSUME NEW j \in Jobs
               PROVE  IsFiniteSet(Tokens(j)') /\ Cardinality(Tokens(j)') <= outbox'[j].leases
    BY DEF TokenInv
  <1>1. TokenChange(j)
    BY TokenStep
  <1>2. outbox[j].leases \in Nat /\ outbox'[j].leases \in Nat
    BY DEF PublisherInv, P!TypeOK, P!OutboxRow
  <1>3. IsFiniteSet(Tokens(j)) /\ Cardinality(Tokens(j)) <= outbox[j].leases
    BY DEF TokenInv
  <1> QED
    BY <1>1, <1>2, <1>3, Exchange DEF TokenChange

LEMMA TokenInvInit == P!Init => TokenInv
  <1> SUFFICES ASSUME P!Init, NEW j \in Jobs
               PROVE  IsFiniteSet(Tokens(j)) /\ Cardinality(Tokens(j)) <= outbox[j].leases
    BY DEF TokenInv
  <1>1. Tokens(j) = {}
    BY DEF P!Init, Tokens, IsToken, Unsent
  <1>2. outbox[j].leases = 0
    BY DEF P!Init, P!AbsentEvent
  <1> QED
    BY <1>1, <1>2, FS_EmptySet

\* The copies on the topic are tokens, and any other token leaves room for one
\* more copy.
LEMMA CopiesBound ==
  ASSUME PublisherInv, TokenInv, NEW j \in Jobs
  PROVE  /\ Cardinality({i \in DOMAIN topic : topic[i] = j}) \in 0 .. outbox[j].leases
         /\ (\E t \in Tokens(j) : t[1] # "topic") =>
              Cardinality({i \in DOMAIN topic : topic[i] = j}) < outbox[j].leases
  <1> DEFINE D == {i \in DOMAIN topic : topic[i] = j}
             S == Tokens(j)
             f == [i \in D |-> <<"topic", i, 0>>]
  <1>1. IsFiniteSet(S) /\ Cardinality(S) <= outbox[j].leases
    BY DEF TokenInv
  <1>2. Cardinality(S) \in Nat /\ outbox[j].leases \in Nat
    BY <1>1, FS_CardinalityType DEF PublisherInv, P!TypeOK, P!OutboxRow
  <1>3. topic \in Seq(Jobs)
    BY DEF PublisherInv, P!TypeOK
  <1>4. /\ \A i \in D : f[i] = <<"topic", i, 0>> /\ f[i][1] = "topic" /\ f[i] \in S
        /\ \A i, k \in D : f[i] = f[k] => i = k
    BY <1>3 DEF Tokens, IsToken
  <1>5. ASSUME NEW T, \A i \in D : f[i] \in T, IsFiniteSet(T)
        PROVE  IsFiniteSet(D) /\ Cardinality(D) <= Cardinality(T)
    <2>1. f \in Injection(D, T)
      BY <1>4, <1>5 DEF Injection, IsInjective
    <2> QED
      BY <1>5, <2>1, FS_Injection
  <1>6. IsFiniteSet(D) /\ Cardinality(D) <= Cardinality(S)
    BY <1>1, <1>4, <1>5
  <1>7. Cardinality(D) \in Nat
    BY <1>6, FS_CardinalityType
  <1>8. ASSUME NEW t \in S, t[1] # "topic" PROVE Cardinality(D) < outbox[j].leases
    <2>1. IsFiniteSet(S \ {t}) /\ Cardinality(S \ {t}) = Cardinality(S) - 1
      BY <1>1, <1>8, FS_RemoveElement
    <2>2. \A i \in D : f[i] \in S \ {t}
      BY <1>4, <1>8
    <2>3. Cardinality(D) <= Cardinality(S \ {t})
      BY <1>5, <2>1, <2>2
    <2> QED
      BY <1>1, <1>2, <1>7, <2>1, <2>3
  <1> QED
    BY <1>1, <1>2, <1>6, <1>7, <1>8

LEMMA TokenCorrect == Spec => [](PublisherInv /\ TokenInv)
  <1>1. Init => TokenInv
    BY TokenInvInit DEF Init
  <1>2. PublisherInv /\ PublisherInv' /\ TokenInv /\ [Next]_vars => TokenInv'
    BY PublisherStepMaps, TokenInvStep
  <1> QED
    BY PublisherCorrect, <1>1, <1>2, PTL DEF Spec

\* However sends fail, arrive late or are repeated by another publisher, no event is
\* on the topic more often than it was leased.
THEOREM LeasesBoundCopies == Spec => []P!OneCopyPerLease
  <1>1. PublisherInv /\ TokenInv => P!OneCopyPerLease
    BY CopiesBound, SameCardinality DEF P!OneCopyPerLease, P!Copies
  <1> QED
    BY TokenCorrect, <1>1, PTL

-----------------------------------------------------------------------------
(* The bus implements CommandConsumer.                                     *)

Row == C!JobRow(Workers, 0 .. MaxAttempts)

\* The job and its event are written together.
PairInv ==
  /\ job \in [Jobs -> Row]
  /\ \A j \in Jobs : outbox[j].status = "absent" <=> job[j].status = "absent"

LEMMA PairInit == Init => PairInv
  <1> SUFFICES ASSUME Init PROVE PairInv
    OBVIOUS
  <1>1. 0 \in 0 .. MaxAttempts
    BY ConsumerAssumption
  <1>2. C!AbsentRow \in Row
    BY <1>1 DEF Row, C!JobRow, C!JobStatus, C!ErrorCode, C!Lease, C!AbsentRow
  <1> QED
    BY <1>2 DEF Init, P!Init, C!Init, PairInv, P!AbsentEvent, C!AbsentRow

\* A transaction that neither inserts a row nor takes it away.
RowKept(row, after) ==
  after \in Row /\ (after.status = "absent" <=> row.status = "absent")

LEMMA RowStays ==
  ASSUME NEW row \in Row, NEW w
  PROVE  /\ RowKept(row, C!Renewed(row, w))
         /\ RowKept(row, C!Completed(row, w))
         /\ RowKept(row, C!Failed(row, w, "execution_error"))
         /\ RowKept(row, C!Failed(row, w, "cancelled"))
         /\ RowKept(row, C!CancelRequested(row))
         /\ RowKept(row, C!Lapsed(row))
         /\ w \in Workers /\ row.attempts < MaxAttempts /\ C!Claimable(row) =>
              RowKept(row, C!ClaimedBy(row, w))
  <1> USE DEF RowKept, Row, C!JobRow, C!JobStatus, C!ErrorCode, C!Lease
  <1>1. RowKept(row, C!Renewed(row, w))
    BY DEF C!Renewed, C!Owns
  <1>2. RowKept(row, C!Completed(row, w))
    BY DEF C!Completed, C!Owns
  <1>3. /\ RowKept(row, C!Failed(row, w, "execution_error"))
        /\ RowKept(row, C!Failed(row, w, "cancelled"))
    BY DEF C!Failed, C!Owns
  <1>4. RowKept(row, C!CancelRequested(row))
    BY DEF C!CancelRequested
  <1>5. RowKept(row, C!Lapsed(row))
    BY DEF C!Lapsed
  <1>6. w \in Workers /\ row.attempts < MaxAttempts /\ C!Claimable(row) =>
          RowKept(row, C!ClaimedBy(row, w))
    BY ConsumerAssumption DEF C!ClaimedBy, C!Claimable
  <1> HIDE DEF RowKept
  <1> QED
    BY <1>1, <1>2, <1>3, <1>4, <1>5, <1>6

\* The steps of the consumer's half neither insert nor remove a row.  A consumer
\* whose command names no job writes nothing.
LEMMA ConsumerKeepsRows ==
  ASSUME PairInv, C!JobStep \/ C!HandlerStep
  PROVE  /\ job' \in [Jobs -> Row]
         /\ \A j \in Jobs : job'[j].status = "absent" <=> job[j].status = "absent"
  <1> DEFINE Kept == /\ job' \in [Jobs -> Row]
                     /\ \A j \in Jobs : job'[j].status = "absent" <=> job[j].status = "absent"
  <1>0. job \in [Jobs -> Row]
    BY DEF PairInv
  <1>1. ASSUME job' = job PROVE Kept
    BY <1>0, <1>1
  <1>2. ASSUME NEW i, NEW row, job' = [job EXCEPT ![i] = row],
               i \in Jobs => RowKept(job[i], row)
        PROVE  Kept
    <2>1. CASE i \in Jobs
      BY <1>0, <1>2, <2>1 DEF RowKept
    <2>2. CASE i \notin Jobs
      BY <1>0, <1>1, <1>2, <2>2
    <2> QED
      BY <2>1, <2>2
  <1> HIDE DEF Kept
  <1>3. ASSUME NEW i \in Jobs, C!RequestCancel(i) \/ C!LeaseLapses(i) \/ C!LeaseStalls(i)
        PROVE  Kept
    <2>1. \/ job' = [job EXCEPT ![i] = C!CancelRequested(job[i])]
          \/ job' = [job EXCEPT ![i] = C!Lapsed(job[i])]
      BY <1>3 DEF C!RequestCancel, C!LeaseLapses, C!LeaseStalls, C!LeaseExpires
    <2> QED
      BY <1>0, <1>2, <2>1, RowStays
  <1>4. ASSUME NEW w \in Workers,
               \/ C!MarkCompleted(w) \/ C!MarkFailed(w) \/ C!MarkCancelled(w)
               \/ C!HeartbeatRenews(w)
        PROVE  Kept
    <2> DEFINE i == C!InHand(w)
    <2>1. \/ job' = [job EXCEPT ![i] = C!Completed(job[i], w)]
          \/ job' = [job EXCEPT ![i] = C!Failed(job[i], w, "execution_error")]
          \/ job' = [job EXCEPT ![i] = C!Failed(job[i], w, "cancelled")]
          \/ job' = [job EXCEPT ![i] = C!Renewed(job[i], w)]
      BY <1>4 DEF C!MarkCompleted, C!MarkFailed, C!MarkCancelled, C!HeartbeatRenews
    <2> HIDE DEF i
    <2> QED
      BY <1>0, <1>2, <2>1, RowStays
  <1>5. ASSUME NEW w \in Workers, C!Claim(w) \/ C!ClaimAnswerLost(w) PROVE Kept
    <2> DEFINE i == C!InHand(w)
    <2>1. \/ job' = job
          \/ /\ job' = [job EXCEPT ![i] = C!ClaimedBy(job[i], w)]
             /\ C!Claimable(job[i])
             /\ job[i].attempts < MaxAttempts
      BY <1>5 DEF C!Claim, C!ClaimAnswerLost
    <2> HIDE DEF i
    <2> QED
      BY <1>0, <1>1, <1>2, <2>1, RowStays
  <1>6. Kept
    BY <1>1, <1>3, <1>4, <1>5
       DEF C!JobStep, C!HandlerStep, C!IsProcessed, C!CallRaises, C!ExecutionReturns,
           C!ExecutionRaises, C!HeartbeatCancels, C!MarkProcessed
  <1> QED
    BY <1>6 DEF Kept

\* Only enqueue writes an event.
LEMMA AbsentStays ==
  ASSUME PublisherInv, NEW j \in Jobs, outbox[j].status = "absent",
         P!TableStep \/ P!TaskStep
  PROVE  outbox'[j].status = "absent"
  <1> USE DEF PublisherInv
  <1>1. ASSUME NEW e \in Jobs, P!LeaseLapses(e) \/ P!LeaseOverrun(e)
        PROVE  outbox'[j].status = "absent"
    BY <1>1 DEF P!LeaseLapses, P!LeaseOverrun, P!LeaseRunsOut, P!TypeOK, P!OutboxRow
  <1>2. ASSUME NEW p \in Workers, P!LeaseBatch(p) PROVE outbox'[j].status = "absent"
    BY <1>2, TakeEffect DEF P!Leasable
  <1>3. ASSUME NEW p \in Workers, P!MarkPublished(p) \/ P!MarkFailed(p)
        PROVE  outbox'[j].status = "absent"
    BY <1>3, MarkEffect DEF P!MarkPublished, P!MarkFailed
  <1> QED
    BY <1>1, <1>2, <1>3
       DEF P!TableStep, P!TaskStep, P!BrokerAcks, P!BrokerRefuses, P!FlushTimesOut,
           P!LateDelivery, P!TaskDies

LEMMA PairStep ==
  ASSUME PublisherInv, PairInv, [Next]_vars
  PROVE  PairInv'
  <1> DEFINE Kept == /\ job' \in [Jobs -> Row]
                     /\ \A j \in Jobs : job'[j].status = "absent" <=> job[j].status = "absent"
  <1>0. \A j \in Jobs : outbox'[j].status = "absent" => outbox[j].status = "absent"
    BY PublisherStepMaps, AbsentStep
  <1>1. ASSUME NEW j \in Jobs, Enqueue(j) PROVE PairInv'
    <2>1. C!QueuedRow \in Row /\ C!QueuedRow.status = "queued"
      <3>1. 0 \in 0 .. MaxAttempts
        BY ConsumerAssumption
      <3> QED
        BY <3>1
           DEF Row, C!JobRow, C!JobStatus, C!ErrorCode, C!Lease, C!QueuedRow, C!AbsentRow
    <2>2. job' = [job EXCEPT ![j] = C!QueuedRow]
      BY <1>1 DEF Enqueue, C!Enqueue
    <2>3. /\ outbox'[j].status = "pending"
          /\ \A i \in Jobs \ {j} : outbox'[i] = outbox[i]
      BY <1>1 DEF Enqueue, P!AppendEvent, PublisherInv, P!TypeOK, P!AbsentEvent
    <2> QED
      BY <2>1, <2>2, <2>3 DEF PairInv
  <1>2. ASSUME job' = job,
               \A j \in Jobs : outbox[j].status = "absent" => outbox'[j].status = "absent"
        PROVE  PairInv'
    BY <1>0, <1>2 DEF PairInv
  <1>3. ASSUME NEW w \in Workers, StartProcess(w) \/ StopProcess(w) \/ CrashProcess(w)
        PROVE  PairInv'
    BY <1>2, <1>3
       DEF StartProcess, StopProcess, CrashProcess, P!Start, P!Stop, P!Crash, C!Start,
           C!Stop, C!Crash
  <1>4. CASE PublisherStep
    BY <1>2, <1>4, AbsentStays DEF PublisherStep, consumerVars
  <1>5. CASE ConsumerStep
    <2>1. outbox' = outbox
      BY <1>5 DEF ConsumerStep, publisherVars
    <2>2. CASE C!JobStep \/ C!HandlerStep
      BY <2>1, <2>2, ConsumerKeepsRows DEF PairInv
    <2>3. CASE C!GroupStep \/ C!LoopStep
      BY <1>2, <2>1, <2>3
         DEF C!GroupStep, C!LoopStep, C!Assign, C!Evict, C!PollIntervalExceeded, C!Poll,
             C!Seek, C!Commit, C!LoopDies
    <2> QED
      BY <1>5, <2>2, <2>3 DEF ConsumerStep
  <1>6. CASE UNCHANGED vars
    BY <1>2, <1>6 DEF vars, publisherVars, consumerVars
  <1> QED
    BY <1>1, <1>3, <1>4, <1>5, <1>6 DEF Next

\* What the publisher appends, CommandConsumer lets the world deliver.
LEMMA DeliveryMaps ==
  ASSUME PublisherInv, TokenInv, PairInv, UNCHANGED consumerVars,
         [P!Next]_(P!vars), topic' # topic
  PROVE  C!Next
  <1> USE DEF PublisherInv
  <1>1. ASSUME NEW j \in Jobs, topic' = Append(topic, j), outbox[j].status # "absent",
               NEW t \in Tokens(j), t[1] # "topic"
        PROVE  C!Deliver(j)
    <2>1. C!Copies(j) < outbox[j].leases /\ C!Copies(j) \in Nat
      BY <1>1, CopiesBound, SameCardinality DEF C!Copies, P!TypeOK, P!OutboxRow
    <2>2. outbox[j].leases \in 0 .. MaxLeases /\ MaxLeases \in Nat
      BY BusAssumption DEF P!TypeOK, P!OutboxRow, P!PublisherAssumption
    <2>3. C!Copies(j) < MaxLeases
      BY <2>1, <2>2
    <2>4. job[j].status # "absent"
      BY <1>1 DEF PairInv
    <2> QED
      BY <1>1, <2>3, <2>4 DEF C!Deliver, consumerVars
  <1>2. ASSUME NEW p \in Workers, P!BrokerAcks(p), topic' = Append(topic, P!Event(p))
        PROVE  C!Next
    <2> DEFINE e == P!Event(p)
               t == <<"unsent", p, 0>>
    <2>1. e \in Jobs /\ outbox[e].status # "absent"
      BY <1>2, EventTyped DEF P!BrokerAcks, P!AtWork
    <2>2. Unsent(p, e)
      BY <1>2, EventTyped DEF P!BrokerAcks, P!AtWork, Unsent
    <2>3. t \in Tokens(e) /\ t[1] # "topic"
      BY <2>2 DEF Tokens, IsToken
    <2> HIDE DEF t
    <2>4. C!Deliver(e)
      BY <1>1, <1>2, <2>1, <2>3
    <2> QED
      BY <2>1, <2>4 DEF C!Next
  <1>3. ASSUME NEW p \in Workers, NEW s \in held[p], topic' = Append(topic, s[1])
        PROVE  C!Next
    <2>1. PICK e \in Jobs, k \in 0 .. MaxLeases : s = <<e, k>>
      BY <1>3 DEF P!TypeOK, P!Send
    <2> DEFINE t == <<"held", p, k>>
    <2>2. t \in Tokens(e) /\ t[1] # "topic"
      <3>1. <<e, k>> \in held[p] /\ k \in Nat
        BY <1>3, <2>1
      <3> QED
        BY <3>1 DEF Tokens, IsToken
    <2>3. outbox[e].status # "absent" /\ topic' = Append(topic, e)
      BY <1>3, <2>1 DEF HeldInv
    <2> HIDE DEF t
    <2>4. C!Deliver(e)
      BY <1>1, <2>2, <2>3
    <2> QED
      BY <2>4 DEF C!Next
  <1> QED
    BY <1>2, <1>3, TopicStep

LEMMA ConsumerStepMaps ==
  ASSUME PublisherInv, TokenInv, PairInv, [Next]_vars
  PROVE  [C!Next]_(C!vars)
  <1>1. ASSUME NEW j \in Jobs, Enqueue(j) PROVE C!Next
    BY <1>1 DEF Enqueue, C!Next
  <1>2. ASSUME NEW w \in Workers, StartProcess(w) \/ StopProcess(w) \/ CrashProcess(w)
        PROVE  C!Next
    BY <1>2 DEF StartProcess, StopProcess, CrashProcess, C!Next, C!ProcessStep
  <1>3. CASE PublisherStep
    <2>1. P!Next /\ UNCHANGED consumerVars
      BY <1>3 DEF PublisherStep, P!Next
    <2>2. CASE topic' = topic
      BY <2>1, <2>2 DEF consumerVars, C!vars
    <2>3. CASE topic' # topic
      BY <2>1, <2>3, DeliveryMaps
    <2> QED
      BY <2>2, <2>3
  <1>4. CASE ConsumerStep
    BY <1>4 DEF ConsumerStep, C!Next
  <1>5. CASE UNCHANGED vars
    BY <1>5 DEF vars, consumerVars, C!vars
  <1> QED
    BY <1>1, <1>2, <1>3, <1>4, <1>5 DEF Next

\* The publisher delivers what CommandConsumer assumes of the topic, and nothing
\* else that it does is visible to the consumer's half.
THEOREM BusImplementsConsumer == Spec => ImplementsConsumer
  <1>1. Init => C!Init
    BY DEF Init
  <1>2. PublisherInv /\ PairInv /\ [Next]_vars => PairInv'
    BY PairStep
  <1>3. PublisherInv /\ TokenInv /\ PairInv /\ [Next]_vars => [C!Next]_(C!vars)
    BY ConsumerStepMaps
  <1> QED
    BY TokenCorrect, PairInit, <1>1, <1>2, <1>3, PTL DEF Spec, ImplementsConsumer, C!Spec
=============================================================================
