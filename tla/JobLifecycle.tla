---------------------------- MODULE JobLifecycle ----------------------------
(***************************************************************************)
(* What the job queue promises the operator about one job, without leases, *)
(* workers or retries: a job is submitted, it starts, and it ends once, as *)
(* completed, failed or cancelled; it ends as cancelled only if someone    *)
(* asked for that.  MigrationJobs implements this specification.           *)
(***************************************************************************)
CONSTANT Jobs

VARIABLES
  state,   \* [Jobs -> JobState]
  asked    \* jobs whose cancellation was asked for

vars == <<state, asked>>

JobState == {"absent", "queued", "running", "completed", "failed", "cancelled"}

Init ==
  /\ state = [j \in Jobs |-> "absent"]
  /\ asked = {}

Submit(j) ==
  /\ state[j] = "absent"
  /\ state' = [state EXCEPT ![j] = "queued"]
  /\ UNCHANGED asked

Start(j) ==
  /\ state[j] = "queued"
  /\ state' = [state EXCEPT ![j] = "running"]
  /\ UNCHANGED asked

\* A job that has not started is cancelled on the spot.
AskCancel(j) ==
  /\ asked' = asked \cup {j}
  /\ state' = [state EXCEPT ![j] = IF @ = "queued" THEN "cancelled" ELSE @]

End(j) ==
  /\ state[j] = "running"
  /\ \E result \in {"completed", "failed", "cancelled"} :
        /\ result = "cancelled" => j \in asked
        /\ state' = [state EXCEPT ![j] = result]
  /\ UNCHANGED asked

Next == \E j \in Jobs : Submit(j) \/ Start(j) \/ AskCancel(j) \/ End(j)

Spec == Init /\ [][Next]_vars
=============================================================================
