---------------------------- MODULE LiveMigration ----------------------------
(***************************************************************************)
(* A migration that is kept up to date and then cut over: executions of    *)
(* the delta synchronisation (DeltaSync) while operators pause, resume,    *)
(* freeze, take the inventory and finalize (Cutover).  They share the      *)
(* record of the migration and the registry of messages, and nothing       *)
(* orders them: an execution reads the record now and then, a finalize     *)
(* reads the registry while executions write it.                           *)
(***************************************************************************)
EXTENDS DeltaSync

CONSTANT Commands \* operators' commands that may be in flight together

VARIABLES
  inventory, command, \* see Cutover
  since,              \* [Commands -> messages whose row was written since the
                      \* finalize in flight read the registry] (history)
  unseen              \* the same for the finalize that completed the migration
                      \* (history)

C == INSTANCE Cutover

vars == <<deltaVars, state, inventory, command, since, unseen>>

Init ==
  /\ DeltaInit
  /\ C!CutoverInit
  /\ since = [c \in Commands |-> {}]
  /\ unseen = {}

\* The command is a finalize that has read the registry.
Deciding(e) == e.kind = "finalize" /\ e.phase \in {"attachments", "save"}

Written == {m \in Messages : row'[m] # row[m]}

\* A step of an execution: the commands do not move.
DeltaSide ==
  /\ DeltaStep
  /\ since' = [c \in Commands |-> IF Deciding(command[c]) THEN since[c] \cup Written ELSE {}]
  /\ unseen' = IF state'.status = "completed" THEN unseen \cup Written ELSE {}
  /\ UNCHANGED <<inventory, command>>

\* A step of a command: the executions do not move.
CommandSide ==
  /\ C!CommandStep \/ C!TakeInventory(Cardinality(InChat))
  /\ late' = IF state'.status = "active" THEN [x \in Deltas |-> 0] ELSE late
  /\ since' = [c \in Commands |-> IF Deciding(command'[c]) THEN since[c] ELSE {}]
  /\ unseen' = IF state'.status # "completed" THEN {}
               ELSE (UNION {since[c] : c \in {d \in Commands : C!SaveFinalized(d)}})
                    \cup (IF \E c \in Commands : C!SaveFinalized(c) THEN {} ELSE unseen)
  /\ UNCHANGED <<row, posted, checkpoint, delta, missed, faults>>

Next == DeltaSide \/ CommandSide

Spec == Init /\ [][Next]_vars

\* An execution's task is scheduled; whether a delivery is ever answered is what
\* the timeouts of the gateway see to.  Nobody has to start an execution or to give
\* a command.
FairSpec ==
  Spec /\ \A x \in Deltas : WF_vars(ExecutionStep(x) /\ DeltaSide)

-----------------------------------------------------------------------------
(* Properties.                                                             *)

\* The shape of both halves.
TypeOK ==
  /\ DeltaTypeOK
  /\ C!CutoverTypeOK

\* Every message that the checkpoint has passed belongs to another topic or date,
\* has a row that says what became of it, or was posted between the last fetch of
\* a catch-up and its subscription: nothing else is lost, whatever executions
\* overlap, die, or are cancelled.
OnlyTheGapIsLost ==
  \A m \in Messages :
     (BackfilledTo < m /\ m <= checkpoint /\ m \notin Elsewhere \cup missed)
        => row[m].status # "absent"

\* Once the record stops being active an execution that listens takes at most the
\* event it has already checked.
PauseStopsLive == \A x \in Deltas : late[x] <= 1

\* A migration that is completed was settled when its registry was read: what is
\* failed, ambiguous or in hand now was written since, by an execution that the
\* freeze did not stop.
CompletedWasSettled ==
  state.status = "completed" =>
    /\ state.frozen
    /\ \A m \in Messages \ unseen : row[m].status \in {"absent", "imported"}

Accounted(m) == m \in Elsewhere \cup missed \/ row[m].status # "absent"

\* While the record stays active and executions are there, a posted message is
\* tried, or falls into the gap.
PostedIsTried ==
  \A m \in Messages :
     (/\ <>[](state.status = "active")
      /\ []<>(\E x \in Deltas : Running(x))
      /\ <>(posted >= m))
     => <>Accounted(m)
=============================================================================
