---------------------------- MODULE DialogueProofs ----------------------------
(***************************************************************************)
(* Proofs about Dialogue and the sessions below it, for every set of       *)
(* operators and of callers, every choice of faults and every bound.       *)
(***************************************************************************)
EXTENDS Dialogue, TLAPS

-----------------------------------------------------------------------------
(* Types.                                                                  *)

\* A call that runs or was answered is an operator's.
CallInv == \A q \in Callers : call[q].phase # "idle" => call[q].who \in Operators

\* The questions of a migration, whose answers carry the options of a command.
Question == {"private_peer", "topics", "group_matrix", "channel_matrix", "access"}

\* A question belongs to a command.
OfCommand(s) == s.step \in Question => s.n \in Commands

\* What a handler is for says what it has in hand.
TaskShape(t) ==
  /\ t.phase # "idle" => t.who \in Operators
  /\ t.phase = "merge" => t.for \in {"configure", "start"}
  /\ t.phase = "start" => t.for = "start"
  /\ t.for \in {"prepare", "configure", "map", "start"} => t.n \in Commands
  /\ t.for = "map" => t.d.step \in Question
  /\ t.d.step \in Question => t.d.n = t.n
  /\ OfCommand(t.d)
  /\ OfCommand(t.next)

\* While a handler waits for the service, the call is its own.
TaskInv ==
  /\ \A o \in Operators : OfCommand(dialogue[o])
  /\ \A q \in Callers : TaskShape(task[q])
  /\ \A q \in Callers : task[q].phase = "call" => call[q].who = task[q].who

TypeInv == TypeOK /\ CallInv /\ TaskInv

\* A step of a handler at the border to the service: it begins a call, takes the
\* answer, or leaves the service alone.
Borders ==
  /\ UNCHANGED stored
  /\ events' \in 0 .. MaxEvents
  /\ \/ call' = call
     \/ \E q \in Callers, c \in Call :
          /\ c.phase = "idle" \/ (c.phase = "begin" /\ c.who \in Operators)
          /\ call' = [call EXCEPT ![q] = c]

LEMMA StateTypes ==
  /\ NoState \in State
  /\ NoConfig \in [owner : Operators \cup {NoOne}, by : [Options -> 0 .. MaxCommands]]
  /\ IdleTask \in Task
  /\ IdleCall \in Call
  /\ OfCommand(NoState)
  /\ \A step \in Step : Asks(step) \in State /\ Asks(step).step = step
                        /\ Asks(step).n = 0 /\ Asks(step).login = 0
  /\ WorkbookState \in State /\ OfCommand(WorkbookState)
  <1> USE SessionAssumption, DialogueAssumption
  <1>1. NoState \in State /\ OfCommand(NoState)
    BY DEF NoState, State, Step, OfCommand, Question
  <1>2. NoConfig \in [owner : Operators \cup {NoOne}, by : [Options -> 0 .. MaxCommands]]
    BY DEF NoConfig
  <1>3. IdleTask \in Task
    BY <1>1, <1>2 DEF IdleTask, Task, TaskPhase, Purpose
  <1>4. IdleCall \in Call
    BY DEF IdleCall, Call, CallPhase, Operation, Outcome, Sessions
  <1>5. ASSUME NEW step \in Step
        PROVE  Asks(step) \in State /\ Asks(step).step = step
               /\ Asks(step).n = 0 /\ Asks(step).login = 0
    <2>1. Asks(step) \in State
      BY <1>1 DEF Asks, State
    <2> QED
      BY <2>1 DEF Asks, NoState
  <1>6. WorkbookState \in State /\ OfCommand(WorkbookState)
    <2>1. "workbook" \in Step
      BY DEF Step
    <2>2. ASSUME NEW r \in State
          PROVE  [r EXCEPT !.chat = TRUE] \in State /\ [r EXCEPT !.chat = TRUE].step = r.step
      BY DEF State
    <2> QED
      BY <1>5, <2>1, <2>2 DEF WorkbookState, OfCommand, Question
  <1> QED
    BY <1>1, <1>2, <1>3, <1>4, <1>5, <1>6

LEMMA TypeInit == Init => TypeInv
  <1> SUFFICES ASSUME Init PROVE TypeInv
    OBVIOUS
  <1> USE SessionAssumption, DialogueAssumption
  <1>1. SessionTypeOK
    <2> USE DEF Init, SessionInit
    <2>1. record \in [Operators -> Sessions \cup {NoRecord, Unreadable}]
      BY DEF Sessions
    <2>2. challenge \in [Logins -> Challenge] /\ authorized \in [Logins -> Accepted]
      BY DEF Challenge, Accepted
    <2>3. loginOf \in [Logins -> Operators \cup {NoOne}]
      OBVIOUS
    <2>4. call \in [Callers -> Call]
      BY StateTypes
    <2> QED
      BY <2>1, <2>2, <2>3, <2>4 DEF SessionTypeOK
  <1>2. TypeOK
    BY <1>1, StateTypes DEF Init, TypeOK
  <1>3. CallInv
    BY DEF Init, SessionInit, CallInv, IdleCall
  <1>4. TaskInv
    BY DEF Init, TaskInv, TaskShape, OfCommand, Question, NoState, IdleTask
  <1> QED
    BY <1>2, <1>3, <1>4 DEF TypeInv

-----------------------------------------------------------------------------
(* The steps of the calls.                                                 *)

\* The call of p goes on as it was.
Keeps(p) ==
  /\ call'[p].phase = call[p].phase
  /\ call'[p].op = call[p].op
  /\ call'[p].who = call[p].who
  /\ call'[p].login = call[p].login
  /\ call'[p].saw = call[p].saw
  /\ call[p].overlapped => call'[p].overlapped

\* The call of p has not begun, or is over.
Rests(p) ==
  /\ call'[p].phase \in {"idle", "begin", "done"}
  /\ call'[p].phase # "idle" => call'[p].who \in Operators

\* The call of q goes on to a new phase, and the others go on as they were.
Advances(q) ==
  /\ call' \in [Callers -> Call]
  /\ \A p \in Callers \ {q} : Keeps(p)
  /\ call'[q].op = call[q].op
  /\ call'[q].who = call[q].who
  /\ call'[q].overlapped = call[q].overlapped
  /\ call[q].phase \notin {"idle", "done"}

\* What a call may be changed to.
LEMMA CallTypes ==
  ASSUME NEW c \in Call
  PROVE  /\ \A phase \in CallPhase : [c EXCEPT !.phase = phase] \in Call
         /\ \A phase \in CallPhase, s \in Sessions :
              [c EXCEPT !.phase = phase, !.saw = s] \in Call
         /\ \A outcome \in Outcome : [c EXCEPT !.phase = "done", !.outcome = outcome] \in Call
         /\ \A k \in Logins :
              [c EXCEPT !.phase = "done", !.outcome = "challenge", !.login = k] \in Call
         /\ [c EXCEPT !.overlapped = TRUE] \in Call
         /\ [c EXCEPT !.alone = TRUE] \in Call
  <1>1. "done" \in CallPhase /\ "challenge" \in Outcome
    BY DEF CallPhase, Outcome
  <1>2. ASSUME NEW k \in Logins PROVE k \in 0 .. MaxLogins
    BY SessionAssumption DEF Logins
  <1>3. \A phase \in CallPhase : [c EXCEPT !.phase = phase] \in Call
    BY DEF Call
  <1>4. \A phase \in CallPhase, s \in Sessions :
          [c EXCEPT !.phase = phase, !.saw = s] \in Call
    BY DEF Call
  <1>5. \A outcome \in Outcome : [c EXCEPT !.phase = "done", !.outcome = outcome] \in Call
    BY <1>1 DEF Call
  <1>6. \A k \in Logins :
          [c EXCEPT !.phase = "done", !.outcome = "challenge", !.login = k] \in Call
    BY <1>1, <1>2 DEF Call
  <1>7. [c EXCEPT !.overlapped = TRUE] \in Call
    BY DEF Call
  <1>8. [c EXCEPT !.alone = TRUE] \in Call
    BY DEF Call
  <1> QED
    BY <1>3, <1>4, <1>5, <1>6, <1>7, <1>8

LEMMA GoesEffect ==
  ASSUME SessionTypeOK, NEW q \in Callers, NEW phase \in CallPhase, Goes(q, phase),
         call[q].phase \notin {"idle", "done"}
  PROVE  /\ Advances(q)
         /\ call'[q].phase = phase /\ call'[q].login = call[q].login
         /\ call'[q].saw = call[q].saw
  <1>1. call \in [Callers -> Call]
    BY DEF SessionTypeOK
  <1>2. call[q] \in Call
    BY <1>1
  <1>3. call' = [call EXCEPT ![q] = [call[q] EXCEPT !.phase = phase]]
    BY <1>1 DEF Goes
  <1> DEFINE new == [call[q] EXCEPT !.phase = phase]
  <1>4. /\ new \in Call /\ new.phase = phase /\ new.op = call[q].op
        /\ new.who = call[q].who /\ new.login = call[q].login /\ new.saw = call[q].saw
        /\ new.overlapped = call[q].overlapped
    BY <1>2, CallTypes DEF Call
  <1>5. call' = [call EXCEPT ![q] = new]
    BY <1>3
  <1> HIDE DEF new
  <1> QED
    BY <1>1, <1>4, <1>5 DEF Advances, Keeps

LEMMA GoesWithEffect ==
  ASSUME SessionTypeOK, NEW q \in Callers, NEW phase \in CallPhase, NEW s \in Sessions,
         GoesWith(q, phase, s), call[q].phase \notin {"idle", "done"}
  PROVE  /\ Advances(q)
         /\ call'[q].phase = phase /\ call'[q].login = call[q].login
         /\ call'[q].saw = s
  <1>1. call \in [Callers -> Call]
    BY DEF SessionTypeOK
  <1>2. call[q] \in Call
    BY <1>1
  <1>3. call' = [call EXCEPT ![q] = [call[q] EXCEPT !.phase = phase, !.saw = s]]
    BY <1>1 DEF GoesWith
  <1> DEFINE new == [call[q] EXCEPT !.phase = phase, !.saw = s]
  <1>4. /\ new \in Call /\ new.phase = phase /\ new.op = call[q].op
        /\ new.who = call[q].who /\ new.login = call[q].login /\ new.saw = s
        /\ new.overlapped = call[q].overlapped
    BY <1>2, CallTypes DEF Call
  <1>5. call' = [call EXCEPT ![q] = new]
    BY <1>3
  <1> HIDE DEF new
  <1> QED
    BY <1>1, <1>4, <1>5 DEF Advances, Keeps

LEMMA AnswersEffect ==
  ASSUME SessionTypeOK, NEW q \in Callers, NEW outcome \in Outcome, Answers(q, outcome),
         call[q].phase \notin {"idle", "done"}
  PROVE  Advances(q) /\ call'[q].phase = "done"
  <1>1. call \in [Callers -> Call]
    BY DEF SessionTypeOK
  <1>2. call[q] \in Call
    BY <1>1
  <1>3. call' = [call EXCEPT ![q] = [call[q] EXCEPT !.phase = "done", !.outcome = outcome]]
    BY <1>1 DEF Answers
  <1> DEFINE new == [call[q] EXCEPT !.phase = "done", !.outcome = outcome]
  <1>4. /\ new \in Call /\ new.phase = "done" /\ new.op = call[q].op
        /\ new.who = call[q].who /\ new.overlapped = call[q].overlapped
    BY <1>2, CallTypes DEF Call
  <1>5. call' = [call EXCEPT ![q] = new]
    BY <1>3
  <1> HIDE DEF new
  <1> QED
    BY <1>1, <1>4, <1>5 DEF Advances, Keeps

\* A step of q's call, by what it does to the call.
Ends(q) == Advances(q) /\ call'[q].phase = "done"

Turns(q, phase) ==
  /\ Advances(q)
  /\ call'[q].phase = phase
  /\ call'[q].login = call[q].login
  /\ call'[q].saw = call[q].saw

Sees(q, phase, s) ==
  /\ Advances(q)
  /\ call'[q].phase = phase
  /\ call'[q].login = call[q].login
  /\ call'[q].saw = s

\* Nothing of the tables but what is named changes.
OnlyRecord == UNCHANGED <<challenge, loginOf, authorized, client, logins>>

OnlyLogin == UNCHANGED <<record, client, closed>>

\* A step of a call, seen from the tables.
CallEffect(q) ==
  \/ Ends(q) /\ UNCHANGED stored
  \/ /\ call[q].op \in {"code", "password"} /\ call[q].phase = "begin"
     /\ ChallengeOf(q) # "none"
     /\ Turns(q, "telegram") /\ UNCHANGED stored
  \/ call[q].op = "start" /\ Turns(q, "drop") /\ UNCHANGED stored
  \/ call[q].op = "start" /\ Turns(q, "telegram") /\ UNCHANGED stored
  \/ /\ call[q].op = "start" /\ Turns(q, "telegram") /\ OnlyRecord
     /\ DeleteRecord(call[q].who) /\ UNCHANGED closed
  \/ /\ Ends(q) /\ OnlyLogin /\ logins < MaxLogins /\ logins' = logins + 1
     /\ CreateChallenge(q, logins + 1) /\ UNCHANGED authorized
  \/ /\ call[q].op = "code" /\ call[q].phase = "telegram" /\ Ends(q) /\ OnlyLogin
     /\ authorized[call[q].login] # "full"
     /\ authorized' = [authorized EXCEPT ![call[q].login] = "code"]
     /\ MarkPasswordRequired(call[q].login) /\ UNCHANGED <<loginOf, logins>>
  \/ /\ call[q].op \in {"code", "password"} /\ call[q].phase = "telegram"
     /\ Turns(q, "persist") /\ OnlyLogin
     /\ authorized' = [authorized EXCEPT ![call[q].login] = "full"]
     /\ DeleteChallenge(call[q].login) /\ UNCHANGED <<loginOf, logins>>
  \/ /\ call[q].phase = "persist" /\ Ends(q) /\ OnlyRecord
     /\ Upsert(call[q].who, call[q].login)
  \/ /\ call[q].op = "disconnect" /\ UNCHANGED stored
     /\ Turns(q, "remove") \/ \E s \in Sessions : Sees(q, "close", s)
  \/ /\ call[q].op = "disconnect" /\ Turns(q, "remove")
     /\ client' = client \ {<<call[q].who, call[q].saw>>}
     /\ UNCHANGED <<record, challenge, loginOf, authorized, logins, closed>>
  \/ /\ Ends(q) /\ OnlyRecord /\ DeleteRecord(call[q].who)
     /\ closed' = closed \cup ({<<call[q].who, record[call[q].who]>>}
                                 \cap ({call[q].who} \X Sessions))
     /\ \A p \in Callers \ {q} :
          (Running(p) /\ call[p].who = call[q].who) => call'[p].overlapped
  \/ /\ call[q].op = "use" /\ call[q].phase = "begin" /\ UNCHANGED stored
     /\ record[call[q].who] \in Sessions /\ Sees(q, "touch", record[call[q].who])
  \/ call[q].op = "use" /\ Turns(q, "drop") /\ UNCHANGED stored
  \/ Ends(q) /\ OnlyRecord /\ DeleteRecord(call[q].who) /\ UNCHANGED closed
  \/ /\ call[q].op = "use" /\ call[q].phase = "touch" /\ Turns(q, "gateway") /\ OnlyRecord
     /\ Upsert(call[q].who, call[q].saw)
  \/ /\ call[q].op = "use" /\ call[q].phase = "gateway" /\ Ends(q)
     /\ client' = client \cup {<<call[q].who, call[q].saw>>}
     /\ UNCHANGED <<record, challenge, loginOf, authorized, logins, closed>>

LEMMA CallStepEffect ==
  ASSUME SessionTypeOK, CallInv, NEW q \in Callers, CallStep(q)
  PROVE  CallEffect(q)
  <1> USE DEF At
  <1> DEFINE Live == call[q].phase \notin {"idle", "done"}
  <1>t. "error" \in Outcome /\ "ok" \in Outcome /\ "password" \in Outcome
    BY DEF Outcome
  <1>p. /\ "drop" \in CallPhase /\ "telegram" \in CallPhase /\ "persist" \in CallPhase
        /\ "close" \in CallPhase /\ "remove" \in CallPhase /\ "touch" \in CallPhase
        /\ "gateway" \in CallPhase
    BY DEF CallPhase
  <1>e. ASSUME NEW outcome \in Outcome, Answers(q, outcome), Live PROVE Ends(q)
    BY <1>e, AnswersEffect DEF Ends
  <1>g. ASSUME NEW phase \in CallPhase, Goes(q, phase), Live PROVE Turns(q, phase)
    BY <1>g, GoesEffect DEF Turns
  <1>s. ASSUME NEW phase \in CallPhase, NEW s \in Sessions, GoesWith(q, phase, s), Live
        PROVE  Sees(q, phase, s)
    BY <1>s, GoesWithEffect DEF Sees
  <1>1. CASE StartRead(q)
    BY <1>1, <1>e, <1>g, <1>t, <1>p DEF StartRead, CallEffect, stored
  <1>2. CASE StartDrop(q)
    BY <1>2, <1>g, <1>p DEF StartDrop, CallEffect, OnlyRecord
  <1>3. CASE RequestCode(q)
    <2>1. CASE Answers(q, "error") /\ UNCHANGED <<challenge, loginOf, logins>>
      BY <1>3, <2>1, <1>e, <1>t DEF RequestCode, CallEffect, stored
    <2>2. CASE /\ logins < MaxLogins
               /\ logins' = logins + 1
               /\ CreateChallenge(q, logins + 1)
               /\ call' = [call EXCEPT ![q].phase = "done", ![q].outcome = "challenge",
                                       ![q].login = logins + 1]
      <3>1. call \in [Callers -> Call] /\ call[q] \in Call
        BY DEF SessionTypeOK
      <3>2. logins + 1 \in Logins
        BY <2>2, SessionAssumption DEF SessionTypeOK, Logins
      <3> DEFINE new == [call[q] EXCEPT !.phase = "done", !.outcome = "challenge",
                                        !.login = logins + 1]
      <3>3. call' = [call EXCEPT ![q] = new]
        BY <2>2, <3>1
      <3>4. new \in Call
        BY <3>1, <3>2, CallTypes
      <3>5. /\ new.phase = "done" /\ new.op = call[q].op
            /\ new.who = call[q].who /\ new.overlapped = call[q].overlapped
        BY <3>1 DEF Call
      <3>6. Live
        BY <1>3 DEF RequestCode
      <3> HIDE DEF new
      <3>7. Ends(q)
        BY <3>1, <3>3, <3>4, <3>5, <3>6 DEF Ends, Advances, Keeps
      <3> QED
        BY <1>3, <2>2, <3>7 DEF RequestCode, CallEffect, OnlyLogin
    <2> QED
      BY <1>3, <2>1, <2>2 DEF RequestCode
  <1>4. CASE GetChallenge(q)
    BY <1>4, <1>e, <1>g, <1>t, <1>p DEF GetChallenge, CallEffect, stored
  <1>5. CASE Refuse(q)
    BY <1>5, <1>e, <1>t DEF Refuse, CallEffect, stored
  <1>6. CASE SignInAsksPassword(q)
    BY <1>6, <1>e, <1>t DEF SignInAsksPassword, CallEffect, OnlyLogin
  <1>7. CASE SignIn(q) \/ SignInWithPassword(q)
    BY <1>7, <1>g, <1>p DEF SignIn, SignInWithPassword, CallEffect, OnlyLogin
  <1>8. CASE PersistRecord(q)
    BY <1>8, <1>e, <1>t DEF PersistRecord, CallEffect, OnlyRecord
  <1>9. CASE DisconnectRead(q)
    BY <1>9, <1>e, <1>g, <1>s, <1>t, <1>p DEF DisconnectRead, CallEffect, stored
  <1>10. CASE CloseSession(q)
    BY <1>10, <1>g, <1>p DEF CloseSession, CallEffect
  <1>11. CASE DisconnectRemove(q)
    <2> DEFINE new(p) ==
          IF p = q THEN [call[q] EXCEPT !.phase = "done", !.outcome = "ok"]
          ELSE IF Running(p) /\ call[p].who = call[q].who
            THEN [call[p] EXCEPT !.overlapped = TRUE] ELSE call[p]
    <2>1. call \in [Callers -> Call]
      BY DEF SessionTypeOK
    <2>2. call' = [p \in Callers |-> new(p)]
      BY <1>11 DEF DisconnectRemove
    <2>3. /\ new(q) \in Call /\ new(q).phase = "done" /\ new(q).op = call[q].op
          /\ new(q).who = call[q].who /\ new(q).overlapped = call[q].overlapped
      <3>1. new(q) = [call[q] EXCEPT !.phase = "done", !.outcome = "ok"]
        OBVIOUS
      <3>2. call[q] \in Call
        BY <2>1
      <3> QED
        BY <3>1, <3>2, <1>t, CallTypes DEF Call
    <2>4. ASSUME NEW p \in Callers \ {q}
          PROVE  /\ new(p) \in Call /\ new(p).phase = call[p].phase /\ new(p).op = call[p].op
                 /\ new(p).who = call[p].who /\ new(p).login = call[p].login
                 /\ new(p).saw = call[p].saw
                 /\ call[p].overlapped => new(p).overlapped
                 /\ (Running(p) /\ call[p].who = call[q].who) => new(p).overlapped
      <3>1. call[p] \in Call
        BY <2>1
      <3>2. CASE Running(p) /\ call[p].who = call[q].who
        <4>1. new(p) = [call[p] EXCEPT !.overlapped = TRUE]
          BY <3>2
        <4> QED
          BY <3>1, <4>1, CallTypes DEF Call
      <3>3. CASE ~(Running(p) /\ call[p].who = call[q].who)
        BY <3>1, <3>3
      <3> QED
        BY <3>2, <3>3
    <2> HIDE DEF new
    <2>5. Live
      BY <1>11 DEF DisconnectRemove
    <2>6. Ends(q)
      BY <2>2, <2>3, <2>4, <2>5 DEF Ends, Advances, Keeps
    <2>7. \A p \in Callers \ {q} :
            (Running(p) /\ call[p].who = call[q].who) => call'[p].overlapped
      BY <2>2, <2>4
    <2> QED
      BY <1>11, <2>6, <2>7 DEF DisconnectRemove, CallEffect, OnlyRecord
  <1>12. CASE ResolveRead(q)
    BY <1>12, <1>e, <1>g, <1>s, <1>t, <1>p DEF ResolveRead, CallEffect, stored
  <1>13. CASE ResolveDrop(q)
    BY <1>13, <1>e, <1>t DEF ResolveDrop, CallEffect, OnlyRecord
  <1>14. CASE Touch(q)
    BY <1>14, <1>g, <1>p DEF Touch, CallEffect, OnlyRecord
  <1>15. CASE TakeClient(q)
    <2>1. PICK outcome \in {"ok", "error"} : Answers(q, outcome)
      BY <1>15 DEF TakeClient
    <2>2. Ends(q)
      BY <1>15, <2>1, <1>e, <1>t DEF TakeClient
    <2> QED
      BY <1>15, <2>2 DEF TakeClient, CallEffect
  <1> QED
    BY <1>1, <1>2, <1>3, <1>4, <1>5, <1>6, <1>7, <1>8, <1>9, <1>10, <1>11, <1>12, <1>13,
       <1>14, <1>15 DEF CallStep

\* A step of the session part other than a call's: calls rest or go on, and of the
\* tables only challenges and clients may go.
Outside ==
  /\ call' \in [Callers -> Call]
  /\ \A p \in Callers : Keeps(p) \/ Rests(p)
  /\ UNCHANGED <<record, loginOf, authorized, logins, closed>>
  /\ challenge' \in [Logins -> Challenge]
  /\ \A k \in Logins : challenge'[k] \in {challenge[k], "none"}
  /\ client' \subseteq client
  /\ events' \in 0 .. MaxEvents

LEMMA OutsideEffect ==
  ASSUME SessionTypeOK, CallInv,
         Borders \/ SessionEnvironment \/ \E q \in Callers : CallerGivesUp(q)
  PROVE  Outside
  <1>1. call \in [Callers -> Call] /\ challenge \in [Logins -> Challenge]
    BY DEF SessionTypeOK
  <1>2. \A p \in Callers : call' = call => Keeps(p)
    BY DEF Keeps
  <1>3. SessionTypeOK => events \in 0 .. MaxEvents
    BY DEF SessionTypeOK
  <1>4. ASSUME Happens PROVE events' \in 0 .. MaxEvents
    BY <1>3, <1>4, SessionAssumption DEF Happens
  <1>5. "none" \in Challenge
    BY DEF Challenge
  <1>6. CASE Borders
    <2>1. UNCHANGED stored /\ events' \in 0 .. MaxEvents
      BY <1>6 DEF Borders
    <2>2. CASE call' = call
      BY <1>1, <1>2, <2>1, <2>2 DEF Outside, stored
    <2>3. ASSUME NEW q \in Callers, NEW c \in Call,
                 c.phase = "idle" \/ (c.phase = "begin" /\ c.who \in Operators),
                 call' = [call EXCEPT ![q] = c]
          PROVE  Outside
      <3>1. call' \in [Callers -> Call]
        BY <1>1, <2>3
      <3>2. \A p \in Callers : Keeps(p) \/ Rests(p)
        BY <1>1, <2>3 DEF Keeps, Rests
      <3> QED
        BY <1>1, <2>1, <3>1, <3>2 DEF Outside, stored
    <2> QED
      BY <1>6, <2>2, <2>3 DEF Borders
  <1>7. ASSUME NEW k \in Logins, ChallengeExpires(k) PROVE Outside
    <2>1. challenge' = [challenge EXCEPT ![k] = "none"]
      BY <1>7 DEF ChallengeExpires, DeleteChallenge
    <2>2. /\ challenge' \in [Logins -> Challenge]
          /\ \A l \in Logins : challenge'[l] \in {challenge[l], "none"}
      BY <1>1, <1>5, <2>1
    <2> QED
      BY <1>1, <1>2, <1>3, <1>7, <2>2 DEF ChallengeExpires, Outside
  <1>8. CASE ServiceRestarts
    <2> DEFINE new(p) == IF Running(p)
                           THEN [call[p] EXCEPT !.phase = "done", !.outcome = "error"]
                           ELSE call[p]
    <2>1. call' = [p \in Callers |-> new(p)]
      BY <1>8 DEF ServiceRestarts
    <2>2. ASSUME NEW p \in Callers
          PROVE  /\ new(p) \in Call
                 /\ \/ new(p) = call[p]
                    \/ /\ new(p).phase = "done" /\ new(p).who = call[p].who
                       /\ call[p].phase # "idle"
      <3>1. call[p] \in Call /\ "error" \in Outcome
        BY <1>1 DEF Outcome
      <3>2. CASE Running(p)
        <4>1. new(p) = [call[p] EXCEPT !.phase = "done", !.outcome = "error"]
          BY <3>2
        <4> QED
          BY <3>1, <3>2, <4>1, CallTypes DEF Running, Call
      <3> QED
        BY <3>1, <3>2
    <2> HIDE DEF new
    <2>3. call' \in [Callers -> Call]
      BY <2>1, <2>2
    <2>4. \A p \in Callers : Keeps(p) \/ Rests(p)
      BY <2>1, <2>2 DEF Keeps, Rests, CallInv
    <2>5. /\ challenge' \in [Logins -> Challenge]
          /\ \A l \in Logins : challenge'[l] \in {challenge[l], "none"}
          /\ client' \subseteq client
      BY <1>5, <1>8 DEF ServiceRestarts
    <2> QED
      BY <1>4, <1>8, <2>3, <2>4, <2>5 DEF ServiceRestarts, SessionFault, Outside
  <1>9. ASSUME NEW q \in Callers, CallerGivesUp(q) PROVE Outside
    <2> DEFINE new == [call[q] EXCEPT !.alone = TRUE]
    <2>1. call' = [call EXCEPT ![q] = new]
      BY <1>1, <1>9 DEF CallerGivesUp
    <2>2. /\ new \in Call /\ new.phase = call[q].phase /\ new.op = call[q].op
          /\ new.who = call[q].who /\ new.login = call[q].login /\ new.saw = call[q].saw
          /\ call[q].overlapped => new.overlapped
      <3>1. call[q] \in Call
        BY <1>1
      <3>2. new \in Call
        BY <3>1, CallTypes
      <3> QED
        BY <3>1, <3>2 DEF Call
    <2> HIDE DEF new
    <2>3. call' \in [Callers -> Call]
      BY <1>1, <2>1, <2>2
    <2>4. \A p \in Callers : Keeps(p)
      BY <1>1, <2>1, <2>2 DEF Keeps
    <2> QED
      BY <1>1, <1>4, <1>9, <2>3, <2>4 DEF CallerGivesUp, SessionFault, Outside
  <1> QED
    BY <1>6, <1>7, <1>8, <1>9 DEF SessionEnvironment

LEMMA SessionTypeStep ==
  ASSUME SessionTypeOK, CallInv,
         Outside \/ \E q \in Callers : CallEffect(q) /\ UNCHANGED events
  PROVE  SessionTypeOK' /\ CallInv'
  <1> USE SessionAssumption
  <1>1. CASE Outside
    <2>1. CallInv'
      BY <1>1 DEF Outside, CallInv, Keeps, Rests
    <2> QED
      BY <1>1, <2>1 DEF Outside, SessionTypeOK
  <1>2. ASSUME NEW q \in Callers, CallEffect(q), UNCHANGED events
        PROVE  SessionTypeOK' /\ CallInv'
    <2> DEFINE o == call[q].who
    <2>1. Advances(q)
      BY <1>2 DEF CallEffect, Ends, Turns, Sees
    <2>2. o \in Operators /\ call[q] \in Call
      BY <2>1 DEF CallInv, Advances, SessionTypeOK
    <2>3. call[q].login \in Sessions /\ call[q].saw \in Sessions
      BY <2>2 DEF Call, Sessions
    <2>4. CallInv'
      BY <2>1, <2>2 DEF CallInv, Advances, Keeps
    <2>5. call' \in [Callers -> Call] /\ events' \in 0 .. MaxEvents
      BY <1>2, <2>1 DEF Advances, SessionTypeOK
    <2>6. ASSUME UNCHANGED record \/ DeleteRecord(o) \/ Upsert(o, call[q].login)
                 \/ Upsert(o, call[q].saw)
          PROVE  record' \in [Operators -> Sessions \cup {NoRecord, Unreadable}]
      <3>1. record \in [Operators -> Sessions \cup {NoRecord, Unreadable}]
        BY DEF SessionTypeOK
      <3> QED
        BY <2>3, <2>6, <3>1 DEF DeleteRecord, Upsert
    <2>7. record' \in [Operators -> Sessions \cup {NoRecord, Unreadable}]
      BY <1>2, <2>6 DEF CallEffect, stored, OnlyLogin
    <2>8. /\ challenge' \in [Logins -> Challenge]
          /\ authorized' \in [Logins -> Accepted]
      <3>1. /\ challenge \in [Logins -> Challenge] /\ authorized \in [Logins -> Accepted]
            /\ {"none", "code", "password"} \subseteq Challenge
            /\ {"code", "full"} \subseteq Accepted
        BY DEF SessionTypeOK, Challenge, Accepted
      <3>2. challenge' \in [Logins -> Challenge]
        BY <1>2, <3>1 DEF CallEffect, stored, OnlyRecord, CreateChallenge,
           MarkPasswordRequired, DeleteChallenge
      <3>3. authorized' \in [Logins -> Accepted]
        BY <1>2, <3>1 DEF CallEffect, stored, OnlyRecord
      <3> QED
        BY <3>2, <3>3
    <2>9. loginOf' \in [Logins -> Operators \cup {NoOne}] /\ logins' \in 0 .. MaxLogins
      <3>1. loginOf \in [Logins -> Operators \cup {NoOne}] /\ logins \in 0 .. MaxLogins
        BY DEF SessionTypeOK
      <3>2. loginOf' \in [Logins -> Operators \cup {NoOne}]
        BY <1>2, <2>2, <3>1 DEF CallEffect, stored, OnlyRecord, CreateChallenge
      <3>3. logins' \in 0 .. MaxLogins
        BY <1>2, <3>1 DEF CallEffect, stored, OnlyRecord
      <3> QED
        BY <3>2, <3>3
    <2>10. client' \subseteq Operators \X Sessions /\ closed' \subseteq Operators \X Sessions
      <3>1. client \subseteq Operators \X Sessions /\ closed \subseteq Operators \X Sessions
        BY DEF SessionTypeOK
      <3>2. <<o, call[q].saw>> \in Operators \X Sessions
        BY <2>2, <2>3
      <3>3. {o} \X Sessions \subseteq Operators \X Sessions
        BY <2>2
      <3>4. closed' \subseteq closed \cup ({o} \X Sessions)
        BY <1>2 DEF CallEffect, stored, OnlyLogin, Upsert
      <3>5. client' \subseteq client \cup {<<o, call[q].saw>>}
        BY <1>2 DEF CallEffect, stored, OnlyLogin, OnlyRecord
      <3> QED
        BY <3>1, <3>2, <3>3, <3>4, <3>5
    <2> QED
      BY <2>4, <2>5, <2>7, <2>8, <2>9, <2>10 DEF SessionTypeOK
  <1> QED
    BY <1>1, <1>2

-----------------------------------------------------------------------------
(* Sessions.                                                               *)

\* Session k is o's own, and Telegram has accepted the whole of its login.
Whole(o, k) == loginOf[k] = o /\ authorized[k] = "full"

\* What a call has in hand is whole: what it read, and what it is about to store; a
\* code or a password is only asked of a login of the caller's own.
WholeCall(c) ==
  /\ (c.op \in {"code", "password"} /\ c.phase = "telegram")
       => c.login \in Logins /\ loginOf[c.login] = c.who
  /\ c.phase = "persist" =>
       c.op \in {"code", "password"} /\ c.login \in Logins /\ Whole(c.who, c.login)
  /\ c.phase \in {"touch", "gateway"} =>
       c.op = "use" /\ (c.saw \in Logins => Whole(c.who, c.saw))

\* The strengthening of LoginIsWhole: a login that was not begun belongs to nobody,
\* and one that is complete takes no further code.
LoginInv ==
  /\ \A o \in Operators : record[o] \in Logins => Whole(o, record[o])
  /\ \A k \in Logins : k > logins => loginOf[k] = NoOne /\ authorized[k] = "none"
  /\ \A k \in Logins : authorized[k] = "full" => challenge[k] = "none"
  /\ \A q \in Callers : WholeCall(call[q])

\* The strengthening of RemovedStaysRemoved: what is removed is nobody's record; it was
\* whole; and it is in hand only of calls that were running at its removal.
Holds(c, s) ==
  \/ c.op \in {"code", "password"} /\ c.phase \in {"telegram", "persist"} /\ c.login = s
  \/ c.op = "use" /\ c.phase \in {"touch", "gateway"} /\ c.saw = s

ClosedInv ==
  /\ \A o \in Operators : <<o, record[o]>> \notin closed
  /\ \A o \in Operators, k \in Logins : <<o, k>> \in closed => Whole(o, k)
  /\ \A q \in Callers, s \in Sessions :
       (Holds(call[q], s) /\ <<call[q].who, s>> \in closed) => call[q].overlapped

\* The same of the next state.
WholeThen(o, k) == loginOf'[k] = o /\ authorized'[k] = "full"

\* What is whole stays whole.
LEMMA WholeStays ==
  ASSUME SessionTypeOK, LoginInv, NEW q \in Callers, CallEffect(q),
         NEW o \in Operators, NEW k \in Logins, Whole(o, k)
  PROVE  WholeThen(o, k)
  <1> USE SessionAssumption
  <1>1. loginOf \in [Logins -> Operators \cup {NoOne}] /\ authorized \in [Logins -> Accepted]
    BY DEF SessionTypeOK
  <1>2. ~ (k > logins)
    BY DEF LoginInv, Whole
  <1>3. k # logins + 1
    BY <1>2 DEF Logins, SessionTypeOK
  <1>4. loginOf'[k] = loginOf[k]
    BY <1>1, <1>3 DEF CallEffect, stored, OnlyRecord, CreateChallenge
  <1>5. authorized'[k] = "full"
    BY <1>1 DEF CallEffect, stored, OnlyRecord, Whole
  <1> QED
    BY <1>4, <1>5 DEF Whole, WholeThen

LEMMA LoginInvInit == Init => LoginInv
  BY SessionAssumption
     DEF Init, SessionInit, LoginInv, Whole, WholeCall, IdleCall, Logins, NoRecord, Unreadable

LEMMA LoginInvStep ==
  ASSUME SessionTypeOK, CallInv, LoginInv, Outside \/ \E q \in Callers : CallEffect(q)
  PROVE  LoginInv'
  <1> USE SessionAssumption
  <1>1. CASE Outside
    <2>1. \A p \in Callers : WholeCall(call[p])'
      BY <1>1 DEF Outside, Keeps, Rests, WholeCall, LoginInv, Whole
    <2> QED
      BY <1>1, <2>1 DEF Outside, LoginInv, Whole
  <1>2. ASSUME NEW q \in Callers, CallEffect(q) PROVE LoginInv'
    <2> DEFINE o == call[q].who
    <2>1. Advances(q)
      BY <1>2 DEF CallEffect, Ends, Turns, Sees
    <2>2. o \in Operators /\ call[q] \in Call
      BY <2>1 DEF CallInv, Advances, SessionTypeOK
    <2>3. \A p \in Operators, k \in Logins : Whole(p, k) => WholeThen(p, k)
      BY <1>2, WholeStays
    <2>4. /\ record \in [Operators -> Sessions \cup {NoRecord, Unreadable}]
          /\ challenge \in [Logins -> Challenge]
          /\ loginOf \in [Logins -> Operators \cup {NoOne}]
          /\ authorized \in [Logins -> Accepted]
          /\ logins \in 0 .. MaxLogins
      BY DEF SessionTypeOK
    <2>5. WholeCall(call[q])
      BY DEF LoginInv
    <2>6. ASSUME NEW p \in Operators, record'[p] \in Logins
          PROVE  WholeThen(p, record'[p])
      <3>1. CASE record'[p] = record[p]
        <4>1. Whole(p, record[p])
          BY <2>6, <3>1 DEF LoginInv
        <4> QED
          BY <2>3, <2>6, <3>1, <4>1
      <3>2. CASE DeleteRecord(o)
        BY <2>4, <2>6, <3>1, <3>2 DEF DeleteRecord, NoRecord, Logins
      <3>3. CASE call[q].phase = "persist" /\ Upsert(o, call[q].login)
        <4>1. (p = o /\ record'[p] = call[q].login) \/ record'[p] = record[p]
          BY <2>4, <3>3 DEF Upsert
        <4>2. Whole(o, call[q].login) /\ call[q].login \in Logins
          BY <2>5, <3>3 DEF WholeCall
        <4> QED
          BY <2>2, <2>3, <3>1, <4>1, <4>2
      <3>4. CASE call[q].phase = "touch" /\ Upsert(o, call[q].saw)
        <4>1. (p = o /\ record'[p] = call[q].saw) \/ record'[p] = record[p]
          BY <2>4, <3>4 DEF Upsert
        <4>2. call[q].saw \in Logins => Whole(o, call[q].saw)
          BY <2>5, <3>4 DEF WholeCall
        <4> QED
          BY <2>2, <2>3, <2>6, <3>1, <4>1, <4>2
      <3> QED
        BY <1>2, <3>1, <3>2, <3>3, <3>4 DEF CallEffect, stored, OnlyLogin
    <2>7. ASSUME NEW k \in Logins, k > logins'
          PROVE  loginOf'[k] = NoOne /\ authorized'[k] = "none"
      <3>1. logins' = logins \/ logins' = logins + 1
        BY <1>2 DEF CallEffect, stored, OnlyRecord
      <3>2. k > logins /\ (logins' = logins \/ k # logins + 1)
        BY <2>4, <2>7, <3>1 DEF Logins
      <3>3. loginOf[k] = NoOne /\ authorized[k] = "none"
        BY <3>2 DEF LoginInv
      <3>4. \/ loginOf' = loginOf
            \/ k # logins + 1 /\ CreateChallenge(q, logins + 1)
        BY <1>2, <2>4, <3>2 DEF CallEffect, stored, OnlyRecord
      <3>5. loginOf'[k] = NoOne
        BY <2>4, <3>3, <3>4 DEF CreateChallenge
      <3>6. CASE authorized' = authorized
        BY <3>3, <3>5, <3>6
      <3>7. CASE call[q].op \in {"code", "password"} /\ call[q].phase = "telegram"
        <4>1. call[q].login # k
          BY <2>2, <2>5, <3>3, <3>7 DEF WholeCall
        <4>2. authorized'[k] = authorized[k]
          BY <1>2, <2>4, <4>1 DEF CallEffect, stored, OnlyRecord
        <4> QED
          BY <3>3, <3>5, <4>2
      <3> QED
        BY <1>2, <3>6, <3>7 DEF CallEffect, stored, OnlyRecord
    <2>8. ASSUME NEW k \in Logins, authorized'[k] = "full"
          PROVE  challenge'[k] = "none"
      <3>1. CASE challenge' = challenge /\ authorized' = authorized
        BY <2>8, <3>1 DEF LoginInv
      <3>2. CASE CreateChallenge(q, logins + 1) /\ UNCHANGED authorized
        <4>1. k # logins + 1
          BY <2>4, <2>8, <3>2 DEF LoginInv
        <4> QED
          BY <2>4, <2>8, <3>2, <4>1 DEF CreateChallenge, LoginInv
      <3>3. CASE /\ authorized' = [authorized EXCEPT ![call[q].login] = "code"]
                 /\ MarkPasswordRequired(call[q].login)
        <4>1. k # call[q].login
          BY <2>4, <2>8, <3>3
        <4> QED
          BY <2>4, <2>8, <3>3, <4>1 DEF MarkPasswordRequired, LoginInv
      <3>4. CASE /\ authorized' = [authorized EXCEPT ![call[q].login] = "full"]
                 /\ DeleteChallenge(call[q].login)
        BY <2>4, <2>8, <3>4 DEF DeleteChallenge, LoginInv
      <3> QED
        BY <1>2, <3>1, <3>2, <3>3, <3>4 DEF CallEffect, stored, OnlyRecord
    <2>9. ASSUME NEW p \in Callers \ {q} PROVE WholeCall(call[p])'
      <3>1. Keeps(p) /\ WholeCall(call[p])
        BY <2>1 DEF Advances, LoginInv
      <3>2. call[p].phase # "idle" => call[p].who \in Operators
        BY DEF CallInv
      <3>3. ASSUME NEW k \in Logins, loginOf[k] # NoOne PROVE loginOf'[k] = loginOf[k]
        <4>1. k # logins + 1
          BY <2>4, <3>3 DEF LoginInv
        <4> QED
          BY <1>2, <2>4, <4>1 DEF CallEffect, stored, OnlyRecord, CreateChallenge
      <3>4. (call[p].op \in {"code", "password"} /\ call[p].phase = "telegram")
              => /\ call[p].login \in Logins /\ loginOf[call[p].login] = call[p].who
                 /\ loginOf'[call[p].login] = call[p].who
        BY <3>1, <3>2, <3>3 DEF WholeCall
      <3>5. call[p].phase = "persist" =>
              /\ call[p].op \in {"code", "password"} /\ call[p].login \in Logins
              /\ WholeThen(call[p].who, call[p].login)
        BY <2>3, <3>1, <3>2 DEF WholeCall
      <3>6. call[p].phase \in {"touch", "gateway"} =>
              /\ call[p].op = "use"
              /\ call[p].saw \in Logins => WholeThen(call[p].who, call[p].saw)
        BY <2>3, <3>1, <3>2 DEF WholeCall
      <3> QED
        BY <3>1, <3>4, <3>5, <3>6 DEF WholeCall, Keeps, Whole, WholeThen
    <2>10. WholeCall(call[q])'
      <3>1. CASE Ends(q)
        BY <3>1 DEF Ends, WholeCall
      <3>2. CASE /\ call[q].op \in {"code", "password"} /\ call[q].phase = "begin"
                 /\ ChallengeOf(q) # "none"
                 /\ Turns(q, "telegram") /\ UNCHANGED stored
        BY <3>2 DEF Turns, Advances, WholeCall, ChallengeOf, stored
      <3>3. CASE /\ call[q].op \in {"code", "password"} /\ call[q].phase = "telegram"
                 /\ Turns(q, "persist") /\ OnlyLogin
                 /\ authorized' = [authorized EXCEPT ![call[q].login] = "full"]
                 /\ DeleteChallenge(call[q].login) /\ UNCHANGED <<loginOf, logins>>
        BY <2>4, <2>5, <3>3 DEF Turns, Advances, WholeCall, Whole
      <3>4. CASE /\ call[q].op = "use" /\ call[q].phase = "begin" /\ UNCHANGED stored
                 /\ record[o] \in Sessions /\ Sees(q, "touch", record[o])
        BY <2>2, <3>4 DEF Sees, Advances, WholeCall, Whole, stored, LoginInv
      <3>5. CASE /\ call[q].op = "use" /\ call[q].phase = "touch" /\ Turns(q, "gateway")
                 /\ OnlyRecord
        BY <2>5, <3>5 DEF Turns, Advances, WholeCall, Whole, OnlyRecord
      <3>6. CASE call[q].op = "start" /\ Turns(q, "telegram")
        BY <3>6 DEF Turns, Advances, WholeCall
      <3>7. CASE Turns(q, "drop") \/ Turns(q, "remove") \/ \E s \in Sessions : Sees(q, "close", s)
        BY <3>7 DEF Turns, Sees, WholeCall
      <3> QED
        BY <1>2, <3>1, <3>2, <3>3, <3>4, <3>5, <3>6, <3>7 DEF CallEffect
    <2> QED
      BY <2>6, <2>7, <2>8, <2>9, <2>10 DEF LoginInv, Whole, WholeThen
  <1> QED
    BY <1>1, <1>2

LEMMA ClosedInvInit == Init => ClosedInv
  BY DEF Init, SessionInit, ClosedInv

\* What becomes of the removed sessions in a step of q's call.
LEMMA ClosedGrows ==
  ASSUME SessionTypeOK, CallInv, NEW q \in Callers, CallEffect(q)
  PROVE  \/ closed' \subseteq closed
         \/ /\ closed' \subseteq closed \cup {<<call[q].who, record[call[q].who]>>}
            /\ record[call[q].who] \in Sessions => ~ (record[call[q].who] = record'[call[q].who])
            /\ Ends(q)
            /\ \A p \in Callers \ {q} :
                 (Running(p) /\ call[p].who = call[q].who) => call'[p].overlapped
  <1>1. Advances(q)
    BY DEF CallEffect, Ends, Turns, Sees
  <1>2. call[q].who \in Operators
    BY <1>1 DEF CallInv, Advances
  <1>3. ASSUME DeleteRecord(call[q].who), record[call[q].who] \in Sessions
        PROVE  record[call[q].who] # record'[call[q].who]
    BY <1>2, <1>3, SessionAssumption DEF DeleteRecord, SessionTypeOK, Sessions, NoRecord
  <1> QED
    BY <1>3 DEF CallEffect, stored, OnlyLogin, Upsert

LEMMA ClosedInvStep ==
  ASSUME SessionTypeOK, CallInv, LoginInv, ClosedInv,
         Outside \/ \E q \in Callers : CallEffect(q)
  PROVE  ClosedInv'
  <1> USE SessionAssumption
  <1>1. CASE Outside
    <2>1. ASSUME NEW p \in Callers, NEW s \in Sessions, Holds(call[p], s)',
                 <<call'[p].who, s>> \in closed'
          PROVE  call'[p].overlapped
      <3>1. Keeps(p)
        BY <1>1, <2>1 DEF Outside, Rests, Holds
      <3>2. Holds(call[p], s) /\ <<call[p].who, s>> \in closed
        BY <1>1, <2>1, <3>1 DEF Outside, Keeps, Holds
      <3> QED
        BY <3>1, <3>2 DEF ClosedInv, Keeps
    <2> QED
      BY <1>1, <2>1 DEF Outside, ClosedInv, Whole
  <1>2. ASSUME NEW q \in Callers, CallEffect(q) PROVE ClosedInv'
    <2> DEFINE o == call[q].who
    <2>1. Advances(q)
      BY <1>2 DEF CallEffect, Ends, Turns, Sees
    <2>2. o \in Operators /\ call[q] \in Call
      BY <2>1 DEF CallInv, Advances, SessionTypeOK
    <2>3. record \in [Operators -> Sessions \cup {NoRecord, Unreadable}]
          /\ closed \subseteq Operators \X Sessions
      BY DEF SessionTypeOK
    <2>4. closed' \subseteq closed \cup {<<o, record[o]>>}
      BY <1>2, ClosedGrows
    <2>5. ASSUME NEW p \in Operators, NEW k \in Logins, <<p, k>> \in closed'
          PROVE  WholeThen(p, k)
      <3>1. Whole(p, k)
        BY <2>4, <2>5 DEF ClosedInv, LoginInv
      <3> QED
        BY <1>2, <3>1, WholeStays
    <2>6. ASSUME NEW p \in Operators PROVE <<p, record'[p]>> \notin closed'
      <3>1. CASE record' = record /\ closed' \subseteq closed
        BY <3>1 DEF ClosedInv
      <3>2. CASE DeleteRecord(o)
        <4>1. /\ p = o => record'[p] = NoRecord
              /\ p # o => record'[p] = record[p]
          BY <2>2, <2>3, <3>2 DEF DeleteRecord
        <4>2. <<o, NoRecord>> \notin closed'
          <5>1. closed' \subseteq closed \cup ({o} \X Sessions)
            BY <1>2 DEF CallEffect, stored, OnlyLogin, Upsert
          <5>2. NoRecord \notin Sessions
            BY DEF NoRecord, Sessions
          <5> QED
            BY <2>3, <5>1, <5>2
        <4>3. p # o => <<p, record[p]>> \notin closed'
          BY <2>4 DEF ClosedInv
        <4> QED
          BY <4>1, <4>2, <4>3
      <3>3. ASSUME NEW s, Upsert(o, s) PROVE <<p, record'[p]>> \notin closed'
        <4>1. /\ p = o => record'[p] = s
              /\ p # o => record'[p] = record[p]
          BY <2>2, <2>3, <3>3 DEF Upsert
        <4>2. <<o, s>> \notin closed' /\ closed' \subseteq closed
          BY <3>3 DEF Upsert
        <4> QED
          BY <4>1, <4>2 DEF ClosedInv
      <3>4. \/ record' = record /\ closed' \subseteq closed
            \/ DeleteRecord(o)
            \/ Upsert(o, call[q].login) \/ Upsert(o, call[q].saw)
        BY <1>2 DEF CallEffect, stored, OnlyLogin
      <3> QED
        BY <3>1, <3>2, <3>3, <3>4
    <2>7. ASSUME NEW p \in Callers \ {q}, NEW s \in Sessions, Holds(call[p], s)',
                 <<call'[p].who, s>> \in closed'
          PROVE  call'[p].overlapped
      <3>1. Keeps(p)
        BY <2>1 DEF Advances
      <3>2. Holds(call[p], s) /\ call'[p].who = call[p].who
        BY <2>7, <3>1 DEF Keeps, Holds
      <3>3. CASE <<call[p].who, s>> \in closed
        BY <3>1, <3>2, <3>3 DEF ClosedInv, Keeps
      <3>4. CASE <<call[p].who, s>> \notin closed
        <4>1. call[p].who = o
          BY <2>4, <2>7, <3>2, <3>4
        <4>2. Running(p)
          BY <3>2 DEF Holds, Running
        <4> QED
          BY <1>2, <2>7, <3>2, <3>4, <4>1, <4>2, ClosedGrows
      <3> QED
        BY <3>3, <3>4
    <2>8. ASSUME NEW s \in Sessions, Holds(call[q], s)', <<call'[q].who, s>> \in closed'
          PROVE  call'[q].overlapped
      <3>1. ~Ends(q)
        BY <2>8 DEF Ends, Holds
      <3>2. closed' \subseteq closed
        BY <1>2, <3>1, ClosedGrows
      <3>3. /\ call'[q].who = o /\ call'[q].overlapped = call[q].overlapped
            /\ call'[q].op = call[q].op
        BY <2>1 DEF Advances
      <3>4. CASE Holds(call[q], s)
        BY <2>8, <3>2, <3>3, <3>4 DEF ClosedInv
      <3>5. CASE ~Holds(call[q], s)
        <4>1. CASE /\ call[q].op \in {"code", "password"} /\ call[q].phase = "begin"
                   /\ ChallengeOf(q) # "none" /\ Turns(q, "telegram")
          <5>1. call[q].login = s
            BY <2>8, <3>3, <4>1 DEF Holds, Turns
          <5>2. s \in Logins /\ challenge[s] # "none"
            BY <4>1, <5>1 DEF ChallengeOf
          <5>3. <<o, s>> \notin closed
            BY <2>2, <5>2 DEF ClosedInv, LoginInv, Whole
          <5> QED
            BY <2>8, <3>2, <3>3, <5>3
        <4>2. CASE /\ call[q].op = "use" /\ call[q].phase = "begin"
                   /\ record[o] \in Sessions /\ Sees(q, "touch", record[o])
          <5>1. record[o] = s
            BY <2>8, <3>3, <4>2 DEF Holds, Sees
          <5> QED
            BY <2>2, <2>8, <3>2, <3>3, <5>1 DEF ClosedInv
        <4>3. CASE \/ Turns(q, "drop") \/ Turns(q, "remove")
                   \/ call[q].op = "start" /\ Turns(q, "telegram")
                   \/ \E k \in Sessions : Sees(q, "close", k)
          BY <2>8, <4>3 DEF Turns, Sees, Advances, Holds
        <4>4. CASE /\ call[q].op \in {"code", "password"} /\ call[q].phase = "telegram"
                   /\ Turns(q, "persist")
          BY <2>8, <3>3, <3>5, <4>4 DEF Turns, Holds
        <4>5. CASE call[q].op = "use" /\ call[q].phase = "touch" /\ Turns(q, "gateway")
          BY <2>8, <3>3, <3>5, <4>5 DEF Turns, Holds
        <4> QED
          BY <1>2, <3>1, <4>1, <4>2, <4>3, <4>4, <4>5 DEF CallEffect
      <3> QED
        BY <3>4, <3>5
    <2> QED
      BY <2>5, <2>6, <2>7, <2>8 DEF ClosedInv, Whole, WholeThen
  <1> QED
    BY <1>1, <1>2

\* A removed session comes back only from a call that holds it.
LEMMA RemovedComesBack ==
  ASSUME SessionTypeOK, CallInv, LoginInv, ClosedInv,
         Outside \/ \E q \in Callers : CallEffect(q),
         NEW o \in Operators, NEW s \in Sessions, <<o, s>> \in closed,
         record'[o] = s \/ <<o, s>> \in client' \ client
  PROVE  OverlappedCall(o)
  <1> USE SessionAssumption
  <1>1. record[o] # s
    BY DEF ClosedInv
  <1>2. ~Outside
    BY <1>1 DEF Outside
  <1>3. PICK q \in Callers : CallEffect(q)
    BY <1>2
  <1>4. Advances(q)
    BY <1>3 DEF CallEffect, Ends, Turns, Sees
  <1>5. call[q].who \in Operators
    BY <1>4 DEF CallInv, Advances
  <1>6. record \in [Operators -> Sessions \cup {NoRecord, Unreadable}]
    BY DEF SessionTypeOK
  <1>7. ASSUME Holds(call[q], s), call[q].who = o, call'[q].phase # call[q].phase
        PROVE  OverlappedCall(o)
    BY <1>7 DEF ClosedInv, OverlappedCall
  <1>8. CASE record'[o] = s
    <2>1. ~DeleteRecord(call[q].who)
      BY <1>1, <1>5, <1>6, <1>8 DEF DeleteRecord, NoRecord, Sessions
    <2>2. \/ call[q].phase = "persist" /\ Ends(q) /\ Upsert(call[q].who, call[q].login)
          \/ /\ call[q].op = "use" /\ call[q].phase = "touch" /\ Turns(q, "gateway")
             /\ Upsert(call[q].who, call[q].saw)
      BY <1>1, <1>3, <1>8, <2>1 DEF CallEffect, stored, OnlyLogin
    <2>3. CASE call[q].phase = "persist" /\ Ends(q) /\ Upsert(call[q].who, call[q].login)
      <3>1. call[q].who = o /\ call[q].login = s
        BY <1>1, <1>5, <1>6, <1>8, <2>3 DEF Upsert
      <3> QED
        BY <1>7, <2>3, <3>1 DEF LoginInv, WholeCall, Holds, Ends
    <2>4. CASE /\ call[q].op = "use" /\ call[q].phase = "touch" /\ Turns(q, "gateway")
               /\ Upsert(call[q].who, call[q].saw)
      <3>1. call[q].who = o /\ call[q].saw = s
        BY <1>1, <1>5, <1>6, <1>8, <2>4 DEF Upsert
      <3> QED
        BY <1>7, <2>4, <3>1 DEF Holds, Turns
    <2> QED
      BY <2>2, <2>3, <2>4
  <1>9. CASE <<o, s>> \in client' \ client
    <2>1. /\ call[q].op = "use" /\ call[q].phase = "gateway" /\ Ends(q)
          /\ client' = client \cup {<<call[q].who, call[q].saw>>}
      BY <1>3, <1>9 DEF CallEffect, stored, OnlyLogin, OnlyRecord
    <2> QED
      BY <1>7, <1>9, <2>1 DEF Holds, Ends
  <1> QED
    BY <1>8, <1>9

-----------------------------------------------------------------------------
(* The steps of the handlers.                                              *)

\* A handler of q meets the service in its own call only.
BordersAt(q) == Borders /\ \A p \in Callers \ {q} : call'[p] = call[p]

\* A state that is no question of a migration.
Plain(s) == s.step \notin Question /\ s.n = 0

SetsState(o, s) == dialogue' = [dialogue EXCEPT ![o] = s]

\* The handler of a message from o begins with t.
Begun(q, o, t) ==
  /\ t \in Task
  /\ task' = [task EXCEPT ![q] = t]
  /\ t.phase \in {"call", "import"} /\ t.who = o /\ t.d = dialogue[o] /\ t.next = NoState
  /\ t.phase = "call" => call'[q].who = o
  /\ UNCHANGED <<kind, dialogue, config, jobs, ended>>

\* It has no options, those of a new command, or those of a dialogue and an answer.
BegunPlain(q, o, t) ==
  /\ Begun(q, o, t)
  /\ dialogue[o].step \notin Question
  /\ t.for \notin {"prepare", "configure", "map", "start"}
  /\ t.n = 0 /\ t.given = {} /\ t.asked = {}
  /\ UNCHANGED commands

BegunCommand(q, o, t) ==
  /\ Begun(q, o, t)
  /\ dialogue[o].step = "none"
  /\ t.for \in {"prepare", "configure"}
  /\ commands < MaxCommands /\ commands' = commands + 1
  /\ t.n = commands + 1 /\ t.given = t.asked

BegunAnswer(q, o, t) ==
  /\ Begun(q, o, t)
  /\ dialogue[o].step \in Question
  /\ dialogue[o].step = "access" => dialogue[o].chat
  /\ t.for \in {"prepare", "map", "start"}
  /\ t.n = dialogue[o].n
  /\ \E f : t.given = dialogue[o].given \cup f /\ t.asked = dialogue[o].asked \cup f
  /\ UNCHANGED commands

\* The state of o becomes a question that carries nothing, or the one for the access.
AsksState(o, s) ==
  /\ SetsState(o, s) /\ s \in State
  /\ UNCHANGED <<kind, task, config, jobs, commands, ended, call>>
  /\ \/ Plain(s) /\ dialogue[o].step \notin Question
     \/ dialogue[o].step = "channel_matrix" /\ s = AccessPrompt(dialogue[o])

DropsState(o) ==
  /\ SetsState(o, NoState)
  /\ UNCHANGED <<kind, task, config, jobs, commands, call>>
  /\ ended' = [n \in Commands |->
                 IF n # dialogue[o].n THEN ended[n]
                 ELSE IF \E q \in Callers : task[q].n = n THEN "busy" ELSE "quiet"]

MessageEffect(q, o) ==
  \/ \E t \in Task : BegunPlain(q, o, t) \/ BegunCommand(q, o, t) \/ BegunAnswer(q, o, t)
  \/ \E s \in State : AsksState(o, s)
  \/ DropsState(o)

\* What a handler begins with.
NewTask(for, o, n, given, asked) ==
  [IdleTask EXCEPT !.phase = "call", !.for = for, !.who = o, !.d = dialogue[o], !.n = n,
                   !.given = given, !.asked = asked]

LEMMA NewTaskTypes ==
  ASSUME TypeOK, NEW for \in Purpose, NEW o \in Operators, NEW n \in 0 .. MaxCommands,
         NEW given \in SUBSET Options, NEW asked \in SUBSET Options
  PROVE  LET t == NewTask(for, o, n, given, asked)
         IN  /\ t \in Task /\ t.phase = "call" /\ t.for = for /\ t.who = o
             /\ t.d = dialogue[o] /\ t.n = n /\ t.given = given /\ t.asked = asked
             /\ t.next = NoState
  <1>1. "call" \in TaskPhase /\ dialogue[o] \in State
    BY DEF TaskPhase, TypeOK
  <1>2. IdleTask \in Task /\ IdleTask.next = NoState
    BY StateTypes DEF IdleTask
  <1> QED
    BY <1>1, <1>2 DEF NewTask, Task

LEMMA HandlesEffect ==
  ASSUME TypeOK, NEW q \in Callers, NEW o \in Operators, NEW for \in Purpose,
         NEW op \in Operation, NEW n \in 0 .. MaxCommands,
         NEW given \in SUBSET Options, NEW asked \in SUBSET Options,
         Handles(q, o, for, op, n, given, asked)
  PROVE  /\ BordersAt(q)
         /\ Begun(q, o, NewTask(for, o, n, given, asked))
         /\ NewTask(for, o, n, given, asked).for = for
         /\ NewTask(for, o, n, given, asked).n = n
         /\ NewTask(for, o, n, given, asked).given = given
         /\ NewTask(for, o, n, given, asked).asked = asked
  <1> DEFINE k == dialogue[o].login
  <1> DEFINE t == NewTask(for, o, n, given, asked)
  <1> DEFINE c == [IdleCall EXCEPT !.phase = "begin", !.op = op, !.who = o, !.login = k]
  <1>1. k \in 0 .. MaxLogins
    BY DEF TypeOK, State
  <1>2. /\ t \in Task /\ t.phase = "call" /\ t.for = for /\ t.who = o
        /\ t.d = dialogue[o] /\ t.n = n /\ t.given = given /\ t.asked = asked
        /\ t.next = NoState
    BY NewTaskTypes
  <1>3. task' = [task EXCEPT ![q] = t]
    BY DEF Handles, NewTask
  <1>4. call' = [call EXCEPT ![q] = c] /\ call \in [Callers -> Call]
    BY DEF Handles, BeginCall, TypeOK, SessionTypeOK
  <1>5. c \in Call /\ c.phase = "begin" /\ c.who = o
    <2>1. "begin" \in CallPhase /\ IdleCall \in Call
      BY StateTypes DEF CallPhase
    <2>2. c \in Call
      BY <1>1, <2>1 DEF Call
    <2> QED
      BY <2>2 DEF IdleCall
  <1>6. events' \in 0 .. MaxEvents
    BY SessionAssumption DEF Handles, Receives, Happens, TypeOK, SessionTypeOK
  <1> HIDE DEF c
  <1>7. BordersAt(q)
    BY <1>4, <1>5, <1>6 DEF BordersAt, Borders, Handles
  <1> HIDE DEF t
  <1>8. Begun(q, o, t)
    BY <1>2, <1>3, <1>4, <1>5 DEF Begun, Handles
  <1> QED
    BY <1>2, <1>7, <1>8 DEF t

\* A message without options, a command, an answer.
LEMMA AskingEffect ==
  ASSUME TypeOK, NEW q \in Callers, NEW o \in Operators, NEW steps,
         NEW for \in Purpose \ {"prepare", "configure", "map", "start"},
         NEW op \in Operation, Asking(q, o, steps, for, op), steps \cap Question = {}
  PROVE  BordersAt(q) /\ MessageEffect(q, o)
  <1>1. 0 \in 0 .. MaxCommands
    BY DialogueAssumption
  <1>2. Handles(q, o, for, op, 0, {}, {}) /\ dialogue[o].step \notin Question
    BY DEF Asking
  <1> DEFINE t == NewTask(for, o, 0, {}, {})
  <1>3. BordersAt(q) /\ Begun(q, o, t) /\ t.for = for /\ t.n = 0 /\ t.given = {} /\ t.asked = {}
    BY <1>1, <1>2, HandlesEffect
  <1> HIDE DEF t
  <1>4. BegunPlain(q, o, t)
    BY <1>2, <1>3 DEF BegunPlain, Asking
  <1> QED
    BY <1>3, <1>4 DEF MessageEffect, Begun

LEMMA CommandingEffect ==
  ASSUME TypeOK, NEW q \in Callers, NEW o \in Operators, NEW for \in {"prepare", "configure"},
         Commanding(q, o, for)
  PROVE  BordersAt(q) /\ MessageEffect(q, o)
  <1>1. for \in Purpose /\ "use" \in Operation
    BY DEF Purpose, Operation
  <1>2. commands + 1 \in 0 .. MaxCommands
    BY DialogueAssumption DEF TypeOK, Commanding
  <1>3. PICK given \in Givens : Handles(q, o, for, "use", commands + 1, given, given)
    BY DEF Commanding
  <1>4. given \in SUBSET Options
    BY DialogueAssumption
  <1> DEFINE t == NewTask(for, o, commands + 1, given, given)
  <1>5. BordersAt(q) /\ Begun(q, o, t) /\ t.for = for /\ t.n = commands + 1
        /\ t.given = given /\ t.asked = given
    BY <1>1, <1>2, <1>3, <1>4, HandlesEffect
  <1> HIDE DEF t
  <1>6. BegunCommand(q, o, t)
    BY <1>5 DEF BegunCommand, Commanding
  <1> QED
    BY <1>5, <1>6 DEF MessageEffect, Begun

LEMMA AnsweringEffect ==
  ASSUME TypeOK, NEW q \in Callers, NEW o \in Operators, NEW step \in Question,
         NEW for \in {"prepare", "map", "start"}, NEW f \in SUBSET Options,
         Answering(q, o, step, for, f), step = "access" => dialogue[o].chat
  PROVE  BordersAt(q) /\ MessageEffect(q, o)
  <1>1. for \in Purpose /\ "use" \in Operation
    BY DEF Purpose, Operation
  <1> DEFINE d == dialogue[o]
  <1>2. /\ d.n \in 0 .. MaxCommands /\ d.given \cup f \in SUBSET Options
        /\ d.asked \cup f \in SUBSET Options
    BY DEF TypeOK, State
  <1>3. Handles(q, o, for, "use", d.n, d.given \cup f, d.asked \cup f)
    BY DEF Answering
  <1>g. ASSUME NEW n \in 0 .. MaxCommands, NEW g \in SUBSET Options,
               NEW a \in SUBSET Options, Handles(q, o, for, "use", n, g, a)
        PROVE  \E t \in Task : /\ BordersAt(q) /\ Begun(q, o, t) /\ t.for = for
                               /\ t.n = n /\ t.given = g /\ t.asked = a
    <2> DEFINE t == NewTask(for, o, n, g, a)
    <2>1. /\ BordersAt(q) /\ Begun(q, o, t) /\ t.for = for
          /\ t.n = n /\ t.given = g /\ t.asked = a
      BY <1>1, <1>g, HandlesEffect
    <2> HIDE DEF t
    <2> QED
      BY <2>1 DEF Begun
  <1>4. PICK t \in Task : /\ BordersAt(q) /\ Begun(q, o, t) /\ t.for = for /\ t.n = d.n
                         /\ t.given = d.given \cup f /\ t.asked = d.asked \cup f
    <2> HIDE DEF d
    <2> QED
      BY <1>2, <1>3, <1>g
  <1>5. BegunAnswer(q, o, t)
    BY <1>4 DEF BegunAnswer, Answering
  <1> QED
    BY <1>4, <1>5 DEF MessageEffect, Begun

LEMMA AccessPromptTypes ==
  ASSUME NEW d \in State
  PROVE  /\ AccessPrompt(d) \in State
         /\ AccessPrompt(d).step = "access" /\ ~AccessPrompt(d).chat
         /\ AccessPrompt(d).n = d.n
  BY DEF AccessPrompt, State, Step, Options

\* A message that only replaces the state.
LEMMA ReplacesEffect ==
  ASSUME TypeOK, NEW q \in Callers, NEW o \in Operators, NEW s \in State,
         Receives(q), Replaces(o, s), UNCHANGED ended,
         \/ Plain(s) /\ dialogue[o].step \notin Question
         \/ dialogue[o].step = "channel_matrix" /\ s = AccessPrompt(dialogue[o])
  PROVE  BordersAt(q) /\ MessageEffect(q, o)
  <1>1. events' \in 0 .. MaxEvents
    BY SessionAssumption DEF Receives, Happens, TypeOK, SessionTypeOK
  <1>2. BordersAt(q)
    BY <1>1 DEF BordersAt, Borders, Replaces
  <1>3. AsksState(o, s)
    BY DEF AsksState, SetsState, Replaces
  <1> QED
    BY <1>2, <1>3 DEF MessageEffect

LEMMA MessageHasEffect ==
  ASSUME TypeOK, NEW q \in Callers, NEW o \in Operators, Message(q, o)
  PROVE  BordersAt(q) /\ MessageEffect(q, o)
  <1> DEFINE Goal == BordersAt(q) /\ MessageEffect(q, o)
  <1>1. /\ {"connect", "login", "disconnect", "choose_members", "add_members"}
             \subseteq Purpose \ {"prepare", "configure", "map", "start"}
        /\ {"start", "code", "password", "disconnect", "use"} \subseteq Operation
    BY DEF Purpose, Operation
  <1>2. dialogue[o] \in State
    BY DEF TypeOK
  <1>3. /\ {"none", "phone"} \cap Question = {} /\ {"none"} \cap Question = {}
        /\ {"code"} \cap Question = {} /\ {"password"} \cap Question = {}
        /\ {"none", "members"} \cap Question = {} /\ {"workbook"} \cap Question = {}
    BY DEF Question
  <1>4. ASSUME NEW step \in {"phone", "members", "archive"}
        PROVE  Asks(step) \in State /\ Plain(Asks(step))
    BY <1>4, StateTypes DEF Step, Plain, Question
  <1>5. CASE ConnectAsksPhone(q, o)
    BY <1>3, <1>4, <1>5, ReplacesEffect DEF ConnectAsksPhone
  <1>6. CASE Connect(q, o) \/ Disconnect(q, o) \/ InputCode(q, o) \/ InputPassword(q, o)
             \/ SelectMembersChat(q, o) \/ InputMembersWorkbook(q, o)
    BY <1>1, <1>3, <1>6, AskingEffect
       DEF Connect, Disconnect, InputCode, InputPassword, SelectMembersChat,
           InputMembersWorkbook
  <1>7. CASE Cancel(q, o)
    <2>1. events' \in 0 .. MaxEvents
      BY <1>7, SessionAssumption DEF Cancel, Receives, Happens, TypeOK, SessionTypeOK
    <2>2. BordersAt(q) /\ DropsState(o)
      BY <1>7, <2>1 DEF Cancel, Drops, Replaces, BordersAt, Borders, DropsState, SetsState
    <2> QED
      BY <2>2 DEF MessageEffect
  <1>8. CASE Migrate(q, o) \/ Configure(q, o)
    BY <1>8, CommandingEffect DEF Migrate, Configure
  <1>9. ASSUME NEW step \in {"members", "archive"}, AsksFor(q, o, step) PROVE Goal
    BY <1>3, <1>4, <1>9, ReplacesEffect DEF AsksFor
  <1>10. CASE AddUsers(q, o) \/ ImportArchive(q, o)
    BY <1>9, <1>10 DEF AddUsers, ImportArchive
  <1>11. CASE InputArchive(q, o)
    <2> DEFINE t == [IdleTask EXCEPT !.phase = "import", !.who = o, !.d = dialogue[o]]
    <2>1. /\ t \in Task /\ t.phase = "import" /\ t.for = "none" /\ t.who = o
          /\ t.d = dialogue[o] /\ t.n = 0 /\ t.given = {} /\ t.asked = {}
          /\ t.next = NoState
      <3>1. "import" \in TaskPhase /\ IdleTask \in Task
        BY StateTypes DEF TaskPhase
      <3>2. t \in Task
        BY <1>2, <3>1 DEF Task
      <3> QED
        BY <3>2 DEF IdleTask
    <2>2. task' = [task EXCEPT ![q] = t]
      BY <1>11 DEF InputArchive
    <2> HIDE DEF t
    <2>3. events' \in 0 .. MaxEvents
      BY <1>11, SessionAssumption DEF InputArchive, Receives, Happens, TypeOK, SessionTypeOK
    <2>4. BordersAt(q)
      BY <1>11, <2>3 DEF InputArchive, BordersAt, Borders
    <2>5. BegunPlain(q, o, t)
      BY <1>11, <2>1, <2>2 DEF InputArchive, BegunPlain, Begun, Question
    <2> QED
      BY <2>1, <2>4, <2>5 DEF MessageEffect
  <1>12. /\ {"private_peer", "topics", "group_matrix", "channel_matrix", "access"} = Question
         /\ {} \in SUBSET Options /\ {"topics"} \in SUBSET Options
         /\ {"policy"} \in SUBSET Options /\ {"access"} \in SUBSET Options
    BY DEF Question, Options
  <1>13. CASE InputPrivatePeer(q, o) \/ InputGroupMatrix(q, o)
    BY <1>12, <1>13, AnsweringEffect DEF InputPrivatePeer, InputGroupMatrix
  <1>14. CASE InputTopics(q, o)
    BY <1>12, <1>14, AnsweringEffect DEF InputTopics
  <1>15. CASE InputChannelMatrix(q, o)
    <2>1. ASSUME NEW for \in {"map", "start"},
                 Answering(q, o, "channel_matrix", for, {"policy"})
          PROVE  Goal
      BY <1>12, <2>1, AnsweringEffect
    <2>2. CASE /\ dialogue[o].step = "channel_matrix"
               /\ Receives(q)
               /\ Replaces(o, AccessPrompt(dialogue[o]))
               /\ UNCHANGED ended
      BY <1>2, <2>2, AccessPromptTypes, ReplacesEffect
    <2> QED
      BY <1>15, <2>1, <2>2 DEF InputChannelMatrix
  <1>16. CASE InputAccess(q, o)
    BY <1>12, <1>16, AnsweringEffect DEF InputAccess
  <1> QED
    BY <1>5, <1>6, <1>7, <1>8, <1>10, <1>11, <1>13, <1>14, <1>15, <1>16 DEF Message

\* The handler of q goes on with t, for the same message, or is over.
GoesOn(q, t) ==
  /\ t \in Task
  /\ task' = [task EXCEPT ![q] = t]
  /\ t.who = task[q].who /\ t.d = task[q].d
  /\ t.n = task[q].n /\ t.given = task[q].given /\ t.asked = task[q].asked

Over(q) == task' = [task EXCEPT ![q] = IdleTask]

\* It calls the service for the start of the job.
CallsForStart(q, t) ==
  /\ GoesOn(q, t)
  /\ t.phase = "call" /\ t.for = "start" /\ t.next = task[q].next
  /\ call'[q].who = task[q].who

StateOnly == UNCHANGED <<kind, config, jobs, commands, ended>>

RestsTask(q) ==
  /\ Over(q) /\ StateOnly
  /\ \/ dialogue' = dialogue
     \/ \E s \in State : Plain(s) /\ SetsState(task[q].who, s)

Prepares(q) ==
  /\ task[q].for = "prepare" /\ task[q].phase = "call"
  /\ kind' \in IF kind = "unknown" THEN Kinds ELSE {kind}
  /\ UNCHANGED <<dialogue, config, jobs, commands, ended>>
  /\ \/ Over(q)
     \/ \E t \in Task : CallsForStart(q, t)
     \/ \E t \in Task : /\ GoesOn(q, t) /\ t.phase = "write" /\ t.for = "prepare"
                        /\ \E unmapped \in BOOLEAN : t.next \in Questions(q, kind', unmapped)

Maps(q) ==
  /\ task[q].for = "map" /\ task[q].phase = "call" /\ StateOnly
  /\ \/ Over(q) /\ SetsState(task[q].who, AccessPrompt(task[q].d))
     \/ dialogue' = dialogue /\ \E t \in Task : CallsForStart(q, t)

ReadsConfig(q) ==
  /\ task[q].for \in {"configure", "start"} /\ task[q].phase = "call"
  /\ StateOnly /\ dialogue' = dialogue
  /\ \E t \in Task : /\ GoesOn(q, t) /\ t.phase = "merge" /\ t.for = task[q].for
                     /\ t.next = task[q].next /\ t.old = config

SavesConfig(q) ==
  /\ task[q].phase = "merge" /\ ~Foreign(task[q].who)
  /\ config' = Merged(q, task[q].old)
  /\ UNCHANGED <<kind, dialogue, jobs, commands, ended>>
  /\ \/ Over(q)
     \/ \E t \in Task : /\ GoesOn(q, t) /\ t.phase = "start" /\ t.for = "start"
                        /\ task[q].for = "start" /\ t.next = task[q].next

StartsJob(q) ==
  /\ task[q].phase = "start"
  /\ jobs' = jobs \/ jobs' = jobs \cup {JobOf(q)}
  /\ UNCHANGED <<kind, dialogue, config, commands, ended>>
  /\ \/ Over(q)
     \/ \E t \in Task : /\ GoesOn(q, t) /\ t.phase = "write" /\ t.for = task[q].for
                        /\ t.next = NoState

StartsImport(q) ==
  /\ task[q].phase = "import" /\ StateOnly /\ dialogue' = dialogue
  /\ \E t \in Task : /\ GoesOn(q, t) /\ t.phase = "write" /\ t.for = task[q].for
                     /\ t.next = NoState

WritesState(q) ==
  /\ task[q].phase = "write" /\ Over(q) /\ StateOnly
  /\ SetsState(task[q].who, task[q].next)

HandlerEffect(q) ==
  \/ task[q].phase = "idle" /\ UNCHANGED dialogueVars
  \/ RestsTask(q) \/ Prepares(q) \/ Maps(q) \/ ReadsConfig(q) \/ SavesConfig(q)
  \/ StartsJob(q) \/ StartsImport(q) \/ WritesState(q)

LEMMA EndCallBorders ==
  ASSUME TypeOK, NEW q \in Callers, EndCall(q) \/ UNCHANGED call, UNCHANGED stored,
         UNCHANGED events
  PROVE  BordersAt(q)
  <1>1. IdleCall \in Call /\ IdleCall.phase = "idle"
    BY StateTypes DEF IdleCall
  <1>2. events \in 0 .. MaxEvents /\ call \in [Callers -> Call]
    BY DEF TypeOK, SessionTypeOK
  <1> QED
    BY <1>1, <1>2 DEF EndCall, BordersAt, Borders

LEMMA NextCallEffect ==
  ASSUME TypeInv, NEW q \in Callers, task[q].phase = "call", NextCall(q, "start"),
         UNCHANGED stored, UNCHANGED events
  PROVE  BordersAt(q) /\ \E t \in Task : CallsForStart(q, t)
  <1> DEFINE c == [IdleCall EXCEPT !.phase = "begin", !.op = "use", !.who = task[q].who]
  <1> DEFINE t == [task[q] EXCEPT !.for = "start"]
  <1>1. task[q] \in Task /\ task[q].who \in Operators /\ task \in [Callers -> Task]
    BY DEF TypeInv, TypeOK, TaskInv, TaskShape
  <1>2. c \in Call /\ c.phase = "begin" /\ c.who = task[q].who
    <2>1. "begin" \in CallPhase /\ "use" \in Operation /\ IdleCall \in Call
      BY StateTypes DEF CallPhase, Operation
    <2>2. c \in Call
      BY <1>1, <2>1 DEF Call
    <2> QED
      BY <2>2 DEF IdleCall
  <1>3. call' = [call EXCEPT ![q] = c] /\ call \in [Callers -> Call]
    BY DEF NextCall, TypeInv, TypeOK, SessionTypeOK
  <1>4. task' = [task EXCEPT ![q] = t]
    BY <1>1 DEF NextCall
  <1>5. /\ t \in Task /\ t.phase = "call" /\ t.for = "start" /\ t.who = task[q].who
        /\ t.d = task[q].d /\ t.n = task[q].n /\ t.given = task[q].given
        /\ t.asked = task[q].asked /\ t.next = task[q].next
    <2>1. "start" \in Purpose
      BY DEF Purpose
    <2> QED
      BY <1>1, <2>1 DEF Task
  <1>6. events \in 0 .. MaxEvents
    BY DEF TypeInv, TypeOK, SessionTypeOK
  <1> HIDE DEF c, t
  <1>7. BordersAt(q)
    BY <1>1, <1>2, <1>3, <1>6 DEF BordersAt, Borders
  <1>8. CallsForStart(q, t)
    BY <1>2, <1>3, <1>4, <1>5 DEF CallsForStart, GoesOn
  <1> QED
    BY <1>5, <1>7, <1>8

LEMMA TaskGoesEffect ==
  ASSUME TypeOK, NEW q \in Callers, NEW phase \in TaskPhase, TaskGoes(q, phase)
  PROVE  \E t \in Task : /\ GoesOn(q, t) /\ t.phase = phase /\ t.for = task[q].for
                         /\ t.next = task[q].next
  <1> DEFINE t == [task[q] EXCEPT !.phase = phase]
  <1>1. task[q] \in Task /\ task \in [Callers -> Task]
    BY DEF TypeOK
  <1>2. task' = [task EXCEPT ![q] = t]
    BY <1>1 DEF TaskGoes
  <1>3. /\ t \in Task /\ t.phase = phase /\ t.for = task[q].for /\ t.who = task[q].who
        /\ t.d = task[q].d /\ t.n = task[q].n /\ t.given = task[q].given
        /\ t.asked = task[q].asked /\ t.next = task[q].next
    BY <1>1 DEF Task
  <1> HIDE DEF t
  <1> QED
    BY <1>2, <1>3 DEF GoesOn

LEMMA WritesEffect ==
  ASSUME TypeOK, NEW q \in Callers, NEW s \in State, Writes(q, s)
  PROVE  \E t \in Task : /\ GoesOn(q, t) /\ t.phase = "write" /\ t.for = task[q].for
                         /\ t.next = s
  <1> DEFINE t == [task[q] EXCEPT !.phase = "write", !.next = s]
  <1>0. "write" \in TaskPhase
    BY DEF TaskPhase
  <1>1. task[q] \in Task /\ task \in [Callers -> Task]
    BY DEF TypeOK
  <1>2. task' = [task EXCEPT ![q] = t]
    BY <1>1 DEF Writes
  <1>3. /\ t \in Task /\ t.phase = "write" /\ t.for = task[q].for /\ t.who = task[q].who
        /\ t.d = task[q].d /\ t.n = task[q].n /\ t.given = task[q].given
        /\ t.asked = task[q].asked /\ t.next = s
    BY <1>0, <1>1 DEF Task
  <1> HIDE DEF t
  <1> QED
    BY <1>2, <1>3 DEF GoesOn

\* The questions are states of the command at hand.
LEMMA QuestionTypes ==
  ASSUME TypeOK, NEW q \in Callers, NEW k, NEW unmapped \in BOOLEAN,
         NEW s \in Questions(q, k, unmapped)
  PROVE  /\ s \in State /\ s.step \in Question /\ s.chat /\ s.n = task[q].n
         /\ s.asked = task[q].asked
         /\ \E kept \in SUBSET Options :
              /\ s.given = task[q].given \cap kept
              /\ kept = IF k = "private" THEN PrivatePayload
                        ELSE IF k = "channel" THEN ChannelPayload ELSE GroupPayload
  <1>1. task[q] \in Task /\ 0 \in 0 .. MaxLogins
    BY SessionAssumption DEF TypeOK
  <1>2. ASSUME NEW step \in Question, NEW kept \in SUBSET Options
        PROVE  /\ Prompt(q, step, kept) \in State
               /\ Prompt(q, step, kept).step = step /\ Prompt(q, step, kept).chat
               /\ Prompt(q, step, kept).n = task[q].n
               /\ Prompt(q, step, kept).asked = task[q].asked
               /\ Prompt(q, step, kept).given = task[q].given \cap kept
    BY <1>1 DEF Prompt, State, Task, Question, Step
  <1>3. /\ PrivatePayload \in SUBSET Options /\ GroupPayload \in SUBSET Options
        /\ ChannelPayload \in SUBSET Options
    BY DEF PrivatePayload, GroupPayload, ChannelPayload, Options
  <1>4. CASE k = "private"
    <2>1. s = Prompt(q, "private_peer", PrivatePayload)
      BY <1>4 DEF Questions, PrivateQuestion
    <2> QED
      BY <1>2, <1>3, <1>4, <2>1 DEF Question
  <1>5. CASE k = "channel"
    <2>1. \E step \in {"channel_matrix", "access"} : s = Prompt(q, step, ChannelPayload)
      BY <1>5 DEF Questions, ChannelQuestion
    <2> QED
      BY <1>2, <1>3, <1>5, <2>1 DEF Question
  <1>6. CASE k \notin {"private", "channel"}
    <2>1. \E step \in {"topics", "group_matrix"} : s = Prompt(q, step, GroupPayload)
      BY <1>6 DEF Questions, GroupQuestion
    <2> QED
      BY <1>2, <1>3, <1>6, <2>1 DEF Question
  <1> QED
    BY <1>4, <1>5, <1>6

LEMMA HandlerHasEffect ==
  ASSUME TypeInv, NEW q \in Callers, HandlerStep(q)
  PROVE  BordersAt(q) /\ HandlerEffect(q)
  <1> USE DEF OnlyTheTask, StateOnly
  <1> DEFINE Goal == BordersAt(q) /\ HandlerEffect(q)
  <1>1. /\ TypeOK /\ task[q] \in Task /\ call[q] \in Call
        /\ config \in [owner : Operators \cup {NoOne}, by : [Options -> 0 .. MaxCommands]]
    BY DEF TypeInv, TypeOK, SessionTypeOK
  <1>2. ASSUME EndCall(q) \/ UNCHANGED call, UNCHANGED stored, UNCHANGED events
        PROVE  BordersAt(q)
    BY <1>1, <1>2, EndCallBorders
  <1>3. ASSUME UNCHANGED sessionVars PROVE BordersAt(q)
    BY <1>2, <1>3 DEF sessionVars
  <1>4. TaskEnds(q) => Over(q)
    BY DEF TaskEnds, Over
  <1>5. ASSUME NEW s \in State, Plain(s), Continues(q, "challenge") \/ Continues(q, "password")
                                          \/ Continues(q, "ok"), Sets(q, s)
        PROVE  Goal
    <2>1. RestsTask(q)
      BY <1>4, <1>5 DEF RestsTask, Sets, SetsState, Continues
    <2>2. BordersAt(q)
      BY <1>2, <1>5 DEF Continues
    <2> QED
      BY <2>1, <2>2 DEF HandlerEffect
  <1>6. ASSUME NEW step \in {"code", "password"}
        PROVE  LET s == [Asks(step) EXCEPT !.login = call[q].login]
               IN  s \in State /\ Plain(s)
    <2>1. step \in Step /\ call[q].login \in 0 .. MaxLogins
      BY <1>1, <1>6 DEF Step, Call
    <2>2. Asks(step) \in State /\ Asks(step).step = step /\ Asks(step).n = 0
      BY <2>1, StateTypes
    <2> QED
      BY <1>6, <2>1, <2>2 DEF State, Plain, Question
  <1>7. Plain(NoState) /\ NoState \in State /\ Plain(WorkbookState) /\ WorkbookState \in State
    <2>1. WorkbookState.step = "workbook" /\ WorkbookState.n = 0
      BY DEF WorkbookState, Asks, NoState
    <2> QED
      BY <2>1, StateTypes DEF Plain, NoState, Question
  <1>8. CASE TellError(q)
    <2>1. RestsTask(q)
      BY <1>4, <1>8 DEF TellError, RestsTask
    <2> QED
      BY <1>2, <1>8, <2>1 DEF TellError, HandlerEffect
  <1>9. CASE AskCode(q)
    BY <1>5, <1>6, <1>9 DEF AskCode
  <1>10. CASE AskPassword(q)
    BY <1>5, <1>6, <1>10 DEF AskPassword
  <1>11. CASE Finish(q)
    BY <1>5, <1>7, <1>11 DEF Finish
  <1>12. CASE AskWorkbook(q)
    BY <1>5, <1>7, <1>12 DEF AskWorkbook
  <1>13. CASE Prepare(q)
    <2>1. /\ task[q].for = "prepare" /\ task[q].phase = "call"
          /\ kind' \in IF kind = "unknown" THEN Kinds ELSE {kind}
          /\ UNCHANGED <<dialogue, config, jobs, commands, ended, stored, events>>
      BY <1>13 DEF Prepare, Hears
    <2>2. CASE TaskEnds(q) /\ EndCall(q)
      BY <1>2, <1>4, <2>1, <2>2 DEF HandlerEffect, Prepares
    <2>3. CASE NextCall(q, "start")
      <3>1. BordersAt(q) /\ \E t \in Task : CallsForStart(q, t)
        BY <2>1, <2>3, NextCallEffect
      <3> QED
        BY <2>1, <3>1 DEF HandlerEffect, Prepares
    <2>4. ASSUME NEW unmapped \in BOOLEAN, EndCall(q),
                 NEW s \in Questions(q, kind', unmapped), Writes(q, s)
          PROVE  Goal
      <3>1. s \in State
        BY <1>1, QuestionTypes
      <3>2. PICK t \in Task : /\ GoesOn(q, t) /\ t.phase = "write" /\ t.for = task[q].for
                              /\ t.next = s
        BY <1>1, <2>4, <3>1, WritesEffect
      <3>3. Prepares(q)
        BY <2>1, <3>2 DEF Prepares
      <3> QED
        BY <1>2, <2>1, <2>4, <3>3 DEF HandlerEffect
    <2> QED
      BY <1>13, <2>2, <2>3, <2>4 DEF Prepare
  <1>14. CASE Map(q)
    <2>1. /\ task[q].for = "map" /\ task[q].phase = "call" /\ AfterMapping(q)
          /\ UNCHANGED <<kind, config, jobs, commands, ended, stored, events>>
      BY <1>14 DEF Map, Hears
    <2>2. CASE Sets(q, AccessPrompt(task[q].d)) /\ EndCall(q)
      BY <1>2, <1>4, <2>1, <2>2 DEF HandlerEffect, Maps, Sets, SetsState
    <2>3. CASE NextCall(q, "start") /\ UNCHANGED dialogue
      <3>1. BordersAt(q) /\ \E t \in Task : CallsForStart(q, t)
        BY <2>1, <2>3, NextCallEffect
      <3> QED
        BY <2>1, <2>3, <3>1 DEF HandlerEffect, Maps
    <2> QED
      BY <2>1, <2>2, <2>3 DEF AfterMapping
  <1>15. CASE MapFails(q)
    <2>1. RestsTask(q)
      BY <1>4, <1>15 DEF MapFails, Continues, RestsTask
    <2> QED
      BY <1>2, <1>15, <2>1 DEF MapFails, Continues, HandlerEffect
  <1>16. CASE ReadConfig(q)
    <2>1. BordersAt(q)
      BY <1>2, <1>16 DEF ReadConfig, Continues
    <2>2. CASE TaskEnds(q)
      <3>1. RestsTask(q)
        BY <1>4, <1>16, <2>2 DEF ReadConfig, Continues, RestsTask
      <3> QED
        BY <2>1, <3>1 DEF HandlerEffect
    <2>3. CASE task' = [task EXCEPT ![q].phase = "merge", ![q].old = config]
      <3> DEFINE t == [task[q] EXCEPT !.phase = "merge", !.old = config]
      <3>0. "merge" \in TaskPhase /\ task \in [Callers -> Task]
        BY <1>1 DEF TaskPhase, TypeOK
      <3>1. task' = [task EXCEPT ![q] = t]
        BY <2>3, <3>0
      <3>2. /\ t \in Task /\ t.phase = "merge" /\ t.for = task[q].for /\ t.who = task[q].who
            /\ t.d = task[q].d /\ t.n = task[q].n /\ t.given = task[q].given
            /\ t.asked = task[q].asked /\ t.next = task[q].next /\ t.old = config
        BY <1>1, <3>0 DEF Task
      <3> HIDE DEF t
      <3>3. ReadsConfig(q)
        BY <1>16, <3>1, <3>2 DEF ReadConfig, Continues, Hears, ReadsConfig, GoesOn
      <3> QED
        BY <2>1, <3>3 DEF HandlerEffect
    <2> QED
      BY <1>16, <2>2, <2>3 DEF ReadConfig
  <1>17. CASE SaveConfig(q)
    <2>1. BordersAt(q)
      BY <1>3, <1>17 DEF SaveConfig
    <2>2. CASE Foreign(task[q].who)
      <3>1. RestsTask(q)
        BY <1>4, <1>17, <2>2 DEF SaveConfig, RestsTask
      <3> QED
        BY <2>1, <3>1 DEF HandlerEffect
    <2>3. CASE ~Foreign(task[q].who) /\ task[q].for = "start"
      <3>1. "start" \in TaskPhase /\ TaskGoes(q, "start")
        BY <1>17, <2>3 DEF TaskPhase, SaveConfig
      <3>2. \E t \in Task : /\ GoesOn(q, t) /\ t.phase = "start" /\ t.for = task[q].for
                            /\ t.next = task[q].next
        BY <1>1, <3>1, TaskGoesEffect
      <3>3. SavesConfig(q)
        BY <1>17, <2>3, <3>2 DEF SaveConfig, SavesConfig
      <3> QED
        BY <2>1, <3>3 DEF HandlerEffect
    <2>4. CASE ~Foreign(task[q].who) /\ task[q].for # "start"
      BY <1>4, <1>17, <2>1, <2>4 DEF SaveConfig, SavesConfig, HandlerEffect
    <2> QED
      BY <2>2, <2>3, <2>4
  <1>18. CASE StartJob(q)
    <2>1. BordersAt(q)
      BY <1>3, <1>18 DEF StartJob
    <2>2. CASE TaskEnds(q)
      BY <1>4, <1>18, <2>1, <2>2 DEF StartJob, StartsJob, HandlerEffect
    <2>3. CASE Writes(q, NoState)
      <3>1. \E t \in Task : /\ GoesOn(q, t) /\ t.phase = "write" /\ t.for = task[q].for
                            /\ t.next = NoState
        BY <1>1, <1>7, <2>3, WritesEffect
      <3> QED
        BY <1>18, <2>1, <3>1 DEF StartJob, StartsJob, HandlerEffect
    <2> QED
      BY <1>18, <2>2, <2>3 DEF StartJob
  <1>19. CASE StartImport(q)
    <2>1. BordersAt(q)
      BY <1>3, <1>19 DEF StartImport
    <2>2. CASE TaskEnds(q)
      <3>1. RestsTask(q)
        BY <1>4, <1>19, <2>2 DEF StartImport, RestsTask
      <3> QED
        BY <2>1, <3>1 DEF HandlerEffect
    <2>3. CASE Writes(q, NoState)
      <3>1. \E t \in Task : /\ GoesOn(q, t) /\ t.phase = "write" /\ t.for = task[q].for
                            /\ t.next = NoState
        BY <1>1, <1>7, <2>3, WritesEffect
      <3> QED
        BY <1>19, <2>1, <3>1 DEF StartImport, StartsImport, HandlerEffect
    <2> QED
      BY <1>19, <2>2, <2>3 DEF StartImport
  <1>20. CASE WriteState(q)
    <2>1. BordersAt(q)
      BY <1>3, <1>20 DEF WriteState
    <2> QED
      BY <1>4, <1>20, <2>1 DEF WriteState, Sets, SetsState, WritesState, HandlerEffect
  <1>21. CASE AnswerIsLost(q)
    BY <1>2, <1>21 DEF AnswerIsLost, HandlerEffect
  <1> QED
    BY <1>8, <1>9, <1>10, <1>11, <1>12, <1>13, <1>14, <1>15, <1>16, <1>17, <1>18, <1>19,
       <1>20, <1>21 DEF HandlerStep

\* What a step does to the dialogues.
DialogueEffect ==
  \/ \E q \in Callers, o \in Operators : BordersAt(q) /\ MessageEffect(q, o)
  \/ \E q \in Callers : BordersAt(q) /\ HandlerEffect(q)
  \/ \E o \in Operators : DropsState(o)
  \/ UNCHANGED dialogueVars /\ \A p \in Callers : call'[p].who = call[p].who

\* What a step does to the sessions.
SessionEffect == Outside \/ \E q \in Callers : CallEffect(q) /\ UNCHANGED events

LEMMA CallStepKeepsEvents ==
  ASSUME NEW q \in Callers, CallStep(q)
  PROVE  UNCHANGED events
  BY DEF CallStep, StartRead, StartDrop, RequestCode, GetChallenge, Refuse,
     SignInAsksPassword, SignIn, SignInWithPassword, PersistRecord, DisconnectRead,
     CloseSession, DisconnectRemove, ResolveRead, ResolveDrop, Touch, TakeClient

LEMMA StepHasEffects == TypeInv /\ [Next]_vars => DialogueEffect /\ SessionEffect
  <1> SUFFICES ASSUME TypeInv, [Next]_vars PROVE DialogueEffect /\ SessionEffect
    OBVIOUS
  <1>1. TypeOK /\ SessionTypeOK /\ CallInv /\ call \in [Callers -> Call]
    BY DEF TypeInv, TypeOK, SessionTypeOK
  <1>2. ASSUME NEW q \in Callers, BordersAt(q) PROVE SessionEffect
    BY <1>1, <1>2, OutsideEffect DEF BordersAt, SessionEffect
  <1>3. ASSUME NEW q \in Callers, NEW o \in Operators, Message(q, o)
        PROVE  DialogueEffect /\ SessionEffect
    BY <1>1, <1>2, <1>3, MessageHasEffect DEF DialogueEffect
  <1>4. ASSUME NEW q \in Callers, HandlerStep(q) PROVE DialogueEffect /\ SessionEffect
    BY <1>2, <1>4, HandlerHasEffect DEF DialogueEffect
  <1>5. ASSUME UNCHANGED stored, UNCHANGED call, UNCHANGED events PROVE SessionEffect
    <2>1. Borders
      BY <1>1, <1>5 DEF Borders, SessionTypeOK
    <2> QED
      BY <1>1, <2>1, OutsideEffect DEF SessionEffect
  <1>6. ASSUME NEW o \in Operators, StateExpires(o) PROVE DialogueEffect /\ SessionEffect
    <2>1. DropsState(o) /\ UNCHANGED call
      BY <1>6 DEF StateExpires, Drops, Replaces, DropsState, SetsState
    <2> QED
      BY <1>5, <1>6, <2>1 DEF StateExpires, Drops, Replaces, DialogueEffect
  <1>7. CASE ServiceStep
    <2>1. ASSUME NEW q \in Callers, CallStep(q)
          PROVE  SessionEffect /\ \A p \in Callers : call'[p].who = call[p].who
      <3>1. CallEffect(q) /\ UNCHANGED events
        BY <1>1, <2>1, CallStepEffect, CallStepKeepsEvents
      <3>2. Advances(q)
        BY <3>1 DEF CallEffect, Ends, Turns, Sees
      <3> QED
        BY <3>1, <3>2 DEF SessionEffect, Advances, Keeps
    <2>2. ASSUME SessionEnvironment \/ \E q \in Callers : CallerGivesUp(q)
          PROVE  SessionEffect /\ \A p \in Callers : call'[p].who = call[p].who
      <3>1. SessionEffect
        BY <1>1, <2>2, OutsideEffect DEF SessionEffect
      <3>2. ASSUME NEW p \in Callers PROVE call'[p].who = call[p].who
        <4>1. call[p] \in Call
          BY <1>1
        <4>2. CASE ServiceRestarts
          <5>1. CASE Running(p)
            <6>1. call'[p] = [call[p] EXCEPT !.phase = "done", !.outcome = "error"]
              BY <4>2, <5>1 DEF ServiceRestarts
            <6> QED
              BY <4>1, <6>1 DEF Call
          <5>2. CASE ~Running(p)
            BY <4>2, <5>2 DEF ServiceRestarts
          <5> QED
            BY <5>1, <5>2
        <4>3. ASSUME NEW k \in Logins, ChallengeExpires(k) PROVE call' = call
          BY <4>3 DEF ChallengeExpires
        <4>4. ASSUME NEW q \in Callers, CallerGivesUp(q) PROVE call'[p].who = call[p].who
          <5>1. call' = [call EXCEPT ![q].alone = TRUE]
            BY <4>4 DEF CallerGivesUp
          <5>2. CASE p = q
            <6>1. call'[p] = [call[p] EXCEPT !.alone = TRUE]
              BY <1>1, <5>1, <5>2
            <6> QED
              BY <4>1, <6>1 DEF Call
          <5>3. CASE p # q
            BY <1>1, <5>1, <5>3
          <5> QED
            BY <5>2, <5>3
        <4> QED
          BY <2>2, <4>2, <4>3, <4>4 DEF SessionEnvironment
      <3> QED
        BY <3>1, <3>2
    <2> QED
      BY <1>7, <2>1, <2>2 DEF ServiceStep, DialogueEffect
  <1>8. CASE UNCHANGED vars
    BY <1>5, <1>8 DEF vars, sessionVars, DialogueEffect
  <1> QED
    BY <1>3, <1>4, <1>6, <1>7, <1>8 DEF Next

LEMMA DialogueTypeStep ==
  ASSUME TypeInv, DialogueEffect, SessionTypeOK', CallInv'
  PROVE  TypeInv'
  <1> USE DialogueAssumption
  <1>1. /\ kind \in Kinds \cup {"unknown"}
        /\ dialogue \in [Operators -> State] /\ task \in [Callers -> Task]
        /\ config \in [owner : Operators \cup {NoOne}, by : [Options -> 0 .. MaxCommands]]
        /\ jobs \subseteq Job /\ commands \in 0 .. MaxCommands
        /\ ended \in [Commands -> {"no", "busy", "quiet"}]
    BY DEF TypeInv, TypeOK
  <1>2. /\ \A o \in Operators : OfCommand(dialogue[o])
        /\ \A q \in Callers : TaskShape(task[q])
        /\ \A q \in Callers : task[q].phase = "call" => call[q].who = task[q].who
    BY DEF TypeInv, TaskInv
  <1>3. NoState \in State /\ OfCommand(NoState) /\ IdleTask \in Task
    BY StateTypes
  <1>4. TaskShape(IdleTask) /\ IdleTask.phase = "idle"
    BY <1>3 DEF IdleTask, TaskShape, NoState, Question
  <1>5. \A s \in State : Plain(s) => OfCommand(s)
    BY DEF Plain, OfCommand
  \* From what a step does to each part.
  <1>6. ASSUME kind' \in Kinds \cup {"unknown"},
               dialogue' = dialogue \/ \E o \in Operators, s \in State : SetsState(o, s) /\ OfCommand(s),
               \/ task' = task /\ call' = call
               \/ task' = task /\ \A p \in Callers : call'[p].who = call[p].who
               \/ \E q \in Callers, t \in Task :
                    /\ task' = [task EXCEPT ![q] = t] /\ TaskShape(t)
                    /\ t.phase = "call" => call'[q].who = t.who
                    /\ \A p \in Callers \ {q} : call'[p] = call[p],
               config' \in [owner : Operators \cup {NoOne}, by : [Options -> 0 .. MaxCommands]],
               jobs' \subseteq Job, commands' \in 0 .. MaxCommands,
               ended' \in [Commands -> {"no", "busy", "quiet"}]
        PROVE  TypeInv'
    <2>1. dialogue' \in [Operators -> State] /\ \A o \in Operators : OfCommand(dialogue'[o])
      BY <1>1, <1>2, <1>6 DEF SetsState
    <2>2. /\ task' \in [Callers -> Task]
          /\ \A q \in Callers : TaskShape(task'[q])
          /\ \A q \in Callers : task'[q].phase = "call" => call'[q].who = task'[q].who
      BY <1>1, <1>2, <1>6
    <2>3. TypeOK'
      BY <1>6, <2>1, <2>2 DEF TypeOK
    <2>4. TaskInv'
      BY <2>1, <2>2 DEF TaskInv
    <2> QED
      BY <2>3, <2>4 DEF TypeInv
  <1>7. UNCHANGED kind => kind' \in Kinds \cup {"unknown"}
    BY <1>1
  <1>8. ASSUME NEW o \in Operators, DropsState(o)
        PROVE  ended' \in [Commands -> {"no", "busy", "quiet"}]
    BY <1>1, <1>8 DEF DropsState
  <1>9. ASSUME NEW q \in Callers, BordersAt(q), NEW o \in Operators, MessageEffect(q, o)
        PROVE  TypeInv'
    <2>1. \A p \in Callers \ {q} : call'[p] = call[p]
      BY <1>9 DEF BordersAt
    <2>2. ASSUME NEW t \in Task, BegunPlain(q, o, t) \/ BegunCommand(q, o, t)
                                  \/ BegunAnswer(q, o, t)
          PROVE  TypeInv'
      <3>1. Begun(q, o, t)
        BY <2>2 DEF BegunPlain, BegunCommand, BegunAnswer
      <3>2. TaskShape(t)
        <4>1. OfCommand(dialogue[o]) /\ OfCommand(NoState)
          BY <1>2, <1>3
        <4>2. t.for \in {"prepare", "configure", "map", "start"} => t.n \in Commands
          BY <1>1, <2>2, <4>1
             DEF BegunPlain, BegunCommand, BegunAnswer, OfCommand, Commands
        <4>3. dialogue[o].step \in Question => dialogue[o].n = t.n
          BY <2>2 DEF BegunPlain, BegunCommand, BegunAnswer, Question
        <4>4. t.for = "map" => dialogue[o].step \in Question
          BY <2>2 DEF BegunPlain, BegunCommand, BegunAnswer
        <4> QED
          BY <3>1, <4>1, <4>2, <4>3, <4>4 DEF Begun, TaskShape
      <3>3. commands' \in 0 .. MaxCommands
        BY <1>1, <2>2 DEF BegunPlain, BegunCommand, BegunAnswer
      <3> QED
        BY <1>1, <1>6, <2>1, <3>1, <3>2, <3>3 DEF Begun
    <2>3. ASSUME NEW s \in State, AsksState(o, s) PROVE TypeInv'
      <3>1. OfCommand(s)
        <4>1. dialogue[o] \in State /\ OfCommand(dialogue[o])
          BY <1>1, <1>2
        <4> QED
          BY <1>5, <2>3, <4>1, AccessPromptTypes DEF AsksState, OfCommand, Question
      <3> QED
        BY <1>1, <1>6, <2>3, <3>1 DEF AsksState
    <2>4. CASE DropsState(o)
      BY <1>1, <1>3, <1>6, <1>8, <2>4 DEF DropsState
    <2> QED
      BY <1>9, <2>2, <2>3, <2>4 DEF MessageEffect
  <1>10. ASSUME NEW q \in Callers, BordersAt(q), HandlerEffect(q) PROVE TypeInv'
    <2> DEFINE w == task[q].who
    <2>1. \A p \in Callers \ {q} : call'[p] = call[p]
      BY <1>10 DEF BordersAt
    <2>2. task[q] \in Task /\ TaskShape(task[q])
      BY <1>1, <1>2
    <2>3. task[q].phase # "idle" => w \in Operators
      BY <2>2 DEF TaskShape
    \* With another state, the task over or going on, and the rest typed.
    <2>4. ASSUME kind' \in Kinds \cup {"unknown"},
                 dialogue' = dialogue
                   \/ \E o \in Operators, s \in State : SetsState(o, s) /\ OfCommand(s),
                 Over(q) \/ \E t \in Task : GoesOn(q, t) /\ TaskShape(t)
                                           /\ (t.phase = "call" => call'[q].who = t.who),
                 config' \in [owner : Operators \cup {NoOne},
                             by : [Options -> 0 .. MaxCommands]],
                 jobs' \subseteq Job, UNCHANGED <<commands, ended>>
          PROVE  TypeInv'
      <3>1. \E t \in Task : /\ task' = [task EXCEPT ![q] = t] /\ TaskShape(t)
                            /\ t.phase = "call" => call'[q].who = t.who
        BY <1>3, <1>4, <2>4 DEF Over, GoesOn
      <3> QED
        BY <1>1, <1>6, <2>1, <2>4, <3>1
    \* What remains of the shape when the handler goes on.
    <2>5. ASSUME NEW t \in Task, GoesOn(q, t), task[q].phase # "idle", OfCommand(t.next),
                 t.for = task[q].for \/ (t.for = "start" /\ task[q].for \in {"prepare", "map"}),
                 t.phase = "merge" => t.for \in {"configure", "start"},
                 t.phase = "start" => t.for = "start"
          PROVE  TaskShape(t)
      BY <2>2, <2>5 DEF TaskShape, GoesOn
    <2>6. ASSUME NEW t \in Task, CallsForStart(q, t), task[q].for \in {"prepare", "map"},
                 task[q].phase = "call"
          PROVE  TaskShape(t) /\ GoesOn(q, t) /\ (t.phase = "call" => call'[q].who = t.who)
      BY <2>2, <2>5, <2>6 DEF CallsForStart, TaskShape, GoesOn
    <2>7. Merged(q, task[q].old) \in [owner : Operators \cup {NoOne},
                                     by : [Options -> 0 .. MaxCommands]]
      BY <2>2 DEF Merged, Task
    <2>8. CASE task[q].phase = "idle" /\ UNCHANGED dialogueVars
      <3>1. task' = [task EXCEPT ![q] = task[q]]
        BY <1>1, <2>8 DEF dialogueVars
      <3> QED
        BY <1>1, <1>6, <2>1, <2>2, <2>8, <3>1 DEF dialogueVars
    <2>9. CASE RestsTask(q)
      <3>1. dialogue' = dialogue
              \/ \E o \in Operators, s \in State : SetsState(o, s) /\ OfCommand(s)
        <4>1. ASSUME NEW s \in State, Plain(s), SetsState(w, s), w \notin Operators
              PROVE  dialogue' = dialogue
          BY <1>1, <4>1 DEF SetsState
        <4> QED
          BY <1>5, <2>9, <4>1 DEF RestsTask
      <3> QED
        BY <1>1, <2>4, <2>9, <3>1 DEF RestsTask, StateOnly
    <2>10. CASE Prepares(q)
      <3>1. kind' \in Kinds \cup {"unknown"}
        BY <1>1, <2>10 DEF Prepares
      <3>2. ASSUME NEW t \in Task, GoesOn(q, t), t.phase = "write", t.for = "prepare",
                   NEW unmapped \in BOOLEAN, t.next \in Questions(q, kind', unmapped)
            PROVE  TaskShape(t)
        <4>1. t.next \in State /\ t.next.n = task[q].n
          BY <3>2, QuestionTypes DEF TypeInv
        <4>2. OfCommand(t.next)
          BY <2>2, <2>10, <4>1 DEF Prepares, TaskShape, OfCommand
        <4> QED
          BY <2>5, <2>10, <3>2, <4>2 DEF Prepares
      <3>3. Over(q) \/ \E t \in Task : GoesOn(q, t) /\ TaskShape(t)
                                      /\ (t.phase = "call" => call'[q].who = t.who)
        BY <2>6, <2>10, <3>2 DEF Prepares
      <3> QED
        BY <1>1, <2>4, <2>10, <3>1, <3>3 DEF Prepares
    <2>11. CASE Maps(q)
      <3>1. w \in Operators /\ task[q].d \in State /\ OfCommand(AccessPrompt(task[q].d))
        BY <2>2, <2>3, <2>11, AccessPromptTypes DEF Maps, Task, TaskShape, OfCommand
      <3>2. dialogue' = dialogue
              \/ \E o \in Operators, s \in State : SetsState(o, s) /\ OfCommand(s)
        BY <2>11, <3>1, AccessPromptTypes DEF Maps
      <3>3. Over(q) \/ \E t \in Task : GoesOn(q, t) /\ TaskShape(t)
                                      /\ (t.phase = "call" => call'[q].who = t.who)
        BY <2>6, <2>11 DEF Maps
      <3> QED
        BY <1>1, <2>4, <2>11, <3>2, <3>3 DEF Maps, StateOnly
    <2>12. ASSUME NEW t \in Task, GoesOn(q, t), task[q].phase # "idle",
                  t.phase \in {"merge", "start", "write"}, t.for = task[q].for,
                  t.next \in {task[q].next, NoState},
                  t.phase = "merge" => t.for \in {"configure", "start"},
                  t.phase = "start" => t.for = "start"
           PROVE  TaskShape(t)
      BY <1>3, <2>2, <2>5, <2>12 DEF TaskShape
    <2>13. CASE ReadsConfig(q)
      <3>1. \E t \in Task : GoesOn(q, t) /\ TaskShape(t)
                            /\ (t.phase = "call" => call'[q].who = t.who)
        BY <2>12, <2>13 DEF ReadsConfig
      <3> QED
        BY <1>1, <2>4, <2>13, <3>1 DEF ReadsConfig, StateOnly
    <2>14. CASE SavesConfig(q)
      <3>1. Over(q) \/ \E t \in Task : GoesOn(q, t) /\ TaskShape(t)
                                      /\ (t.phase = "call" => call'[q].who = t.who)
        BY <2>12, <2>14 DEF SavesConfig
      <3> QED
        BY <1>1, <2>4, <2>7, <2>14, <3>1 DEF SavesConfig
    <2>15. CASE StartsJob(q)
      <3>1. Over(q) \/ \E t \in Task : GoesOn(q, t) /\ TaskShape(t)
                                      /\ (t.phase = "call" => call'[q].who = t.who)
        BY <2>12, <2>15 DEF StartsJob
      <3>2. JobOf(q) \in Job
        BY <1>1, <2>2, <2>15 DEF StartsJob, JobOf, Job, Merged, Task, TaskShape
      <3> QED
        BY <1>1, <2>4, <2>15, <3>1, <3>2 DEF StartsJob
    <2>16. CASE StartsImport(q)
      <3>1. \E t \in Task : GoesOn(q, t) /\ TaskShape(t)
                            /\ (t.phase = "call" => call'[q].who = t.who)
        BY <2>12, <2>16 DEF StartsImport
      <3> QED
        BY <1>1, <2>4, <2>16, <3>1 DEF StartsImport, StateOnly
    <2>17. CASE WritesState(q)
      <3>1. w \in Operators /\ task[q].next \in State /\ OfCommand(task[q].next)
        BY <2>2, <2>3, <2>17 DEF WritesState, Task, TaskShape
      <3> QED
        BY <1>1, <2>4, <2>17, <3>1 DEF WritesState, StateOnly
    <2> QED
      BY <1>10, <2>8, <2>9, <2>10, <2>11, <2>13, <2>14, <2>15, <2>16, <2>17 DEF HandlerEffect
  <1>11. ASSUME NEW o \in Operators, DropsState(o) PROVE TypeInv'
    BY <1>1, <1>3, <1>6, <1>8, <1>11 DEF DropsState
  <1>12. CASE UNCHANGED dialogueVars /\ \A p \in Callers : call'[p].who = call[p].who
    BY <1>1, <1>6, <1>12 DEF dialogueVars
  <1> QED
    BY <1>9, <1>10, <1>11, <1>12 DEF DialogueEffect

LEMMA TypeStep == TypeInv /\ [Next]_vars => TypeInv'
  <1> SUFFICES ASSUME TypeInv, [Next]_vars PROVE TypeInv'
    OBVIOUS
  <1>1. DialogueEffect /\ SessionEffect
    BY StepHasEffects
  <1>2. SessionTypeOK' /\ CallInv'
    BY <1>1, SessionTypeStep DEF SessionEffect, TypeInv, TypeOK
  <1> QED
    BY <1>1, <1>2, DialogueTypeStep

-----------------------------------------------------------------------------
(* The owner.                                                              *)

\* The strengthening of JobOfOwner: who is about to start a job owns the chat.
OwnerInv ==
  /\ \A j \in jobs : j.who = config.owner
  /\ \A q \in Callers : task[q].phase = "start" => task[q].who = config.owner

LEMMA OwnerInvInit == Init => OwnerInv
  BY DEF Init, OwnerInv, IdleTask

LEMMA OwnerInvStep ==
  ASSUME TypeInv, OwnerInv, DialogueEffect
  PROVE  OwnerInv'
  <1>1. /\ task \in [Callers -> Task] /\ jobs \subseteq Job
        /\ \A q \in Callers : task[q].phase # "idle" => task[q].who \in Operators
    BY DEF TypeInv, TypeOK, TaskInv, TaskShape
  <1>2. ASSUME NEW q \in Callers, NEW t \in Task, task' = [task EXCEPT ![q] = t],
               t.phase # "start", UNCHANGED <<config, jobs>>
        PROVE  OwnerInv'
    BY <1>1, <1>2 DEF OwnerInv
  <1>3. IdleTask \in Task /\ IdleTask.phase = "idle"
    BY StateTypes DEF IdleTask
  <1>4. ASSUME NEW q \in Callers, NEW o \in Operators, MessageEffect(q, o) PROVE OwnerInv'
    <2>1. ASSUME NEW t \in Task, Begun(q, o, t) PROVE OwnerInv'
      BY <1>2, <2>1 DEF Begun
    <2>2. ASSUME UNCHANGED <<task, config, jobs>> PROVE OwnerInv'
      BY <2>2 DEF OwnerInv
    <2> QED
      BY <1>4, <2>1, <2>2 DEF MessageEffect, BegunPlain, BegunCommand, BegunAnswer,
         AsksState, DropsState
  <1>5. ASSUME NEW q \in Callers, HandlerEffect(q) PROVE OwnerInv'
    <2>1. ASSUME Over(q) \/ \E t \in Task : GoesOn(q, t) /\ t.phase # "start",
                 UNCHANGED <<config, jobs>>
          PROVE  OwnerInv'
      BY <1>2, <1>3, <2>1 DEF Over, GoesOn
    <2>2. CASE SavesConfig(q)
      <3>1. /\ config'.owner = task[q].who /\ config.owner \in {task[q].who, NoOne}
            /\ jobs' = jobs
        BY <2>2 DEF SavesConfig, Merged, Foreign
      <3>2. \A j \in jobs : j.who = config'.owner
        BY <1>1, <3>1, SessionAssumption DEF OwnerInv, Job
      <3>3. ASSUME NEW p \in Callers, task'[p].phase = "start"
            PROVE  task'[p].who = config'.owner
        <4>1. CASE p = q
          BY <1>1, <1>3, <2>2, <3>1, <3>3, <4>1 DEF SavesConfig, Over, GoesOn
        <4>2. CASE p # q
          <5>1. task'[p] = task[p]
            BY <1>1, <2>2, <4>2 DEF SavesConfig, Over, GoesOn
          <5> QED
            BY <1>1, <3>1, <3>3, <5>1, SessionAssumption DEF OwnerInv
        <4> QED
          BY <4>1, <4>2
      <3> QED
        BY <3>1, <3>2, <3>3 DEF OwnerInv
    <2>3. CASE StartsJob(q)
      <3>1. \A j \in jobs' : j.who = config.owner
        BY <2>3 DEF StartsJob, JobOf, OwnerInv
      <3>2. \E t \in Task : task' = [task EXCEPT ![q] = t] /\ t.phase # "start"
        BY <1>3, <2>3 DEF StartsJob, Over, GoesOn
      <3> QED
        BY <1>1, <2>3, <3>1, <3>2 DEF StartsJob, OwnerInv
    <2>4. CASE UNCHANGED dialogueVars
      BY <2>4 DEF OwnerInv, dialogueVars
    <2> QED
      BY <1>5, <2>1, <2>2, <2>3, <2>4
         DEF HandlerEffect, RestsTask, Prepares, Maps, ReadsConfig, StartsImport,
             WritesState, StateOnly, CallsForStart
  <1>6. ASSUME NEW o \in Operators, DropsState(o) PROVE OwnerInv'
    BY <1>6 DEF DropsState, OwnerInv
  <1>7. CASE UNCHANGED dialogueVars
    BY <1>7 DEF OwnerInv, dialogueVars
  <1> QED
    BY <1>4, <1>5, <1>6, <1>7 DEF DialogueEffect

-----------------------------------------------------------------------------
(* The options.                                                            *)

\* Forgotten, for a chat of kind k.
ForgottenOf(k) ==
  CASE k = "private" -> {"access", "topics"}
    [] k = "channel" -> {}
    [] OTHER -> {"access"}

\* What was asked is at hand, but for what a chat of kind k forgets.
AtHand(k, t) == t.asked \ ForgottenOf(k) \subseteq t.given

\* A question names the chat unless it lost the range; one that names the chat can be
\* answered, and has at hand what was asked.
SoundState(k, s) ==
  s.step \in Question => /\ s.step # "access" => s.chat
                         /\ s.chat => AtHand(k, s)

\* Before the kind of the chat is known nothing is asked and nothing is forgotten.
Unknown(t) ==
  /\ t.asked \subseteq t.given
  /\ t.for \notin {"map", "start"}
  /\ t.d.step \notin Question /\ t.next.step \notin Question

\* The strengthening of JobAsAsked: the options are at hand in every state and every
\* handler that leads to a job.
AskInv ==
  /\ \A j \in jobs : \A f \in j.asked \ ForgottenOf(kind) : j.by[f] = j.n
  /\ \A o \in Operators : SoundState(kind, dialogue[o])
  /\ \A q \in Callers : /\ AtHand(kind, task[q])
                        /\ SoundState(kind, task[q].d) /\ SoundState(kind, task[q].next)
  /\ kind = "unknown" => /\ jobs = {}
                         /\ \A o \in Operators : dialogue[o].step \notin Question
                         /\ \A q \in Callers : Unknown(task[q])

LEMMA AskInvInit == Init => AskInv
  BY DEF Init, AskInv, IdleTask, NoState, SoundState, AtHand, Unknown, Question

LEMMA AskInvStep ==
  ASSUME TypeInv, OwnerInv, AskInv, DialogueEffect
  PROVE  AskInv'
  <1>1. /\ task \in [Callers -> Task] /\ jobs \subseteq Job
        /\ dialogue \in [Operators -> State]
        /\ kind \in Kinds \cup {"unknown"}
        /\ \A q \in Callers : TaskShape(task[q])
    BY DEF TypeInv, TypeOK, TaskInv
  <1>2. /\ IdleTask \in Task /\ IdleTask.asked = {} /\ IdleTask.for = "none"
        /\ IdleTask.d = NoState /\ IdleTask.next = NoState /\ NoState.step = "none"
    BY StateTypes DEF IdleTask, NoState
  <1>3. \A k : AtHand(k, IdleTask) /\ SoundState(k, NoState) /\ Unknown(IdleTask)
    BY <1>2 DEF AtHand, SoundState, Unknown, Question
  \* From what a step does to each part while the kind is known or stays unknown.
  <1>4. ASSUME UNCHANGED <<kind, jobs>>,
               \/ dialogue' = dialogue
               \/ \E o \in Operators, s \in State :
                    /\ SetsState(o, s) /\ SoundState(kind, s)
                    /\ kind = "unknown" => s.step \notin Question,
               \/ task' = task
               \/ \E q \in Callers, t \in Task :
                    /\ task' = [task EXCEPT ![q] = t] /\ AtHand(kind, t)
                    /\ SoundState(kind, t.d) /\ SoundState(kind, t.next)
                    /\ kind = "unknown" => Unknown(t)
        PROVE  AskInv'
    <2>1. \A o \in Operators : /\ SoundState(kind, dialogue'[o])
                               /\ kind = "unknown" => dialogue'[o].step \notin Question
      BY <1>1, <1>4 DEF AskInv, SetsState
    <2>2. \A q \in Callers : /\ AtHand(kind, task'[q])
                             /\ SoundState(kind, task'[q].d)
                             /\ SoundState(kind, task'[q].next)
                             /\ kind = "unknown" => Unknown(task'[q])
      BY <1>1, <1>4 DEF AskInv
    <2> QED
      BY <1>4, <2>1, <2>2 DEF AskInv
  <1>5. \A s : Plain(s) => SoundState(kind, s) /\ s.step \notin Question
    BY DEF Plain, SoundState
  <1>6. ASSUME NEW o \in Operators, DropsState(o) PROVE AskInv'
    BY <1>2, <1>3, <1>4, <1>6, StateTypes DEF DropsState, Question
  <1>7. ASSUME NEW q \in Callers, NEW o \in Operators, MessageEffect(q, o) PROVE AskInv'
    <2>1. SoundState(kind, dialogue[o]) /\ dialogue[o] \in State
      BY <1>1 DEF AskInv
    <2>2. ASSUME NEW t \in Task, BegunPlain(q, o, t) \/ BegunCommand(q, o, t)
                                  \/ BegunAnswer(q, o, t)
          PROVE  AskInv'
      <3>1. Begun(q, o, t)
        BY <2>2 DEF BegunPlain, BegunCommand, BegunAnswer
      <3>2. AtHand(kind, t)
        <4>1. CASE BegunPlain(q, o, t) \/ BegunCommand(q, o, t)
          BY <4>1 DEF BegunPlain, BegunCommand, AtHand
        <4>2. CASE BegunAnswer(q, o, t)
          <5>1. AtHand(kind, dialogue[o])
            BY <2>1, <4>2 DEF BegunAnswer, SoundState
          <5> QED
            BY <4>2, <5>1 DEF BegunAnswer, AtHand
        <4> QED
          BY <2>2, <4>1, <4>2
      <3>3. kind = "unknown" => Unknown(t)
        <4>1. kind = "unknown" => dialogue[o].step \notin Question
          BY DEF AskInv
        <4>2. (t.asked \subseteq t.given /\ t.for \notin {"map", "start"}) \/ BegunAnswer(q, o, t)
          BY <2>2 DEF BegunPlain, BegunCommand
        <4> QED
          BY <1>2, <3>1, <4>1, <4>2 DEF Unknown, Begun, BegunAnswer, Question
      <3> QED
        BY <1>3, <1>4, <2>1, <3>1, <3>2, <3>3 DEF Begun
    <2>3. ASSUME NEW s \in State, AsksState(o, s) PROVE AskInv'
      <3>1. SoundState(kind, s) /\ (kind = "unknown" => s.step \notin Question)
        <4>1. CASE Plain(s)
          BY <1>5, <4>1
        <4>2. CASE dialogue[o].step = "channel_matrix" /\ s = AccessPrompt(dialogue[o])
          BY <2>1, <4>2, AccessPromptTypes DEF SoundState, AskInv, Question
        <4> QED
          BY <2>3, <4>1, <4>2 DEF AsksState
      <3> QED
        BY <1>4, <2>3, <3>1 DEF AsksState
    <2> QED
      BY <1>6, <1>7, <2>2, <2>3 DEF MessageEffect
  <1>8. ASSUME NEW q \in Callers, HandlerEffect(q) PROVE AskInv'
    <2> DEFINE w == task[q].who
    <2>1. /\ AtHand(kind, task[q]) /\ SoundState(kind, task[q].d)
          /\ SoundState(kind, task[q].next)
          /\ kind = "unknown" => Unknown(task[q])
          /\ task[q] \in Task /\ TaskShape(task[q])
      BY <1>1 DEF AskInv
    \* The handler goes on with what it has.
    <2>2. ASSUME NEW t \in Task, GoesOn(q, t), t.next \in {task[q].next, NoState}
          PROVE  /\ AtHand(kind, t) /\ SoundState(kind, t.d) /\ SoundState(kind, t.next)
                 /\ (kind = "unknown" /\ t.for = task[q].for) => Unknown(t)
      BY <1>2, <1>3, <2>1, <2>2 DEF GoesOn, AtHand, Unknown, Question
    <2>3. ASSUME UNCHANGED <<kind, jobs>>,
                 Over(q) \/ \E t \in Task : /\ GoesOn(q, t)
                                            /\ t.next \in {task[q].next, NoState}
                                            /\ t.for = task[q].for \/ kind # "unknown",
                 \/ dialogue' = dialogue
                 \/ \E s \in State : /\ SetsState(w, s) /\ SoundState(kind, s)
                                     /\ kind = "unknown" => s.step \notin Question
          PROVE  AskInv'
      <3>1. \E t \in Task :
                    /\ task' = [task EXCEPT ![q] = t] /\ AtHand(kind, t)
                    /\ SoundState(kind, t.d) /\ SoundState(kind, t.next)
                    /\ kind = "unknown" => Unknown(t)
        BY <1>2, <1>3, <2>2, <2>3 DEF Over, GoesOn
      <3>2. ASSUME NEW s, SetsState(w, s), w \notin Operators PROVE dialogue' = dialogue
        BY <1>1, <3>2 DEF SetsState
      <3> QED
        BY <1>4, <2>3, <3>1, <3>2
    <2>4. CASE RestsTask(q)
      BY <1>5, <2>3, <2>4 DEF RestsTask, StateOnly
    <2>5. CASE Maps(q)
      <3>1. kind # "unknown"
        BY <2>1, <2>5 DEF Maps, Unknown
      <3>2. AccessPrompt(task[q].d) \in State /\ SoundState(kind, AccessPrompt(task[q].d))
        BY <2>1, AccessPromptTypes DEF Task, SoundState
      <3> QED
        BY <2>3, <2>5, <3>1, <3>2 DEF Maps, CallsForStart, StateOnly
    <2>6. CASE ReadsConfig(q) \/ SavesConfig(q) \/ StartsImport(q)
      BY <2>3, <2>6 DEF ReadsConfig, SavesConfig, StartsImport, StateOnly
    <2>7. CASE WritesState(q)
      <3>1. task[q].next \in State
        BY <2>1 DEF Task
      <3> QED
        BY <2>1, <2>3, <2>7, <3>1 DEF WritesState, StateOnly, Unknown
    <2>8. CASE UNCHANGED dialogueVars
      BY <1>4, <2>8 DEF dialogueVars
    <2>9. CASE StartsJob(q)
      <3>1. kind # "unknown"
        BY <2>1, <2>9 DEF StartsJob, Unknown, TaskShape
      <3>2. \A f \in JobOf(q).asked \ ForgottenOf(kind) : JobOf(q).by[f] = JobOf(q).n
        BY <2>1 DEF JobOf, Merged, AtHand, Task
      <3>3. \A j \in jobs' : \A f \in j.asked \ ForgottenOf(kind) : j.by[f] = j.n
        BY <2>9, <3>2 DEF StartsJob, AskInv
      <3>4. \E t \in Task : /\ task' = [task EXCEPT ![q] = t] /\ AtHand(kind, t)
                            /\ SoundState(kind, t.d) /\ SoundState(kind, t.next)
        BY <1>2, <1>3, <2>2, <2>9 DEF StartsJob, Over, GoesOn
      <3>5. \A p \in Callers : /\ AtHand(kind, task'[p])
                               /\ SoundState(kind, task'[p].d)
                               /\ SoundState(kind, task'[p].next)
        BY <1>1, <3>4 DEF AskInv
      <3> QED
        BY <2>9, <3>1, <3>3, <3>5 DEF StartsJob, AskInv
    <2>10. CASE Prepares(q)
      <3>1. /\ kind' # "unknown"
            /\ kind # "unknown" => kind' = kind
            /\ UNCHANGED <<dialogue, jobs>>
        BY <2>10, DialogueAssumption DEF Prepares, ChatKind
      <3>2. \A s : s.step \notin Question => SoundState(kind', s)
        BY DEF SoundState
      <3>3. \A j \in jobs : \A f \in j.asked \ ForgottenOf(kind') : j.by[f] = j.n
        BY <3>1 DEF AskInv
      <3>4. \A o \in Operators : SoundState(kind', dialogue[o])
        BY <3>1, <3>2 DEF AskInv
      <3>5. \A p \in Callers : /\ AtHand(kind', task[p])
                               /\ SoundState(kind', task[p].d)
                               /\ SoundState(kind', task[p].next)
        <4>1. CASE kind = "unknown"
          BY <3>2, <4>1 DEF AskInv, Unknown, AtHand
        <4>2. CASE kind # "unknown"
          BY <3>1, <4>2 DEF AskInv
        <4> QED
          BY <4>1, <4>2
      <3>6. ASSUME NEW t \in Task, GoesOn(q, t), NEW unmapped \in BOOLEAN,
                   t.next \in Questions(q, kind', unmapped)
            PROVE  SoundState(kind', t.next)
        <4>1. /\ t.next.chat /\ t.next.asked = task[q].asked
              /\ \E kept \in SUBSET Options :
                   /\ t.next.given = task[q].given \cap kept
                   /\ kept = IF kind' = "private" THEN PrivatePayload
                             ELSE IF kind' = "channel" THEN ChannelPayload ELSE GroupPayload
          BY <3>6, QuestionTypes DEF TypeInv
        <4>2. task[q].asked \subseteq Options
          BY <2>1 DEF Task
        <4>3. AtHand(kind', t.next)
          BY <3>5, <4>1, <4>2
             DEF AtHand, ForgottenOf, PrivatePayload, ChannelPayload, GroupPayload, Options
        <4> QED
          BY <4>1, <4>3 DEF SoundState
      <3>7. \E t \in Task : /\ task' = [task EXCEPT ![q] = t] /\ AtHand(kind', t)
                            /\ SoundState(kind', t.d) /\ SoundState(kind', t.next)
        BY <1>2, <1>3, <2>10, <3>5, <3>6 DEF Prepares, CallsForStart, Over, GoesOn, AtHand
      <3>8. \A p \in Callers : /\ AtHand(kind', task'[p])
                               /\ SoundState(kind', task'[p].d)
                               /\ SoundState(kind', task'[p].next)
        BY <1>1, <3>5, <3>7
      <3> QED
        BY <3>1, <3>3, <3>4, <3>8 DEF AskInv
    <2> QED
      BY <1>8, <2>4, <2>5, <2>6, <2>7, <2>8, <2>9, <2>10 DEF HandlerEffect
  <1>9. CASE UNCHANGED dialogueVars
    BY <1>4, <1>9 DEF dialogueVars
  <1> QED
    BY <1>6, <1>7, <1>8, <1>9 DEF DialogueEffect

-----------------------------------------------------------------------------
(* Dialogues that are over.                                                *)

\* Command n is o's: the state of o or a handler of o's message carries it.
InDialogue(o, n) == dialogue[o].n = n

InTask(o, n) == \E q \in Callers : task[q].who = o /\ task[q].n = n

Alive(o, n) == InDialogue(o, n) \/ InTask(o, n)

\* The strengthening of EndedStaysEnded: a command has one operator, numbers are given
\* out in turn, and a dialogue that ended quietly is in no state and in no handler.
EndInv ==
  /\ \A o \in Operators, n \in Commands : Alive(o, n) => n <= commands
  /\ \A n \in Commands : n > commands => ended[n] = "no"
  /\ \A n \in Commands, o \in Operators, p \in Operators :
       (Alive(o, n) /\ Alive(p, n)) => o = p
  /\ \A n \in Commands, o \in Operators : ended[n] = "quiet" => ~Alive(o, n)
  /\ \A q \in Callers : task[q].next.n \in {0, task[q].n}

LEMMA EndInvInit == Init => EndInv
  <1> SUFFICES ASSUME Init PROVE EndInv
    OBVIOUS
  <1>1. ASSUME NEW o \in Operators, NEW n \in Commands PROVE ~Alive(o, n)
    BY SessionAssumption
       DEF Init, Alive, InDialogue, InTask, IdleTask, NoState, Commands
  <1> QED
    BY <1>1 DEF Init, EndInv, IdleTask, NoState

LEMMA EndInvStep ==
  ASSUME TypeInv, EndInv, DialogueEffect
  PROVE  EndInv'
  <1> USE DialogueAssumption
  <1>1. /\ task \in [Callers -> Task] /\ dialogue \in [Operators -> State]
        /\ commands \in 0 .. MaxCommands
        /\ ended \in [Commands -> {"no", "busy", "quiet"}]
        /\ \A q \in Callers : TaskShape(task[q])
    BY DEF TypeInv, TypeOK, TaskInv
  <1>2. /\ IdleTask \in Task /\ IdleTask.who = NoOne /\ IdleTask.n = 0
        /\ IdleTask.next.n = 0 /\ NoState.n = 0
    BY StateTypes DEF IdleTask, NoState
  <1>3. 0 \notin Commands /\ NoOne \notin Operators
    BY SessionAssumption DEF Commands
  \* What is alive afterwards was alive before.
  <1>4. ASSUME UNCHANGED <<commands, ended>>,
               \A o \in Operators, n \in Commands : Alive(o, n)' => Alive(o, n),
               \A q \in Callers : task'[q].next.n \in {0, task'[q].n}
        PROVE  EndInv'
    BY <1>4 DEF EndInv
  \* A state changes to one with the number of a command alive, or none, and a
  \* handler goes on with its number.
  <1>5. ASSUME UNCHANGED <<commands, ended>>,
               \/ dialogue' = dialogue
               \/ \E o \in Operators, s \in State :
                    SetsState(o, s) /\ (s.n \in Commands => Alive(o, s.n)),
               \/ task' = task
               \/ \E q \in Callers, t \in Task :
                    /\ task' = [task EXCEPT ![q] = t]
                    /\ (t.who \in Operators /\ t.n \in Commands) => Alive(t.who, t.n)
                    /\ t.next.n \in {0, t.n}
        PROVE  EndInv'
    <2>1. ASSUME NEW o \in Operators, NEW n \in Commands, InDialogue(o, n)'
          PROVE  Alive(o, n)
      BY <1>1, <1>5, <2>1 DEF InDialogue, Alive, SetsState
    <2>2. ASSUME NEW o \in Operators, NEW n \in Commands, InTask(o, n)'
          PROVE  Alive(o, n)
      <3>1. PICK q \in Callers : task'[q].who = o /\ task'[q].n = n
        BY <2>2 DEF InTask
      <3>2. CASE task'[q] = task[q]
        BY <3>1, <3>2 DEF Alive, InTask
      <3>3. CASE task'[q] # task[q]
        BY <1>1, <1>5, <3>1, <3>3
      <3> QED
        BY <3>2, <3>3
    <2>3. \A q \in Callers : task'[q].next.n \in {0, task'[q].n}
      BY <1>1, <1>5 DEF EndInv
    <2> QED
      BY <1>4, <1>5, <2>1, <2>2, <2>3 DEF Alive
  <1>6. ASSUME NEW o \in Operators, DropsState(o) PROVE EndInv'
    <2>1. /\ task' = task /\ commands' = commands
          /\ dialogue' = [dialogue EXCEPT ![o] = NoState]
      BY <1>6 DEF DropsState, SetsState
    <2>2. ASSUME NEW p \in Operators, NEW n \in Commands, Alive(p, n)'
          PROVE  Alive(p, n) /\ (n = dialogue[o].n => InTask(p, n))
      <3>1. CASE InTask(p, n)
        BY <3>1 DEF Alive
      <3>2. CASE ~InTask(p, n)
        <4>1. dialogue'[p].n = n
          BY <2>1, <2>2, <3>2 DEF Alive, InDialogue, InTask
        <4>2. p # o /\ dialogue[p].n = n
          BY <1>1, <1>2, <1>3, <2>1, <4>1
        <4>3. n # dialogue[o].n
          BY <4>2 DEF EndInv, Alive, InDialogue
        <4> QED
          BY <4>2, <4>3 DEF Alive, InDialogue
      <3> QED
        BY <3>1, <3>2
    <2>3. ASSUME NEW n \in Commands, ended'[n] = "quiet", NEW p \in Operators, Alive(p, n)'
          PROVE  FALSE
      <3>1. Alive(p, n)
        BY <2>2, <2>3
      <3>2. ended[n] # "quiet"
        BY <3>1 DEF EndInv
      <3>3. n = dialogue[o].n /\ ~\E q \in Callers : task[q].n = n
        BY <1>6, <2>3, <3>2 DEF DropsState
      <3> QED
        BY <2>2, <2>3, <3>3 DEF InTask
    <2>4. ASSUME NEW n \in Commands, n > commands' PROVE ended'[n] = "no"
      <3>1. n # dialogue[o].n
        BY <1>1, <2>1, <2>4 DEF EndInv, Alive, InDialogue, Commands
      <3> QED
        BY <1>6, <2>1, <2>4, <3>1 DEF DropsState, EndInv
    <2>5. \A p \in Operators, n \in Commands : Alive(p, n)' => n <= commands'
      BY <2>1, <2>2 DEF EndInv
    <2>6. \A n \in Commands, p \in Operators, r \in Operators :
            (Alive(p, n)' /\ Alive(r, n)') => p = r
      BY <2>2 DEF EndInv
    <2>7. \A q \in Callers : task'[q].next.n \in {0, task'[q].n}
      BY <2>1 DEF EndInv
    <2> QED
      BY <2>3, <2>4, <2>5, <2>6, <2>7 DEF EndInv
  <1>7. ASSUME NEW q \in Callers, NEW o \in Operators, MessageEffect(q, o) PROVE EndInv'
    <2>1. ASSUME NEW t \in Task, BegunPlain(q, o, t) \/ BegunAnswer(q, o, t) PROVE EndInv'
      <3>1. Begun(q, o, t) /\ UNCHANGED commands
        BY <2>1 DEF BegunPlain, BegunAnswer
      <3>2. t.n = 0 \/ t.n = dialogue[o].n
        BY <2>1 DEF BegunPlain, BegunAnswer
      <3>3. t.n \in Commands => Alive(t.who, t.n)
        BY <1>3, <3>1, <3>2 DEF Begun, Alive, InDialogue
      <3> QED
        BY <1>2, <1>5, <3>1, <3>3 DEF Begun
    <2>2. ASSUME NEW t \in Task, BegunCommand(q, o, t) PROVE EndInv'
      <3> DEFINE k == commands + 1
      <3>1. /\ task' = [task EXCEPT ![q] = t] /\ dialogue' = dialogue /\ ended' = ended
            /\ commands' = k /\ t.n = k /\ t.who = o /\ t.next.n = 0
        BY <1>2, <2>2 DEF BegunCommand, Begun
      <3>2. k \in Commands /\ k > commands /\ ended[k] = "no"
        BY <1>1, <2>2 DEF BegunCommand, Commands, EndInv
      <3>3. \A p \in Operators : ~Alive(p, k)
        BY <1>1, <3>2 DEF EndInv, Commands
      <3>4. ASSUME NEW p \in Operators, NEW n \in Commands, Alive(p, n)'
            PROVE  Alive(p, n) \/ (p = o /\ n = k)
        <4>1. CASE InDialogue(p, n)'
          BY <3>1, <4>1 DEF InDialogue, Alive
        <4>2. CASE InTask(p, n)'
          <5>1. PICK r \in Callers : task'[r].who = p /\ task'[r].n = n
            BY <4>2 DEF InTask
          <5>2. CASE r = q
            BY <1>1, <3>1, <5>1, <5>2
          <5>3. CASE r # q
            BY <1>1, <3>1, <5>1, <5>3 DEF InTask, Alive
          <5> QED
            BY <5>2, <5>3
        <4> QED
          BY <3>4, <4>1, <4>2 DEF Alive
      <3>5. \A p \in Operators, n \in Commands : Alive(p, n)' => n <= commands'
        BY <1>1, <3>1, <3>4 DEF EndInv, Commands
      <3>6. \A n \in Commands : n > commands' => ended'[n] = "no"
        BY <1>1, <3>1 DEF EndInv, Commands
      <3>7. \A n \in Commands, p \in Operators, r \in Operators :
              (Alive(p, n)' /\ Alive(r, n)') => p = r
        BY <3>3, <3>4 DEF EndInv
      <3>8. \A n \in Commands, p \in Operators : ended'[n] = "quiet" => ~Alive(p, n)'
        BY <3>1, <3>2, <3>4 DEF EndInv
      <3>9. \A r \in Callers : task'[r].next.n \in {0, task'[r].n}
        BY <1>1, <3>1 DEF EndInv
      <3> QED
        BY <3>5, <3>6, <3>7, <3>8, <3>9 DEF EndInv
    <2>3. ASSUME NEW s \in State, AsksState(o, s) PROVE EndInv'
      <3>1. s.n = 0 \/ s.n = dialogue[o].n
        BY <1>1, <2>3, AccessPromptTypes DEF AsksState, Plain
      <3>2. s.n \in Commands => Alive(o, s.n)
        BY <1>3, <3>1 DEF Alive, InDialogue
      <3> QED
        BY <1>5, <2>3, <3>2 DEF AsksState
    <2> QED
      BY <1>6, <1>7, <2>1, <2>2, <2>3 DEF MessageEffect
  <1>8. ASSUME NEW q \in Callers, HandlerEffect(q) PROVE EndInv'
    <2> DEFINE w == task[q].who
    <2>1. /\ task[q] \in Task /\ TaskShape(task[q])
          /\ (w \in Operators /\ task[q].n \in Commands) => Alive(w, task[q].n)
          /\ task[q].next.n \in {0, task[q].n}
      BY <1>1 DEF EndInv, Alive, InTask
    <2>2. ASSUME UNCHANGED <<commands, ended>>,
                 Over(q) \/ \E t \in Task : GoesOn(q, t) /\ t.next.n \in {0, t.n},
                 \/ dialogue' = dialogue
                 \/ \E s \in State : SetsState(w, s) /\ s.n \in {0, task[q].n}
          PROVE  EndInv'
      <3>1. \E t \in Task :
                    /\ task' = [task EXCEPT ![q] = t]
                    /\ (t.who \in Operators /\ t.n \in Commands) => Alive(t.who, t.n)
                    /\ t.next.n \in {0, t.n}
        BY <1>2, <1>3, <2>1, <2>2 DEF Over, GoesOn
      <3>2. \/ dialogue' = dialogue
            \/ \E o \in Operators, s \in State :
                 SetsState(o, s) /\ (s.n \in Commands => Alive(o, s.n))
        <4>1. ASSUME NEW s, SetsState(w, s), w \notin Operators PROVE dialogue' = dialogue
          BY <1>1, <4>1 DEF SetsState
        <4> QED
          BY <1>3, <2>1, <2>2, <4>1
      <3> QED
        BY <1>5, <2>2, <3>1, <3>2
    <2>3. \A t \in Task : (GoesOn(q, t) /\ t.next \in {task[q].next, NoState})
                            => t.next.n \in {0, t.n}
      BY <1>2, <2>1 DEF GoesOn
    <2>4. CASE RestsTask(q)
      BY <2>2, <2>4 DEF RestsTask, StateOnly, Plain
    <2>5. CASE Prepares(q)
      <3>1. ASSUME NEW t \in Task, GoesOn(q, t), NEW unmapped \in BOOLEAN,
                   t.next \in Questions(q, kind', unmapped)
            PROVE  t.next.n \in {0, t.n}
        BY <3>1, QuestionTypes DEF GoesOn, TypeInv
      <3> QED
        BY <2>2, <2>3, <2>5, <3>1 DEF Prepares, CallsForStart
    <2>6. CASE Maps(q)
      <3>1. /\ AccessPrompt(task[q].d) \in State
            /\ AccessPrompt(task[q].d).n = task[q].n
        BY <2>1, <2>6, AccessPromptTypes DEF Maps, TaskShape, Task
      <3> QED
        BY <2>2, <2>3, <2>6, <3>1 DEF Maps, CallsForStart, StateOnly
    <2>7. CASE ReadsConfig(q) \/ SavesConfig(q) \/ StartsJob(q) \/ StartsImport(q)
      BY <2>2, <2>3, <2>7 DEF ReadsConfig, SavesConfig, StartsJob, StartsImport, StateOnly
    <2>8. CASE WritesState(q)
      <3>1. task[q].next \in State
        BY <2>1 DEF Task
      <3> QED
        BY <2>1, <2>2, <2>8, <3>1 DEF WritesState, StateOnly
    <2>9. CASE UNCHANGED dialogueVars
      BY <1>5, <2>9 DEF dialogueVars
    <2> QED
      BY <1>8, <2>4, <2>5, <2>6, <2>7, <2>8, <2>9 DEF HandlerEffect
  <1>9. CASE UNCHANGED dialogueVars
    BY <1>5, <1>9 DEF dialogueVars
  <1> QED
    BY <1>6, <1>7, <1>8, <1>9 DEF DialogueEffect

\* A job is started for a command that is alive.
LEMMA StartedIsAlive ==
  ASSUME TypeInv, EndInv, DialogueEffect, NEW j \in jobs' \ jobs
  PROVE  ended[j.n] # "quiet"
  <1>1. PICK q \in Callers : StartsJob(q)
    BY DEF DialogueEffect, MessageEffect, BegunPlain, BegunCommand, BegunAnswer, Begun,
       AsksState, DropsState, HandlerEffect, RestsTask, Prepares, Maps, ReadsConfig,
       SavesConfig, StartsImport, WritesState, StateOnly, dialogueVars
  <1>2. j.n = task[q].n
    BY <1>1 DEF StartsJob, JobOf
  <1>3. task[q].who \in Operators /\ task[q].n \in Commands
    BY <1>1 DEF StartsJob, TypeInv, TaskInv, TaskShape
  <1>4. Alive(task[q].who, task[q].n)
    BY DEF Alive, InTask
  <1> QED
    BY <1>2, <1>3, <1>4 DEF EndInv

-----------------------------------------------------------------------------
(* Theorems.                                                               *)

SessionInv == LoginInv /\ ClosedInv

DialogueInv == OwnerInv /\ AskInv /\ EndInv

LEMMA DialogueCorrect == Spec => [](TypeInv /\ SessionInv /\ DialogueInv)
  <1>1. Init => TypeInv /\ SessionInv /\ DialogueInv
    BY TypeInit, LoginInvInit, ClosedInvInit, OwnerInvInit, AskInvInit, EndInvInit
       DEF SessionInv, DialogueInv
  <1>2. TypeInv /\ SessionInv /\ DialogueInv /\ [Next]_vars
          => (TypeInv /\ SessionInv /\ DialogueInv)'
    <2> SUFFICES ASSUME TypeInv, SessionInv, DialogueInv, [Next]_vars
                 PROVE  (TypeInv /\ SessionInv /\ DialogueInv)'
      OBVIOUS
    <2>1. DialogueEffect /\ SessionEffect
      BY StepHasEffects
    <2>2. SessionTypeOK /\ CallInv /\ LoginInv /\ ClosedInv
      BY DEF TypeInv, TypeOK, SessionInv
    <2>3. Outside \/ \E q \in Callers : CallEffect(q)
      BY <2>1 DEF SessionEffect
    <2>4. LoginInv' /\ ClosedInv'
      BY <2>2, <2>3, LoginInvStep, ClosedInvStep
    <2>5. OwnerInv' /\ AskInv' /\ EndInv'
      BY <2>1, OwnerInvStep, AskInvStep, EndInvStep DEF DialogueInv
    <2> QED
      BY <2>4, <2>5, TypeStep DEF SessionInv, DialogueInv
  <1> QED
    BY <1>1, <1>2, PTL DEF Spec

\* Sessions, calls, dialogues, handlers and jobs keep their types.
THEOREM DialogueTypeCorrect == Spec => []TypeOK
  <1>1. TypeInv => TypeOK
    BY DEF TypeInv
  <1> QED
    BY DialogueCorrect, <1>1, PTL

\* A stored session is its operator's own and completely logged in, whatever calls of
\* the service overlap, give up, expire or are cut off by a restart.
THEOREM LoginsAreWhole == Spec => []LoginIsWhole
  <1>1. SessionInv => LoginIsWhole
    BY DEF SessionInv, LoginInv, LoginIsWhole, Whole
  <1> QED
    BY DialogueCorrect, <1>1, PTL

\* A session that /disconnect removed comes back only through a call that was running
\* at the removal.
THEOREM RemovedSessionsStayAway == Spec => RemovedStaysRemoved
  <1>1. TypeInv /\ SessionInv /\ [Next]_vars =>
          [\A o \in Operators, s \in Sessions :
             (/\ <<o, s>> \in closed
              /\ record'[o] = s \/ <<o, s>> \in client' \ client)
             => OverlappedCall(o)]_sessionVars
    <2> SUFFICES ASSUME TypeInv, SessionInv, [Next]_vars,
                        NEW o \in Operators, NEW s \in Sessions, <<o, s>> \in closed,
                        record'[o] = s \/ <<o, s>> \in client' \ client
                 PROVE  OverlappedCall(o)
      OBVIOUS
    <2>1. Outside \/ \E q \in Callers : CallEffect(q)
      BY StepHasEffects DEF SessionEffect
    <2> QED
      BY <2>1, RemovedComesBack DEF TypeInv, TypeOK, SessionInv
  <1> QED
    BY DialogueCorrect, <1>1, PTL DEF Spec, RemovedStaysRemoved

\* A job is started only by the operator that its chat belongs to, however many
\* operators configure and migrate the chat at once.
THEOREM JobsAreOfOwner == Spec => []JobOfOwner
  <1>1. DialogueInv => JobOfOwner
    BY DEF DialogueInv, OwnerInv, JobOfOwner
  <1> QED
    BY DialogueCorrect, <1>1, PTL

\* A job has every option that its command gave or its dialogue answered, whatever
\* other commands save in between, except those that the kind of the chat makes void.
THEOREM JobsAreAsAsked == Spec => []JobAsAsked
  <1>1. DialogueInv => JobAsAsked
    BY DEF DialogueInv, AskInv, JobAsAsked, Forgotten, ForgottenOf
  <1> QED
    BY DialogueCorrect, <1>1, PTL

\* A dialogue that ended while none of its messages was being handled starts no job.
THEOREM EndedDialoguesStartNothing == Spec => EndedStaysEnded
  <1>1. TypeInv /\ DialogueInv /\ [Next]_vars =>
          [\A j \in jobs' \ jobs : ended[j.n] # "quiet"]_vars
    BY StepHasEffects, StartedIsAlive DEF DialogueInv
  <1> QED
    BY DialogueCorrect, <1>1, PTL DEF Spec, EndedStaysEnded
=============================================================================
