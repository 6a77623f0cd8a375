--------------------------- MODULE TelegramSession ---------------------------
(***************************************************************************)
(* The Telegram sessions of the operators, kept by the telethon service:   *)
(* one stored record per operator, the login challenges in memory, and one *)
(* connected client per session.                                           *)
(*                                                                         *)
(* Source: TelegramSessionService, its challenge store, the session-aware  *)
(* gateway, the HTTP service in front of them and its remote client.       *)
(* Telegram is external: it sends a code, and accepts or refuses a code    *)
(* and a password.  A call is a sequence of steps between two awaits.      *)
(*                                                                         *)
(* Left out: the branch of start_connection for a fresh session string     *)
(* that is already authorized, which Telegram never grants, the list of    *)
(* allowed operators, the status call, which changes nothing, masking,     *)
(* encryption, and the audit.                                              *)
(***************************************************************************)
EXTENDS Integers, FiniteSets

CONSTANTS
  Operators,
  NoOne,     \* no operator
  Callers,   \* who calls the service: each has one call at a time
  FirstRecords, \* what an operator's record may be at first
  MaxLogins, \* bound: codes that Telegram ever sends
  MaxEvents, \* bound: messages to the bot, and faults
  SessionFaults \* kinds of fault: see ServiceFaults

\* "restart": the service restarts and forgets what is in memory.  "timeout": the
\* remote client stops waiting while the service goes on.
ServiceFaults == {"restart", "timeout"}

NoRecord == -1

\* A record without a session string, or one that does not decrypt.
Unreadable == -2

ASSUME SessionAssumption ==
  /\ NoOne \notin Operators
  /\ FirstRecords \subseteq {NoRecord, Unreadable, 0}
  /\ MaxLogins \in Nat
  /\ MaxEvents \in Nat
  /\ SessionFaults \subseteq ServiceFaults

VARIABLES
  record,     \* [Operators -> the stored session, NoRecord or Unreadable]
  challenge,  \* [Logins -> the login challenge]
  loginOf,    \* [Logins -> who asked for the code]
  authorized, \* [Logins -> what Telegram accepted of it] (Telegram)
  client,     \* sessions <<operator, number>> with a client in the cache
  logins,     \* codes sent so far
  call,       \* [Callers -> the call]
  closed,     \* sessions <<operator, number>> that /disconnect removed, and that
              \* were not stored again (history)
  events      \* messages and faults so far

\* What a handler of the bot leaves alone.
stored == <<record, challenge, loginOf, authorized, client, logins, closed>>

sessionVars == <<stored, call, events>>

Logins == 1 .. MaxLogins

\* Session k comes from login k; 0 is the one an operator may begin with.
Sessions == 0 .. MaxLogins

Challenge == {"none", "code", "password"}

Accepted == {"none", "code", "full"}

Operation == {"none", "start", "code", "password", "disconnect", "use"}

\* Where a call stands: about to read, to delete an unreadable record, to ask
\* Telegram, to store the session, to close the client, to delete the record, to
\* mark the session as used, to take the client from the cache; "done": answered.
CallPhase == {"idle", "begin", "drop", "telegram", "persist", "close", "remove",
              "touch", "gateway", "done"}

Outcome == {"none", "error", "challenge", "password", "ok"}

\* saw: the session that the call has read.  alone: the remote client no longer
\* waits.  overlapped: the operator's session was removed since the call began.
Call ==
  [phase : CallPhase, op : Operation, who : Operators \cup {NoOne}, login : 0 .. MaxLogins,
   saw : Sessions, outcome : Outcome, alone : BOOLEAN, overlapped : BOOLEAN]

IdleCall ==
  [phase |-> "idle", op |-> "none", who |-> NoOne, login |-> 0, saw |-> 0,
   outcome |-> "none", alone |-> FALSE, overlapped |-> FALSE]

SessionInit ==
  /\ record \in [Operators -> FirstRecords]
  /\ challenge = [k \in Logins |-> "none"]
  /\ loginOf = [k \in Logins |-> NoOne]
  /\ authorized = [k \in Logins |-> "none"]
  /\ client = {}
  /\ logins = 0
  /\ call = [q \in Callers |-> IdleCall]
  /\ closed = {}
  /\ events = 0

-----------------------------------------------------------------------------
(* A call begins and moves. *)

Happens ==
  /\ events < MaxEvents
  /\ events' = events + 1

\* The request is sent.
BeginCall(q, op, o, k) ==
  /\ call[q].phase = "idle"
  /\ call' = [call EXCEPT ![q] = [IdleCall EXCEPT !.phase = "begin", !.op = op,
                                                  !.who = o, !.login = k]]

At(q, op, phase) == call[q].op = op /\ call[q].phase = phase

Goes(q, phase) == call' = [call EXCEPT ![q].phase = phase]

GoesWith(q, phase, s) == call' = [call EXCEPT ![q].phase = phase, ![q].saw = s]

Answers(q, outcome) ==
  call' = [call EXCEPT ![q].phase = "done", ![q].outcome = outcome]

\* The caller takes the answer; the answer of a call that nobody waits for is lost.
EndCall(q) ==
  /\ call[q].phase = "done"
  /\ call' = [call EXCEPT ![q] = IdleCall]

\* A session that is stored again is no longer a removed one.
Upsert(o, s) ==
  /\ record' = [record EXCEPT ![o] = s]
  /\ closed' = closed \ {<<o, s>>}

DeleteRecord(o) == record' = [record EXCEPT ![o] = NoRecord]

-----------------------------------------------------------------------------
(* start_connection: a code is requested unless a session is connected. *)

StartRead(q) ==
  /\ At(q, "start", "begin")
  /\ LET mine == record[call[q].who] IN
       \/ mine \in Sessions /\ Answers(q, "error")
       \/ mine = Unreadable /\ Goes(q, "drop")
       \/ mine = NoRecord /\ Goes(q, "telegram")
  /\ UNCHANGED <<record, challenge, loginOf, authorized, client, logins, closed,
                 events>>

StartDrop(q) ==
  /\ At(q, "start", "drop")
  /\ DeleteRecord(call[q].who)
  /\ Goes(q, "telegram")
  /\ UNCHANGED <<challenge, loginOf, authorized, client, logins, closed, events>>

CreateChallenge(q, k) ==
  /\ challenge' = [challenge EXCEPT ![k] = "code"]
  /\ loginOf' = [loginOf EXCEPT ![k] = call[q].who]

\* The code is sent, or Telegram refuses the number.
RequestCode(q) ==
  /\ At(q, "start", "telegram")
  /\ \/ /\ logins < MaxLogins
        /\ logins' = logins + 1
        /\ CreateChallenge(q, logins + 1)
        /\ call' = [call EXCEPT ![q].phase = "done", ![q].outcome = "challenge",
                                ![q].login = logins + 1]
     \/ Answers(q, "error") /\ UNCHANGED <<challenge, loginOf, logins>>
  /\ UNCHANGED <<record, authorized, client, closed, events>>

-----------------------------------------------------------------------------
(* complete_code and complete_password. *)

\* _get_challenge: the operator's own, not expired.
ChallengeOf(q) ==
  IF call[q].login \in Logins /\ loginOf[call[q].login] = call[q].who
    THEN challenge[call[q].login] ELSE "none"

\* A password needs a challenge that waits for it.
GetChallenge(q) ==
  /\ call[q].op \in {"code", "password"} /\ call[q].phase = "begin"
  /\ IF ChallengeOf(q) = "none" \/ (call[q].op = "password" /\ ChallengeOf(q) = "code")
       THEN Answers(q, "error") ELSE Goes(q, "telegram")
  /\ UNCHANGED <<record, challenge, loginOf, authorized, client, logins, closed,
                 events>>

DeleteChallenge(k) == challenge' = [challenge EXCEPT ![k] = "none"]

\* An expired challenge is not marked.
MarkPasswordRequired(k) ==
  challenge' = [challenge EXCEPT ![k] = IF @ = "none" THEN "none" ELSE "password"]

\* Wrong, expired, or no answer from Telegram: the challenge is kept.
Refuse(q) ==
  /\ call[q].op \in {"code", "password"} /\ call[q].phase = "telegram"
  /\ Answers(q, "error")
  /\ UNCHANGED <<record, challenge, loginOf, authorized, client, logins, closed,
                 events>>

\* Mutant: the code alone counts as the login of an account with a password.
SignInAsksPassword_Connects(q) ==
  LET k == call[q].login IN
    /\ At(q, "code", "telegram")
    /\ authorized[k] # "full"
    /\ authorized' = [authorized EXCEPT ![k] = "code"]
    /\ DeleteChallenge(k)
    /\ Goes(q, "persist")
    /\ UNCHANGED <<record, loginOf, client, logins, closed, events>>

\* Telegram takes the code and wants the password of the account as well.
SignInAsksPassword(q) ==
  LET k == call[q].login IN
    /\ At(q, "code", "telegram")
    /\ authorized[k] # "full"
    /\ authorized' = [authorized EXCEPT ![k] = "code"]
    /\ MarkPasswordRequired(k)
    /\ Answers(q, "password")
    /\ UNCHANGED <<record, loginOf, client, logins, closed, events>>

\* A code is good once, and only for an account without a password.
SignIn(q) ==
  LET k == call[q].login IN
    /\ At(q, "code", "telegram")
    /\ authorized[k] = "none"
    /\ authorized' = [authorized EXCEPT ![k] = "full"]
    /\ DeleteChallenge(k)
    /\ Goes(q, "persist")
    /\ UNCHANGED <<record, loginOf, client, logins, closed, events>>

SignInWithPassword(q) ==
  LET k == call[q].login IN
    /\ At(q, "password", "telegram")
    /\ authorized[k] # "none"
    /\ authorized' = [authorized EXCEPT ![k] = "full"]
    /\ DeleteChallenge(k)
    /\ Goes(q, "persist")
    /\ UNCHANGED <<record, loginOf, client, logins, closed, events>>

PersistRecord(q) ==
  /\ call[q].phase = "persist"
  /\ Upsert(call[q].who, call[q].login)
  /\ Answers(q, "ok")
  /\ UNCHANGED <<challenge, loginOf, authorized, client, logins, events>>

-----------------------------------------------------------------------------
(* disconnect. *)

DisconnectRead(q) ==
  /\ At(q, "disconnect", "begin")
  /\ LET mine == record[call[q].who] IN
       \/ mine = NoRecord /\ Answers(q, "ok")
       \/ mine = Unreadable /\ Goes(q, "remove")
       \/ mine \in Sessions /\ GoesWith(q, "close", mine)
  /\ UNCHANGED <<record, challenge, loginOf, authorized, client, logins, closed,
                 events>>

\* The client leaves the cache and disconnects.
CloseSession(q) ==
  /\ At(q, "disconnect", "close")
  /\ client' = client \ {<<call[q].who, call[q].saw>>}
  /\ Goes(q, "remove")
  /\ UNCHANGED <<record, challenge, loginOf, authorized, logins, closed, events>>

Running(q) == call[q].phase \notin {"idle", "done"}

\* The record is deleted, whatever it holds by now.
DisconnectRemove(q) ==
  LET o == call[q].who IN
    /\ At(q, "disconnect", "remove")
    /\ closed' = closed \cup ({<<o, record[o]>>} \cap ({o} \X Sessions))
    /\ DeleteRecord(o)
    /\ call' = [p \in Callers |->
                  IF p = q THEN [call[q] EXCEPT !.phase = "done", !.outcome = "ok"]
                  ELSE IF Running(p) /\ call[p].who = o
                    THEN [call[p] EXCEPT !.overlapped = TRUE] ELSE call[p]]
    /\ UNCHANGED <<challenge, loginOf, authorized, client, logins, events>>

-----------------------------------------------------------------------------
(* resolve_session_string and the call to the gateway that it is for. *)

\* Mutant: a session whose client is connected is taken without its record.
ResolveRead_FromCache(q) ==
  /\ At(q, "use", "begin")
  /\ LET mine == record[call[q].who] IN
       \/ /\ mine = NoRecord
          /\ \/ \E s \in Sessions : /\ <<call[q].who, s>> \in client
                                   /\ GoesWith(q, "touch", s)
             \/ Answers(q, "error")
       \/ mine = Unreadable /\ Goes(q, "drop")
       \/ mine \in Sessions /\ GoesWith(q, "touch", mine)
  /\ UNCHANGED <<record, challenge, loginOf, authorized, client, logins, closed,
                 events>>

ResolveRead(q) ==
  /\ At(q, "use", "begin")
  /\ LET mine == record[call[q].who] IN
       \/ mine = NoRecord /\ Answers(q, "error")
       \/ mine = Unreadable /\ Goes(q, "drop")
       \/ mine \in Sessions /\ GoesWith(q, "touch", mine)
  /\ UNCHANGED <<record, challenge, loginOf, authorized, client, logins, closed,
                 events>>

ResolveDrop(q) ==
  /\ At(q, "use", "drop")
  /\ DeleteRecord(call[q].who)
  /\ Answers(q, "error")
  /\ UNCHANGED <<challenge, loginOf, authorized, client, logins, closed, events>>

\* last_used_at: the record is saved as it was read.
Touch(q) ==
  /\ At(q, "use", "touch")
  /\ Upsert(call[q].who, call[q].saw)
  /\ Goes(q, "gateway")
  /\ UNCHANGED <<challenge, loginOf, authorized, client, logins, events>>

\* The client of the session, a new one if the cache has none; Telegram may fail.
TakeClient(q) ==
  /\ At(q, "use", "gateway")
  /\ client' = client \cup {<<call[q].who, call[q].saw>>}
  /\ \E outcome \in {"ok", "error"} : Answers(q, outcome)
  /\ UNCHANGED <<record, challenge, loginOf, authorized, logins, closed, events>>

CallStep(q) ==
  \/ StartRead(q) \/ StartDrop(q) \/ RequestCode(q)
  \/ GetChallenge(q) \/ Refuse(q) \/ SignInAsksPassword(q) \/ SignIn(q)
  \/ SignInWithPassword(q) \/ PersistRecord(q)
  \/ DisconnectRead(q) \/ CloseSession(q) \/ DisconnectRemove(q)
  \/ ResolveRead(q) \/ ResolveDrop(q) \/ Touch(q) \/ TakeClient(q)

-----------------------------------------------------------------------------
(* Time and faults. *)

\* The lifetime of a challenge is over.
ChallengeExpires(k) ==
  /\ challenge[k] # "none"
  /\ DeleteChallenge(k)
  /\ UNCHANGED <<record, loginOf, authorized, client, logins, call, closed,
                 events>>

SessionFault(kind) ==
  /\ kind \in SessionFaults
  /\ Happens

\* Every call in progress fails at its caller.
ServiceRestarts ==
  /\ SessionFault("restart")
  /\ challenge' = [k \in Logins |-> "none"]
  /\ client' = {}
  /\ call' = [q \in Callers |->
                IF Running(q)
                  THEN [call[q] EXCEPT !.phase = "done", !.outcome = "error"]
                  ELSE call[q]]
  /\ UNCHANGED <<record, loginOf, authorized, logins, closed>>

\* The remote client's timeout: its caller gets an error, the call goes on.
CallerGivesUp(q) ==
  /\ SessionFault("timeout")
  /\ Running(q) /\ ~call[q].alone
  /\ call' = [call EXCEPT ![q].alone = TRUE]
  /\ UNCHANGED <<record, challenge, loginOf, authorized, client, logins, closed>>

SessionEnvironment ==
  \/ \E k \in Logins : ChallengeExpires(k)
  \/ ServiceRestarts

-----------------------------------------------------------------------------
(* Properties. *)

SessionTypeOK ==
  /\ record \in [Operators -> Sessions \cup {NoRecord, Unreadable}]
  /\ challenge \in [Logins -> Challenge]
  /\ loginOf \in [Logins -> Operators \cup {NoOne}]
  /\ authorized \in [Logins -> Accepted]
  /\ client \subseteq Operators \X Sessions
  /\ logins \in 0 .. MaxLogins
  /\ call \in [Callers -> Call]
  /\ closed \subseteq Operators \X Sessions
  /\ events \in 0 .. MaxEvents

\* A stored session is the operator's own, and Telegram has accepted the whole of
\* its login: the code and, where the account has one, the password
\* (telegram_session_service.py, complete_code and complete_password).
LoginIsWhole ==
  \A o \in Operators :
    record[o] \in Logins => /\ loginOf[record[o]] = o
                            /\ authorized[record[o]] = "full"

\* A session that /disconnect removed comes back, as the operator's record or as a
\* connected client, only through a call that was running at the removal
\* (telegram_session_service.py, disconnect and resolve_session_string;
\* session_aware_gateway.py, close_session).
OverlappedCall(o) ==
  \E q \in Callers : call[q].who = o /\ call[q].overlapped /\ call'[q] # call[q]

RemovedStaysRemoved ==
  [][\A o \in Operators, s \in Sessions :
       (/\ <<o, s>> \in closed
        /\ record'[o] = s \/ <<o, s>> \in client' \ client)
       => OverlappedCall(o)]_sessionVars
=============================================================================
