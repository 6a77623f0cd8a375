------------------------- MODULE TargetProvisioning -------------------------
(***************************************************************************)
(* The target chat of a dialog: found in the chat mapping, bound, or       *)
(* created, and the participants of the dialog brought into it.            *)
(*                                                                         *)
(* Source: TargetChatProvisioningService, and the workbook of /add_users,  *)
(* which adds people to the chat of a dialog that has one.  The API of     *)
(* eXpress is external: a call succeeds, is refused, or ends in an error   *)
(* after it may have had its effect.                                       *)
(*                                                                         *)
(* Nothing orders two executions that provision one dialog: each reads the *)
(* mapping, creates a chat if there is none, and saves what it knows.  An  *)
(* execution that fails anywhere leaves what it did behind.                *)
(*                                                                         *)
(* Abstracted: people are known by the server that can add them; the       *)
(* initiator, who is a member from the start, and the bots, who help, are  *)
(* left out; so are the titles, the retries and the audit, and the dialogs *)
(* that are left to manual review, which never get a chat.                 *)
(***************************************************************************)
EXTENDS Naturals, FiniteSets

CONSTANTS
  Makers,   \* executions that ensure the target chat
  Adders,   \* executions of /add_users
  People,   \* people who may take part in the dialog, apart from the initiator
  MaxChats  \* bound: chats that are created in a behaviour

ProvisioningAssumption == Makers \cap Adders = {} /\ MaxChats \in Nat

VARIABLES
  dialog,   \* the dialog's configuration, which does not change here
  mapping,  \* row of migration_chat_map
  chats,    \* chats created so far: 1 .. chats; 0 is the chat of a bind
  member,   \* [chat -> people in it]
  provision, \* [Makers \cup Adders -> the provisioning in hand]
  cut,      \* chats whose creation was cut off before the mapping was saved (history)
  raced     \* two executions were creating the chat at once (history)

provisionVars == <<dialog, mapping, chats, member, provision, cut, raced>>

Chats == 0 .. MaxChats

\* cts_host of a participant: the anchor server of the chat, another server with a bot
\* of ours, a server without one.
Host == {"anchor", "other", "unrouted"}

Dialog ==
  [kind : {"group", "channel", "private"}, strategy : {"create", "bind"},
   access : {"direct_add", "invite_link"}, host : UNION {[some -> Host] : some \in SUBSET People}]

Participants == DOMAIN dialog.host

Mapping == [target : Chats, status : {"none", "active", "bound", "completed"}]

NoMapping == [target |-> 0, status |-> "none"]

\* chat: the chat to provision.  old: the mapping as it was read.  targets: the
\* resolved participants.  hosts, batch: servers and people still to be added.
\* fallback: people to be invited.  failed: people reported as not added.
\* changed: somebody was added or invited.
Provision ==
  [phase : {"idle", "resolve", "create", "promote", "hosts", "batch", "single", "link",
            "invite", "report", "save", "ready"},
   chat : Chats, old : Mapping, targets : SUBSET People, hosts : SUBSET Host,
   batch : SUBSET People, fallback : SUBSET People, failed : SUBSET People,
   changed : BOOLEAN]

IdleProvision ==
  [phase |-> "idle", chat |-> 0, old |-> NoMapping, targets |-> {}, hosts |-> {},
   batch |-> {}, fallback |-> {}, failed |-> {}, changed |-> FALSE]

In(x, phase) == provision[x].phase = phase

Goes(x, p) == provision' = [provision EXCEPT ![x] = p]

\* The execution makes the chat: it found no mapping.
IsNew(p) == p.old.status = "none"

ProvisionInit(d, m) ==
  /\ dialog = d
  /\ mapping = m
  /\ chats = 0
  /\ member = [c \in Chats |-> {}]
  /\ provision = [x \in Makers \cup Adders |-> IdleProvision]
  /\ cut = {}
  /\ raced = FALSE

-----------------------------------------------------------------------------
(* ensure_target_chat.                                                     *)

\* The members of a group or a channel that is there already are brought up to date.
Synchronised == dialog.strategy = "create" /\ dialog.kind # "private"

FirstPhase ==
  IF mapping.status # "none" THEN IF Synchronised THEN "resolve" ELSE "ready"
  ELSE IF dialog.strategy = "bind" THEN "save" ELSE "resolve"

\* Seeded fault: a chat whose migration is complete is taken for no chat.
EnsureTarget_Anew(x) ==
  /\ x \in Makers
  /\ In(x, "idle")
  /\ Goes(x, [IdleProvision EXCEPT
                !.phase = IF mapping.status = "completed" THEN "resolve" ELSE FirstPhase,
                !.old = IF mapping.status = "completed" THEN NoMapping ELSE mapping,
                !.chat = mapping.target])
  /\ UNCHANGED <<dialog, mapping, chats, member, cut, raced>>

\* The mapping is read.
EnsureTarget(x) ==
  /\ x \in Makers
  /\ In(x, "idle")
  /\ Goes(x, [IdleProvision EXCEPT !.phase = FirstPhase, !.old = mapping,
                                   !.chat = mapping.target])
  /\ raced' = (raced \/ (/\ mapping.status = "none"
                         /\ \E y \in Makers : ~In(y, "idle") /\ IsNew(provision[y])))
  /\ UNCHANGED <<dialog, mapping, chats, member, cut>>

\* A channel is created with its initiator alone.
Alone == dialog.kind = "channel" \/ dialog.access = "invite_link"

\* Those who are named when the chat is created.
Seeds(p) ==
  IF ~IsNew(p) \/ Alone THEN {} ELSE {t \in p.targets : dialog.host[t] = "anchor"}

\* Those who are to be brought into the chat afterwards.
Recipients(p) == p.targets \ Seeds(p)

\* They are invited, or added server by server.
AppliesAccess(p) ==
  IF dialog.access = "invite_link" \/ Recipients(p) = {}
  THEN [p EXCEPT !.phase = "link", !.fallback = Recipients(p)]
  ELSE [p EXCEPT !.phase = "hosts", !.hosts = {dialog.host[t] : t \in Recipients(p)}]

\* The participants are listed and resolved.  A listing that fails resolves nobody;
\* a person without an account is skipped.
Resolve(x) ==
  /\ In(x, "resolve")
  /\ \E targets \in SUBSET Participants :
        LET p == [provision[x] EXCEPT !.targets = targets]
        IN  Goes(x, IF IsNew(p) THEN [p EXCEPT !.phase = "create"] ELSE AppliesAccess(p))
  /\ UNCHANGED <<dialog, mapping, chats, member, cut, raced>>

\* create_chat.  A call that is not answered may have created the chat.
Create(x) ==
  LET p == provision[x]
  IN  /\ In(x, "create")
      /\ chats < MaxChats
      /\ chats' = chats + 1
      /\ member' = [member EXCEPT ![chats + 1] = Seeds(p)]
      /\ \/ /\ Goes(x, [p EXCEPT !.phase = "promote", !.chat = chats + 1])
            /\ UNCHANGED cut
         \/ /\ Goes(x, IdleProvision)
            /\ cut' = cut \cup {chats + 1}
      /\ UNCHANGED <<dialog, mapping, raced>>

\* The initiator is made an administrator, or it is noted that he could not be; a
\* fatal refusal ends the execution (ProvisionFails).
Promote(x) ==
  /\ In(x, "promote")
  /\ Goes(x, AppliesAccess(provision[x]))
  /\ UNCHANGED <<dialog, mapping, chats, member, cut, raced>>

-----------------------------------------------------------------------------
(* _apply_member_access_strategy: people are added server by server.       *)

\* People who are not added are reported, and are to be invited.
GivenUp(p, people) == [p EXCEPT !.fallback = @ \cup people, !.failed = @ \cup people]

\* What follows a server whose people have been dealt with.
AfterHost(p) ==
  [p EXCEPT !.batch = {},
            !.phase = IF p.hosts # {} THEN "hosts"
                      ELSE IF p.fallback # {} THEN "link" ELSE "report"]

\* A bot of ours is configured for the server.
Configured(host) == host # "unrouted"

\* On another server a bot must be brought into the chat first, and be seen there as
\* an administrator.
HelperMayFail(host) == host # "anchor"

\* The people of the next server, or they are given up for want of a bot.
TakeHost(x) ==
  /\ In(x, "hosts")
  /\ \E host \in provision[x].hosts :
        LET p == [provision[x] EXCEPT !.hosts = @ \ {host}]
            people == {t \in Recipients(p) : dialog.host[t] = host}
        IN  \/ /\ Configured(host)
               /\ Goes(x, [p EXCEPT !.phase = "batch", !.batch = people])
            \/ /\ HelperMayFail(host)
               /\ Goes(x, AfterHost(GivenUp(p, people)))
  /\ UNCHANGED <<dialog, mapping, chats, member, cut, raced>>

\* The people that an unsuccessful call has brought into the chat all the same.
Joins(p, people) ==
  \E joined \in SUBSET people : member' = [member EXCEPT ![p.chat] = @ \cup joined]

\* ensure_chat_members, for all people of the server at once.
AddBatch(x) ==
  LET p == provision[x]
  IN  /\ In(x, "batch")
      /\ \/ /\ member' = [member EXCEPT ![p.chat] = @ \cup p.batch]
            /\ Goes(x, AfterHost([p EXCEPT !.changed = @ \/ ~(p.batch \subseteq member[p.chat])]))
         \/ /\ Joins(p, p.batch)
            /\ Goes(x, IF Cardinality(p.batch) > 1 THEN [p EXCEPT !.phase = "single"]
                       ELSE AfterHost(GivenUp(p, p.batch)))
      /\ UNCHANGED <<dialog, mapping, chats, cut, raced>>

\* Seeded fault: the first person who cannot be added ends the attempt.
AddSingle_StopsAtFirst(x) ==
  /\ In(x, "single")
  /\ \E t \in provision[x].batch :
        LET p == [provision[x] EXCEPT !.batch = @ \ {t}]
        IN  \/ /\ member' = [member EXCEPT ![p.chat] = @ \cup {t}]
               /\ Goes(x, IF p.batch = {} THEN AfterHost(p) ELSE p)
            \/ /\ UNCHANGED member
               /\ Goes(x, AfterHost(GivenUp(p, {t})))
  /\ UNCHANGED <<dialog, mapping, chats, cut, raced>>

\* ... and one by one after the batch was refused.
AddSingle(x) ==
  /\ In(x, "single")
  /\ \E t \in provision[x].batch :
        LET p == [provision[x] EXCEPT !.batch = @ \ {t}]
            onward(q) == IF q.batch = {} THEN AfterHost(q) ELSE q
        IN  \/ /\ member' = [member EXCEPT ![p.chat] = @ \cup {t}]
               /\ Goes(x, onward([p EXCEPT !.changed = @ \/ t \notin member[p.chat]]))
            \/ /\ Joins(p, {t})
               /\ Goes(x, onward(GivenUp(p, {t})))
  /\ UNCHANGED <<dialog, mapping, chats, cut, raced>>

\* _emit_access_link: without a link nobody is invited.
MakeLink(x) ==
  /\ In(x, "link")
  /\ \/ Goes(x, [provision[x] EXCEPT !.phase = "invite"])
     \/ Goes(x, [provision[x] EXCEPT !.phase = "report", !.fallback = {}])
  /\ UNCHANGED <<dialog, mapping, chats, member, cut, raced>>

\* One invitation.  A server without a bot, and any error, passes the person over.
Invite(x) ==
  /\ In(x, "invite")
  /\ \/ \E t \in provision[x].fallback :
           LET p == [provision[x] EXCEPT !.fallback = @ \ {t}]
           IN  \/ Goes(x, p)
               \/ Configured(dialog.host[t]) /\ Goes(x, [p EXCEPT !.changed = TRUE])
     \/ /\ provision[x].fallback = {}
        /\ Goes(x, [provision[x] EXCEPT !.phase = "report"])
  /\ UNCHANGED <<dialog, mapping, chats, member, cut, raced>>

\* Seeded fault: the mapping of a new chat, too, is saved only if somebody was added.
Report_OnlyChanged(x) ==
  LET p == provision[x]
  IN  /\ In(x, "report")
      /\ Goes(x, IF x \in Adders THEN IdleProvision
                 ELSE [IdleProvision EXCEPT !.phase = IF p.changed THEN "save" ELSE "ready",
                                            !.chat = p.chat, !.old = p.old])
      /\ UNCHANGED <<dialog, mapping, chats, member, cut, raced>>

\* The result is audited.  A mapping that is there is saved again if somebody was
\* added; /add_users saves nothing.
Report(x) ==
  LET p == provision[x]
  IN  /\ In(x, "report")
      /\ Goes(x, IF x \in Adders THEN IdleProvision
                 ELSE [IdleProvision EXCEPT
                         !.phase = IF IsNew(p) \/ p.changed THEN "save" ELSE "ready",
                         !.chat = p.chat, !.old = p.old])
      /\ UNCHANGED <<dialog, mapping, chats, member, cut, raced>>

\* The row is written whole: as it was read, or anew.
SavedMapping(p) ==
  IF IsNew(p)
  THEN [target |-> p.chat, status |-> IF dialog.strategy = "bind" THEN "bound" ELSE "active"]
  ELSE p.old

SaveMapping(x) ==
  LET saved == SavedMapping(provision[x])
  IN  /\ In(x, "save")
      /\ mapping' = saved
      /\ Goes(x, [IdleProvision EXCEPT !.phase = "ready", !.old = saved, !.chat = saved.target])
      /\ UNCHANGED <<dialog, chats, member, cut, raced>>

\* The people that the call in hand may bring into the chat.
AskedFor(x) ==
  CASE In(x, "batch") -> {provision[x].batch}
    [] In(x, "single") -> {{t} : t \in provision[x].batch}
    [] OTHER -> {{}}

\* An error that is not degraded, a cancellation or a crash ends the execution
\* anywhere; the call in hand may have had its effect.
ProvisionFails(x) ==
  LET p == provision[x]
  IN  /\ ~In(x, "idle") /\ ~In(x, "ready")
      /\ \E people \in AskedFor(x) : Joins(p, people)
      /\ cut' = IF IsNew(p) /\ p.chat # 0 THEN cut \cup {p.chat} ELSE cut
      /\ Goes(x, IdleProvision)
      /\ UNCHANGED <<dialog, mapping, chats, raced>>

-----------------------------------------------------------------------------
(* /add_users: the people of a workbook, for a dialog that has its own     *)
(* chat.                                                                   *)

AddMembers(a) ==
  /\ a \in Adders
  /\ In(a, "idle")
  /\ mapping.status # "none" /\ dialog.kind # "private"
  /\ \E targets \in SUBSET Participants \ {{}} :
        LET p == [IdleProvision EXCEPT !.chat = mapping.target, !.old = mapping,
                                       !.targets = targets]
        IN  Goes(a, AppliesAccess(p))
  /\ UNCHANGED <<dialog, mapping, chats, member, cut, raced>>

ProvisionStep ==
  \/ \E x \in Makers : EnsureTarget(x) \/ Resolve(x) \/ Create(x) \/ Promote(x) \/ SaveMapping(x)
  \/ \E a \in Adders : AddMembers(a)
  \/ \E x \in Makers \cup Adders :
        \/ TakeHost(x) \/ AddBatch(x) \/ AddSingle(x)
        \/ MakeLink(x) \/ Invite(x) \/ Report(x)
        \/ ProvisionFails(x)

-----------------------------------------------------------------------------
(* Properties.                                                             *)

\* The shape of the mapping and of the provisionings.
ProvisionTypeOK ==
  /\ dialog \in Dialog
  /\ mapping \in Mapping
  /\ chats \in Chats
  /\ member \in [Chats -> SUBSET People]
  /\ provision \in [Makers \cup Adders -> Provision]
  /\ cut \subseteq Chats
  /\ raced \in BOOLEAN

\* A chat that was created is the target of the mapping, or is being provisioned,
\* unless its creator was cut off before it saved the mapping or two executions
\* created the chat at once: a rerun, a retry and an access synchronisation create
\* no second chat beside the one that is there.
OneTarget ==
  raced \/ \A c \in 1 .. chats :
     \/ c \in cut
     \/ mapping.target = c
     \/ \E x \in Makers : ~In(x, "idle") /\ provision[x].chat = c

\* Direct adding leaves nobody out unnoticed: when the result is reported, each
\* participant who was resolved is in the chat or is reported as failed, whatever
\* was refused on the way.
NobodyForgotten ==
  \A x \in Makers \cup Adders :
     In(x, "report") /\ dialog.access = "direct_add" =>
       provision[x].targets \subseteq member[provision[x].chat] \cup provision[x].failed
=============================================================================
