--------------------------- MODULE Administration ---------------------------
(***************************************************************************)
(* The administration of a workspace beside its accounts and conversations *)
(* (workspaces.rs, routes/workspaces.rs): its name, its channels and their *)
(* overrides, its invites, and the audit rows that every change leaves.    *)
(*                                                                         *)
(* The reads of a handler before its transaction are one step per call it  *)
(* makes (get_channel, require, role_of); what they found may be stale in  *)
(* the next.  A transaction that nobody can see half done is one step.     *)
(* An argument that nothing looks at before a step is chosen in that step. *)
(* Kicks, bans and promotions are those of module Accounts, with the audit *)
(* row of module Workspace's calls.                                        *)
(***************************************************************************)
EXTENDS Conversations, Sequences

CONSTANTS
    Names,          \* clean names of the workspace and of channels
    Name0,          \* the name of the workspace and of each channel at the start
    Subjects,       \* the members and roles that overrides are set for
    MaxInvite       \* invite ids are 1..MaxInvite

ASSUME AdminAssumption ==
    /\ Name0 \in Names /\ "" \notin Names /\ None \notin Names
    /\ Cardinality(Channels0) <= 1
    /\ Subjects \subseteq Users \cup Roles
    /\ MaxInvite \in Nat

VARIABLES
    name,           \* of the workspace
    channels,       \* the name of the channel of a conversation, or None
    overrides,      \* channel_overrides: channel, target (user or role), allowed
    invites,        \* "none" (no such row), "live" or "revoked"
    trail,          \* workspace_audit, in the order of the commits
    ask             \* the arguments of a request, then its answer

tables == <<name, channels, overrides, invites>>
adminVars == <<tables, trail, ask>>
allVars == <<vars, adminVars>>

InviteIds == 1..MaxInvite

NoAsk == [caller |-> None, on |-> None, value |-> None, subject |-> None,
          began |-> 0, answer |-> None]

Row(table, key) == <<table, key>>

-----------------------------------------------------------------------------
(* Roles and permissions.                                                  *)

Permissions == {"View", "ManageWorkspace", "ManageChannels", "ManageRoles", "ManageMembers",
                "KickMembers", "BanMembers", "SendMessages", "ManageMessages", "ViewAuditLog"}

RoleHas(role, permission) ==
    \/ role = "admin"
    \/ role = "moderator" /\ permission \in {"SendMessages", "ManageMessages", "KickMembers",
                                             "ManageMembers", "ViewAuditLog"}
    \/ role = "member" /\ permission = "SendMessages"
    \/ role # None /\ permission = "View"

Rank == [guest |-> 0, member |-> 1, moderator |-> 2, admin |-> 3]

Outranks(actor, target) == Rank[target] < Rank[actor]

\* What require answers, "ok" to go on: the ban first, then the membership.
Refusal(u, permission) ==
    CASE u \in bans -> "Banned"
      [] u \notin bans /\ members[u] = None -> "NotMember"
      [] u \notin bans /\ members[u] # None /\ ~RoleHas(members[u], permission) -> "Forbidden"
      [] OTHER -> "ok"

CleanName(n) == n \in Names

\* The permission each call requires.
Needs(kind) ==
    CASE kind = "rename" -> "ManageWorkspace"
      [] kind \in {"create_channel", "rename_channel", "delete_channel",
                   "set_override", "delete_override"} -> "ManageChannels"
      [] kind \in {"add", "create_invite", "revoke_invite", "list_invites"} -> "ManageMembers"
      [] kind = "list_audit" -> "ViewAuditLog"

-----------------------------------------------------------------------------
(* How a request moves on and ends.                                        *)

\* One of these calls comes in with a live token.
Administer(r, s, kind, step, on, value) ==
    /\ Begin(r, kind, step, s, None)
    /\ ask' = [ask EXCEPT ![r] = [NoAsk EXCEPT !.caller = sessions[s].owner, !.on = on,
                                     !.value = value, !.began = Len(trail)]]
    /\ UNCHANGED <<roomVars, tables, trail>>

At(r, kinds, step) == req[r].kind \in kinds /\ req[r].step = step

Reply(r, answer) ==
    /\ End(r)
    /\ ask' = [ask EXCEPT ![r] = [NoAsk EXCEPT !.caller = ask[r].caller, !.began = ask[r].began,
                                               !.answer = answer]]

\* On to the next step, or out with the refusal.
OnOrOut(r, refusal, step) ==
    IF refusal = "ok" THEN To(r, step) /\ UNCHANGED ask ELSE Reply(r, refusal)

Reading == UNCHANGED <<accountVars, roomVars, tables, trail>>

\* record_audit, in the transaction of the change.
RecordAudit(actor, action, on, value, subject, began) ==
    trail' = Append(trail, [actor |-> actor, action |-> action, on |-> on, value |-> value,
                            subject |-> subject, began |-> began])

\* A change, its row and its commit.
Change(r, action, on, value) ==
    /\ RecordAudit(req[r].user, action, on, value, ask[r].subject, ask[r].began)
    /\ Reply(r, "ok")

-----------------------------------------------------------------------------
(* The gates.                                                              *)

ChannelCalls == {"get_channel", "list_overrides", "rename_channel", "delete_channel",
                 "set_override", "delete_override"}

\* get_channel: no such channel and no such member are one answer.
GetChannel(r) ==
    LET c == ask[r].on
        refusal == IF channels[c] = None THEN "NotMember" ELSE Refusal(req[r].user, "View")
        shown == [ask EXCEPT ![r].value = IF At(r, {"delete_channel"}, "channel")
                                          THEN channels[c] ELSE @]
    IN
    /\ At(r, ChannelCalls, "channel")
    /\ IF refusal # "ok" \/ req[r].kind = "get_channel" THEN Reply(r, refusal)
       ELSE /\ To(r, IF req[r].kind = "list_overrides" THEN "page" ELSE "require")
            /\ ask' = shown
    /\ Reading

\* get_workspace: the member gate of the reads, and of list_channels.
GetWorkspace(r) ==
    /\ At(r, {"get_workspace", "list_channels"}, "view")
    /\ OnOrOut(r, Refusal(req[r].user, "View"), "page")
    /\ Reading

FirstStatement(kind) ==
    CASE kind = "create_channel" -> "snapshot"
      [] kind \in {"list_invites", "list_audit"} -> "page"
      [] kind = "set_override" -> "target"
      [] kind \in {"rename_channel", "delete_channel"} -> "row"
      [] OTHER -> "write"

Naming == {"rename", "create_channel", "rename_channel"}
Granting == {"add", "create_invite"}

\* What the name or the role of a call can be.
Values(r) ==
    CASE req[r].kind \in Naming -> Names \cup {""}
      [] req[r].kind = "create_invite" -> Roles
      [] OTHER -> {ask[r].value}

\* What else is refused before the transaction, in the order of the checks.
Objection(r, actor, value) ==
    LET kind == req[r].kind
        target == ask[r].on
    IN CASE kind \in Naming /\ ~CleanName(value) -> "BadInput"
         [] kind \in Granting /\ ~Outranks(actor, value) -> "Forbidden"
         [] kind = "add" /\ Outranks(actor, value) /\ members[target] # None -> "BadInput"
         [] kind = "add" /\ Outranks(actor, value) /\ members[target] = None
              /\ target \in bans -> "Banned"
         [] OTHER -> "ok"

\* Mutant: a member is enough.
PermittedMember(u, kind) == Refusal(u, "View")

Permitted(u, kind) == Refusal(u, Needs(kind))

\* require, and what the handler checks on the role that it returns.
Require(r) ==
    LET actor == members[req[r].user]
        refusal == Permitted(req[r].user, req[r].kind)
    IN
    /\ req[r].step = "require"
    /\ IF refusal # "ok" THEN Reply(r, refusal)
       ELSE \E value \in Values(r) :
              LET objection == Objection(r, actor, value) IN
              IF objection # "ok" THEN Reply(r, objection)
              ELSE /\ req' = [req EXCEPT ![r].step = FirstStatement(req[r].kind), ![r].role = actor]
                   /\ ask' = [ask EXCEPT ![r].value = value]
    /\ Reading

\* Mutant: the handle is looked up before the caller is.
GateAfterLookup(r) ==
    /\ At(r, {"add"}, "gate")
    /\ \E u \in Users :
          OnOrOut(r, IF users[u] = None THEN "BadInput" ELSE Permitted(req[r].user, "add"), "handle")
    /\ Reading

\* The route's own gate, before it resolves the handle.
GateBeforeLookup(r) ==
    /\ At(r, {"add"}, "gate")
    /\ OnOrOut(r, Permitted(req[r].user, "add"), "handle")
    /\ Reading

LookupHandle(r) ==
    /\ At(r, {"add"}, "handle")
    /\ \E u \in Users, role \in Roles :
          IF users[u] = None THEN Reply(r, "BadInput")
          ELSE /\ To(r, "require")
               /\ ask' = [ask EXCEPT ![r].on = u, ![r].value = role]
    /\ Reading

\* A role, a permission or an overridable permission that is none: no statement runs.
Malformed(r) ==
    /\ req[r].step = "idle" /\ traffic \cap {"set_override", "delete_override", "add"} # {}
    /\ End(r)
    /\ UNCHANGED <<accountVars, roomVars, adminVars>>

-----------------------------------------------------------------------------
(* Reads: one more statement after the gate, and the answer.               *)

Page(r, kind) ==
    /\ At(r, {kind}, "page")
    /\ Reply(r, "ok")
    /\ Reading

ShowWorkspace(r) == Page(r, "get_workspace")
ListWorkspaces(r) == Page(r, "list_workspaces")
ListChannels(r) == Page(r, "list_channels")
ListOverrides(r) == Page(r, "list_overrides")

\* list_invites and list_audit ask for a permission first.
ListInvites(r) ==
    \/ Page(r, "list_invites")
    \/ /\ At(r, {"list_invites"}, "gate")
       /\ OnOrOut(r, Permitted(req[r].user, "list_invites"), "page")
       /\ Reading

ListAudit(r) ==
    \/ Page(r, "list_audit")
    \/ /\ At(r, {"list_audit"}, "gate")
       /\ OnOrOut(r, Permitted(req[r].user, "list_audit"), "page")
       /\ Reading

-----------------------------------------------------------------------------
(* The workspace and its members.                                          *)

RenameWorkspace(r) ==
    /\ At(r, {"rename"}, "write")
    /\ name' = ask[r].value
    /\ RecordAudit(req[r].user, "workspace.renamed", None, ask[r].value, None, ask[r].began)
    /\ To(r, "role")
    /\ UNCHANGED <<accountVars, roomVars, channels, overrides, invites, ask>>

\* The route reads the caller's role for its answer, after the commit.
AnswerRename(r) ==
    /\ At(r, {"rename"}, "role")
    /\ Reply(r, IF members[req[r].user] = None THEN "Forbidden" ELSE "ok")
    /\ Reading

Seated(u) ==
    [c \in ConversationIds |->
        IF conversations[c].kind # "channel" THEN conversations[c]
        ELSE [conversations[c] EXCEPT !.members = @ \cup {u}]]

\* The INSERT arbitrates; the seats come with it.
AddMember(r) ==
    LET u == ask[r].on IN
    /\ At(r, {"add"}, "write")
    /\ IF members[u] # None
       THEN Reply(r, "BadInput") /\ UNCHANGED <<members, conversations, trail>>
       ELSE /\ \A c \in ConversationIds : Free(r, Share(SeatRow(c, u)))
            /\ members' = [members EXCEPT ![u] = ask[r].value]
            /\ conversations' = Seated(u)
            /\ Change(r, "member.added", u, ask[r].value)
    /\ UNCHANGED <<users, wallets, sessions, revoked_by, devices, bans, traffic,
                   slots, signals, now, tables>>

ChannelRow(c) == Row("channel", c)

\* drop_member_overrides: those that name the member, in every channel.
Dropped(u) == {o \in overrides : o.target = u}

\* A kick or a ban, with what it drops and its audit row.
Departure(r, u) ==
    /\ Depart(r, u)
    /\ \A o \in Dropped(u) : Free(r, Share(ChannelRow(o.channel)))
    /\ overrides' = overrides \ Dropped(u)
    /\ RecordAudit(None, "member.departed", u, None, None, 0)
    /\ UNCHANGED <<name, channels, invites, ask>>

Promotion(r, u, role) ==
    /\ Promote(r, u, role)
    /\ RecordAudit(None, "member.role_changed", u, role, None, 0)
    /\ UNCHANGED <<tables, ask>>

-----------------------------------------------------------------------------
(* Channels.                                                               *)

NameKey(n) == Row("name", n)

\* A name is free to this request: no row has it, or will have it.
Holding(n) == {c \in ConversationIds : channels[c] = n}

\* The unique index waits for a row that is being written under this name, then
\* tells whether the name is taken.
NameFree(r, n) ==
    /\ Free(r, Update(NameKey(n)))
    /\ \A c \in Holding(n) : Free(r, Share(ChannelRow(c)))

NameTaken(r, n) == \E c \in Holding(n) : c # ask[r].on

\* create_channel lists the members it will seat, in its transaction.
Snapshot(r) ==
    /\ At(r, {"create_channel"}, "snapshot")
    /\ req' = [req EXCEPT ![r].step = "name", ![r].seen = {u \in Users : members[u] # None}]
    /\ UNCHANGED ask /\ Reading

CreateChannel(r) ==
    LET n == ask[r].value IN
    /\ At(r, {"create_channel"}, "name")
    /\ NameFree(r, n)
    /\ IF NameTaken(r, n)
       THEN Reply(r, "BadInput") /\ UNCHANGED <<conversations, channels, trail>>
       ELSE \E c \in Known :
              /\ Insert(c, "channel", req[r].seen)
              /\ channels' = [channels EXCEPT ![c] = n]
              /\ Change(r, "channel.created", c, n)
    /\ UNCHANGED <<accountVars, slots, signals, now, name, overrides, invites>>

\* The UPDATE has its row; it is an error of the database when there is none.
LockChannel(r) ==
    /\ At(r, {"rename_channel"}, "row")
    /\ Free(r, Update(ChannelRow(ask[r].on)))
    /\ IF channels[ask[r].on] = None THEN Reply(r, "Database")
       ELSE Take(r, Update(ChannelRow(ask[r].on)), "name") /\ UNCHANGED ask
    /\ Reading

RenameChannel(r) ==
    LET c == ask[r].on
        n == ask[r].value
    IN
    /\ At(r, {"rename_channel"}, "name")
    /\ NameFree(r, n)
    /\ IF NameTaken(r, n) THEN Reply(r, "BadInput") /\ UNCHANGED <<channels, trail>>
       ELSE /\ channels' = [channels EXCEPT ![c] = n]
            /\ Change(r, "channel.renamed", c, n)
    /\ UNCHANGED <<accountVars, roomVars, name, overrides, invites>>

\* The rows that the DELETE of a channel's conversation takes with it.
DoomedRows(c) == {Update(ChannelRow(c))} \cup {Update(SeatRow(c, u)) : u \in Users}

\* The DELETE of the conversation waits for these rows; the loser of a double delete finds no row.
LockDoomed(r) ==
    LET c == ask[r].on IN
    /\ At(r, {"delete_channel"}, "row")
    /\ \A lock \in DoomedRows(c) : Free(r, lock)
    /\ IF channels[c] = None THEN Reply(r, "NotMember")
       ELSE /\ req' = [req EXCEPT ![r].held = DoomedRows(c), ![r].step = "delete"]
            /\ UNCHANGED ask
    /\ Reading

\* Its row, seats, messages and overrides go with the conversation.
DeleteChannel(r) ==
    LET c == ask[r].on IN
    /\ At(r, {"delete_channel"}, "delete")
    /\ conversations' = [conversations EXCEPT ![c] = [kind |-> "gone", members |-> {}]]
    /\ channels' = [channels EXCEPT ![c] = None]
    /\ overrides' = {o \in overrides : o.channel # c}
    /\ Change(r, "channel.deleted", c, ask[r].value)
    /\ UNCHANGED <<accountVars, slots, signals, now, name, invites>>

-----------------------------------------------------------------------------
(* Overrides and invites.                                                  *)

RoleNamed(subject) == IF subject \in Users THEN members[subject] ELSE subject

\* role_of the target, then check_rank with the role that require returned.
OverrideTarget(r) ==
    /\ At(r, {"set_override"}, "target")
    /\ \E subject \in Subjects :
          LET role == RoleNamed(subject) IN
          IF role # None /\ Outranks(req[r].role, role)
          THEN To(r, "write") /\ ask' = [ask EXCEPT ![r].subject = subject]
          ELSE Reply(r, IF role = None THEN "BadInput" ELSE "Forbidden")
    /\ Reading

OverridesOf(c, subject) == {o \in overrides : o.channel = c /\ o.target = subject}

\* The upsert waits for the channel's row; without one its foreign key fails.
SetOverride(r) ==
    LET c == ask[r].on IN
    /\ At(r, {"set_override"}, "write")
    /\ Free(r, Share(ChannelRow(c)))
    /\ IF channels[c] = None THEN Reply(r, "Database") /\ UNCHANGED <<overrides, trail>>
       ELSE \E allow \in BOOLEAN :
              /\ overrides' = (overrides \ OverridesOf(c, ask[r].subject)) \cup
                                {[channel |-> c, target |-> ask[r].subject, allowed |-> allow]}
              /\ Change(r, "channel.override_set", c, allow)
    /\ UNCHANGED <<accountVars, roomVars, name, channels, invites>>

\* No row, no audit.
DeleteOverride(r) ==
    LET c == ask[r].on IN
    /\ At(r, {"delete_override"}, "write")
    /\ \E subject \in Subjects :
          LET found == OverridesOf(c, subject) IN
          \/ found = {} /\ Reply(r, "ok") /\ UNCHANGED <<overrides, trail>>
          \/ /\ found # {} /\ Free(r, Share(ChannelRow(c)))
             /\ overrides' = overrides \ found
             /\ Change(r, "channel.override_removed", c, None)
    /\ UNCHANGED <<accountVars, roomVars, name, channels, invites>>

CreateInvite(r) ==
    /\ At(r, {"create_invite"}, "write")
    /\ \E i \in InviteIds :
          /\ invites[i] = "none"
          /\ \A j \in 1..(i - 1) : invites[j] # "none"
          /\ invites' = [invites EXCEPT ![i] = "live"]
          /\ Change(r, "invite.created", i, ask[r].value)
    /\ UNCHANGED <<accountVars, roomVars, name, channels, overrides>>

\* Mutant: how many rows the UPDATE found is not asked.
RevokeBlindly(r) ==
    LET i == ask[r].on IN
    /\ At(r, {"revoke_invite"}, "write")
    /\ invites' = [invites EXCEPT ![i] = IF @ = "none" THEN @ ELSE "revoked"]
    /\ Change(r, "invite.revoked", i, None)
    /\ UNCHANGED <<accountVars, roomVars, name, channels, overrides>>

\* An unknown id is the answer of a stranger, and leaves no audit row.
RevokeInvite(r) ==
    LET i == ask[r].on IN
    /\ At(r, {"revoke_invite"}, "write")
    /\ IF invites[i] = "none" THEN Reply(r, "NotMember") /\ UNCHANGED <<invites, trail>>
       ELSE /\ invites' = [invites EXCEPT ![i] = "revoked"]
            /\ Change(r, "invite.revoked", i, None)
    /\ UNCHANGED <<accountVars, roomVars, name, channels, overrides>>

-----------------------------------------------------------------------------
(* The routes: which calls come in, with which arguments.                  *)

WorkspaceRoutes(r, s) ==
    \/ Administer(r, s, "list_workspaces", "page", None, None)
    \/ Administer(r, s, "get_workspace", "view", None, None)
    \/ Administer(r, s, "rename", "require", None, None)

MemberRoutes(r, s) ==
    Administer(r, s, "add", "gate", None, None)

ChannelRoutes(r, s) ==
    \/ Administer(r, s, "list_channels", "view", None, None)
    \/ Administer(r, s, "create_channel", "require", None, None)
    \/ \E c \in Known, kind \in {"get_channel", "rename_channel", "delete_channel"} :
          Administer(r, s, kind, "channel", c, None)

OverrideRoutes(r, s) ==
    \E c \in Known, kind \in {"list_overrides", "set_override", "delete_override"} :
        Administer(r, s, kind, "channel", c, None)

InviteRoutes(r, s) ==
    \/ Administer(r, s, "create_invite", "require", None, None)
    \/ \E i \in InviteIds : Administer(r, s, "revoke_invite", "require", i, None)
    \/ Administer(r, s, "list_invites", "gate", None, None)

AuditRoute(r, s) == Administer(r, s, "list_audit", "gate", None, None)

AdminInit ==
    /\ RoomsInit
    /\ name = Name0
    /\ channels = [c \in ConversationIds |-> IF c \in Channels0 THEN Name0 ELSE None]
    /\ overrides = {}
    /\ invites = [i \in InviteIds |-> "none"]
    /\ trail = <<>>
    /\ ask = [r \in Requests |-> NoAsk]

AdminServe(r) ==
    \/ req[r].step = "idle" /\ \E s \in Callers :
          \/ WorkspaceRoutes(r, s) \/ MemberRoutes(r, s) \/ ChannelRoutes(r, s)
          \/ OverrideRoutes(r, s) \/ InviteRoutes(r, s) \/ AuditRoute(r, s)
    \/ GetChannel(r) \/ GetWorkspace(r) \/ Require(r)
    \/ GateBeforeLookup(r) \/ LookupHandle(r) \/ Malformed(r)
    \/ ShowWorkspace(r) \/ ListWorkspaces(r) \/ ListChannels(r) \/ ListOverrides(r)
    \/ ListInvites(r) \/ ListAudit(r)
    \/ RenameWorkspace(r) \/ AnswerRename(r) \/ AddMember(r)
    \/ Snapshot(r) \/ CreateChannel(r) \/ LockChannel(r) \/ RenameChannel(r)
    \/ LockDoomed(r) \/ DeleteChannel(r)
    \/ OverrideTarget(r) \/ SetOverride(r) \/ DeleteOverride(r)
    \/ CreateInvite(r) \/ RevokeInvite(r)
    \/ \E u \in Users : Departure(r, u) \/ \E role \in Roles : Promotion(r, u, role)

AdminNext ==
    \/ \E r \in Requests : AdminServe(r) \/ ((RoomServe(r) \/ AccountServe(r)) /\ UNCHANGED adminVars)
    \/ (RoomsClock /\ UNCHANGED adminVars)

AdminSpec == AdminInit /\ [][AdminNext]_allVars

-----------------------------------------------------------------------------
(* What the audit tells.                                                   *)

World0 == [name |-> Name0,
           channels |-> [c \in ConversationIds |-> IF c \in Channels0 THEN Name0 ELSE None],
           members |-> Role0,
           invites |-> [i \in InviteIds |-> "none"]]

\* The workspace after what an audit row tells.
Told(w, e) ==
    CASE e.action = "workspace.renamed" -> [w EXCEPT !.name = e.value]
      [] e.action \in {"channel.created", "channel.renamed"} -> [w EXCEPT !.channels[e.on] = e.value]
      [] e.action = "channel.deleted" -> [w EXCEPT !.channels[e.on] = None]
      [] e.action \in {"member.added", "member.departed", "member.role_changed"} ->
            [w EXCEPT !.members[e.on] = e.value]
      [] e.action = "invite.created" -> [w EXCEPT !.invites[e.on] = "live"]
      [] e.action = "invite.revoked" -> [w EXCEPT !.invites[e.on] = "revoked"]
      [] OTHER -> w

WorldAt[n \in 0..Len(trail)] ==
    IF n = 0 THEN World0 ELSE Told(WorldAt[n - 1], trail[n])

\* What the row tells can happen to that workspace.
Possible(w, e) ==
    /\ e.action = "channel.created" => w.channels[e.on] = None
    /\ e.action \in {"channel.renamed", "channel.deleted", "channel.override_set",
                     "channel.override_removed"} => w.channels[e.on] # None
    /\ e.action \in {"channel.created", "channel.renamed"} =>
          \A c \in ConversationIds \ {e.on} : w.channels[c] # e.value
    /\ e.action = "member.added" => w.members[e.on] = None
    /\ e.action \in {"member.departed", "member.role_changed"} => w.members[e.on] # None
    /\ e.action = "invite.created" => w.invites[e.on] = "none"
    /\ e.action = "invite.revoked" => w.invites[e.on] # "none"

\* The permission behind each row that names its actor.
Behind(action) ==
    CASE action = "workspace.renamed" -> "ManageWorkspace"
      [] action \in {"channel.created", "channel.renamed", "channel.deleted",
                     "channel.override_set", "channel.override_removed"} -> "ManageChannels"
      [] action \in {"member.added", "invite.created", "invite.revoked"} -> "ManageMembers"

-----------------------------------------------------------------------------
Override == [channel: ConversationIds, target: Subjects, allowed: BOOLEAN]

\* Every variable keeps its type; an override has a channel, and each at most
\* one verdict per target (workspaces.rs:1544).
AdminTypeOK ==
    /\ RoomsTypeOK
    /\ name \in Names
    /\ \A c \in ConversationIds :
          /\ channels[c] \in Names \cup {None}
          /\ channels[c] # None <=> conversations[c].kind = "channel"
    /\ overrides \subseteq Override
    /\ \A o, p \in overrides : o.channel = p.channel /\ o.target = p.target => o = p
    /\ \A o \in overrides : channels[o.channel] # None
    /\ invites \in [InviteIds -> {"none", "live", "revoked"}]
    /\ \A r \in Requests : ask[r].began \in 0..Len(trail)

\* The audit rows, in the order of their commits, are the history of the
\* workspace: each is of a change that was possible when it was made, once, and
\* replaying them gives its name, its channels, its members and its invites.
\* Nothing is told that did not happen, and nothing that happened is missing
\* (workspaces.rs:400, 1505, 1670, 1945).
TrailIsHistory ==
    /\ \A i \in DOMAIN trail : Possible(WorldAt[i - 1], trail[i])
    /\ WorldAt[Len(trail)] = [name |-> name, channels |-> channels, members |-> members,
                              invites |-> invites]

\* A change is made on grounds that are read once, before the transaction: they
\* held at some moment between the arrival of the call and the change.  The
\* actor had the permission, and the member that an override names was one.
\* A call that comes in after its caller lost the right changes nothing
\* (workspaces.rs:942, 1562, 1580).
GroundsHeld ==
    \A i \in DOMAIN trail :
        LET e == trail[i]
            moments == e.began..(i - 1)
        IN
        /\ e.actor # None =>
              \E n \in moments : RoleHas(WorldAt[n].members[e.actor], Behind(e.action))
        /\ e.action = "channel.override_set" /\ e.subject \in Users =>
              \E n \in moments : WorldAt[n].members[e.subject] # None

\* Who is a stranger to the workspace while a call lasts, and not banned from
\* it, learns nothing: whether the channel, the invite or the handle exists, the
\* answer is the same (workspaces.rs:5, 1375, 1940, routes/workspaces.rs:329).
NoOracle ==
    [][\A r \in Requests :
          LET u == ask[r].caller IN
          /\ u # None /\ ask[r].answer = None /\ ask'[r].answer # None
          /\ u \notin bans
          /\ \A n \in ask[r].began..Len(trail) : WorldAt[n].members[u] = None
          /\ req[r].kind # "list_workspaces"
          => ask'[r].answer = "NotMember"]_allVars

=============================================================================
