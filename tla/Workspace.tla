------------------------------ MODULE Workspace ------------------------------
(***************************************************************************)
(* The governance of one workspace (apps/server/src/workspaces.rs): roles, *)
(* bans, one channel with its seats and overrides, and one invite.  As in  *)
(* Messaging, a request is a process that takes one database statement at  *)
(* a time at READ COMMITTED.                                               *)
(* The table variables hold committed rows; the uncommitted writes of an   *)
(* open transaction are named by call[r].writes and published by its       *)
(* commit.  The reads a handler makes before it opens its transaction are  *)
(* one action, its gate: what it found may be stale one step later.        *)
(***************************************************************************)
EXTENDS Integers, FiniteSets

CONSTANTS
    Users,      \* account ids, ordered: rows are locked in id order
    Roles,      \* the roles used, each given by its rank
    Reqs,       \* concurrent requests to the handlers below
    Posts,      \* concurrent requests to the channel routes (ChannelAccess)
    Ops,        \* the handlers that run
    MaxCalls,   \* bound: calls that pass their gate in one behaviour
    MaxUses,    \* the cap of the invite
    None        \* "no request", "no row", "no argument"

Guest == 0
Member == 1
Moderator == 2
Admin == 3
Owner == 4

ASSUME UsersAssumption == Users \subseteq Nat /\ IsFiniteSet(Users)
ASSUME RolesAssumption == Owner \in Roles /\ Roles \subseteq Guest..Owner
ASSUME BoundsAssumption == MaxCalls \in Nat /\ MaxUses \in Nat
ASSUME RequestsAssumption == Reqs \cap Posts = {}

VARIABLES
    role,       \* workspace_members: user -> role, None when there is no row
    banned,     \* workspace_bans
    channel,    \* whether the row of channels exists
    seats,      \* conversation_participants of the channel
    override,   \* channel_overrides (SEND_MESSAGES): subject -> verdict
    invite,     \* the row of invites
    rowLock,    \* user -> the request that locks its workspace_members key
    seatLock,   \* user -> the request that locks its seat row
    inviteLock, \* the request that locks the invite row
    at,         \* request -> the statement it executes next
    call,       \* request -> its arguments and its uncommitted writes
    calls,      \* gates passed so far (MaxCalls bounds it)
    raced,      \* history: two uncommitted transactions took owner rows away
    post        \* the route requests, whose actions are in ChannelAccess

tables == <<role, banned, channel, seats, override, invite>>
locks == <<rowLock, seatLock, inviteLock>>
governance == <<tables, locks, at, call, calls, raced>>
vars == <<governance, post>>

Subjects == ({"member"} \X Users) \cup ({"role"} \X Roles)

Verdicts == {"unset", "allow", "deny"}

Managed == {"set_role", "remove_member", "ban_member", "unban"}

Removals == {"remove_member", "ban_member", "leave"}

Handlers == Managed \cup {"leave", "add_member", "join_via_invite",
                          "revoke_invite", "set_override", "create_channel"}

ASSUME NoneAssumption == None \notin Reqs \cup Posts \cup Roles \cup Users
                         /\ None \notin Handlers

Steps == {"idle", "select", "lock", "write", "clean", "commit",
          "unban", "check", "insert", "seat", "redeem", "revoke", "override", "snapshot", "create"}

Invite == [uses: Nat, revoked: BOOLEAN, expired: BOOLEAN, role: Roles]

Call == [op: Handlers \cup {None}, actor: Users \cup {None},
         target: Users \cup {None}, new: Roles \cup {None},
         subject: Subjects \cup {None}, verdict: Verdicts,
         todo: SUBSET Users,
         writes: SUBSET {"row", "ban", "seat", "override"}]

Blank == [op |-> None, actor |-> None, target |-> None, new |-> None,
          subject |-> None, verdict |-> "unset", todo |-> {}, writes |-> {}]

\* A route request: its caller, its kind and its next statement.
Kinds == {"read", "send"}

PostSteps == {"idle", "heal", "gate", "lock", "store"}

Post == [user: Users \cup {None}, kind: Kinds, at: PostSteps]

Resting == [user |-> None, kind |-> "read", at |-> "idle"]

RoleHas(x, permission) ==
    \/ x \in {Owner, Admin}
    \/ x = Moderator /\ permission \in {"SendMessages", "KickMembers", "ManageMembers"}
    \/ x = Member /\ permission = "SendMessages"

Needs(op) ==
    CASE op = "set_role" -> "ManageRoles"
      [] op = "remove_member" -> "KickMembers"
      [] op \in {"ban_member", "unban"} -> "BanMembers"
      [] op \in {"add_member", "revoke_invite"} -> "ManageMembers"
      [] op \in {"set_override", "create_channel"} -> "ManageChannels"

IsMember(u) == role[u] # None

\* require(): banned callers and strangers fail before the permission is read.
Require(u, permission) ==
    /\ u \notin banned
    /\ IsMember(u)
    /\ RoleHas(role[u], permission)

\* check_rank(): a grant of None is no grant.
CheckRank(actor, target, new) ==
    \/ actor = Owner
    \/ target < actor /\ (new # None => new < actor)

Owners == {u \in Users : role[u] = Owner}

\* mutant of InviteUsable: the cap is compared with <=
UsableAtCap == ~invite.revoked /\ ~invite.expired /\ invite.uses <= MaxUses

InviteUsable == ~invite.revoked /\ ~invite.expired /\ invite.uses < MaxUses

Writes(r, what) == what \in call[r].writes

\* An open transaction has deleted the membership row of u, or its seat.
RowLeaving(u) ==
    \E q \in Reqs : Writes(q, "row") /\ call[q].op \in Removals /\ call[q].target = u

SeatLeaving(u) == \E q \in Reqs : Writes(q, "seat") /\ call[q].target = u

-----------------------------------------------------------------------------
(* How a request moves on and ends.                                        *)

Advance(r, step) == at' = [at EXCEPT ![r] = step]

Wrote(r, what) == [call EXCEPT ![r].writes = @ \cup what]

\* mutant of Unlock: the seat lock is kept
UnlockRows(r) ==
    /\ rowLock' = [u \in Users |-> IF rowLock[u] = r THEN None ELSE rowLock[u]]
    /\ inviteLock' = IF inviteLock = r THEN None ELSE inviteLock
    /\ UNCHANGED seatLock

Unlock(r) ==
    /\ rowLock' = [u \in Users |-> IF rowLock[u] = r THEN None ELSE rowLock[u]]
    /\ seatLock' = [u \in Users |-> IF seatLock[u] = r THEN None ELSE seatLock[u]]
    /\ inviteLock' = IF inviteLock = r THEN None ELSE inviteLock

\* The request ends; a SELECT ... FOR UPDATE that listed a row deleted by it
\* skips that row, even if the member is added again.
Finish(r, gone) ==
    /\ Unlock(r)
    /\ Advance(r, "idle")
    /\ call' = [q \in Reqs |-> IF q = r THEN Blank
                               ELSE IF at[q] = "lock"
                                    THEN [call[q] EXCEPT !.todo = @ \ gone]
                                    ELSE call[q]]

\* An error return, or a dropped future, before the commit.
Abandon(r) ==
    /\ Finish(r, {})
    /\ UNCHANGED <<tables, calls, raced, post>>

Rollback(r) == at[r] # "idle" /\ Abandon(r)

\* The gate of a handler passed: the call starts with statement step.
Begin(r, step, c) ==
    /\ c.op \in Ops
    /\ calls < MaxCalls
    /\ calls' = calls + 1
    /\ Advance(r, step)
    /\ call' = [call EXCEPT ![r] = c]
    /\ UNCHANGED <<tables, locks, raced, post>>

-----------------------------------------------------------------------------
(* set_role, remove_member, ban_member and unban: a gate, then one         *)
(* transaction that locks the rows of actor and target in id order and     *)
(* decides again on what the locked rows say.                              *)

ManageGate(r) ==
    \E op \in Managed, actor, target \in Users :
        /\ Require(actor, Needs(op))
        /\ \E new \in IF op = "set_role" THEN Roles ELSE {None} :
             Begin(r, "select", [Blank EXCEPT !.op = op, !.actor = actor,
                                              !.target = target, !.new = new])

\* mutant of Involved: only the row that will be written is locked
OnlyTarget(r) == {call[r].target}

\* Users whose rows locked_roles asks for.
Involved(r) == IF call[r].op = "unban" THEN {call[r].actor}
               ELSE {call[r].actor, call[r].target}

\* The snapshot of SELECT ... FOR UPDATE: the rows that it will lock.
ManageSelect(r) ==
    /\ at[r] = "select"
    /\ Advance(r, "lock")
    /\ call' = [call EXCEPT ![r].todo = {u \in Involved(r) : IsMember(u)}]
    /\ UNCHANGED <<tables, locks, calls, raced, post>>

\* mutant of FirstOf: the actor's row first
ActorFirst(r) == IF call[r].actor \in call[r].todo THEN call[r].actor
                 ELSE CHOOSE u \in call[r].todo : TRUE

\* ORDER BY user_id.
FirstOf(r) == CHOOSE u \in call[r].todo : \A v \in call[r].todo : u <= v

LockNextRow(r) ==
    /\ at[r] = "lock"
    /\ call[r].todo # {}
    /\ LET u == FirstOf(r)
       IN  /\ rowLock[u] = None
           /\ rowLock' = [rowLock EXCEPT ![u] = r]
           /\ call' = [call EXCEPT ![r].todo = @ \ {u}]
    /\ UNCHANGED <<tables, seatLock, inviteLock, at, calls, raced, post>>

\* mutant of Authorised: the permission read by the gate is trusted
AuthorisedByRank(r) ==
    LET c == call[r]
    IN  /\ \A u \in Involved(r) : rowLock[u] = r
        /\ c.op # "unban" => CheckRank(role[c.actor], role[c.target], c.new)

\* The rows came back and still carry the permission and the rank.
Authorised(r) ==
    LET c == call[r]
    IN  /\ \A u \in Involved(r) : rowLock[u] = r
        /\ RoleHas(role[c.actor], Needs(c.op))
        /\ c.op # "unban" => CheckRank(role[c.actor], role[c.target], c.new)

\* The call takes the owner role away from its target.
TakesOwner(r) == role[call[r].target] = Owner /\ call[r].new # Owner

\* owner_count() < 2 refuses to take the last owner away.
SparesOwner(r) == TakesOwner(r) => Cardinality(Owners) >= 2

Decide(r) ==
    /\ at[r] = "lock"
    /\ call[r].todo = {}
    /\ IF Authorised(r) /\ (call[r].op # "unban" => SparesOwner(r))
       THEN /\ Advance(r, IF call[r].op = "unban" THEN "unban" ELSE "write")
            /\ UNCHANGED <<tables, locks, call, calls, raced, post>>
       ELSE Abandon(r)

\* The DELETE of the ban and its commit.
Unban(r) ==
    /\ at[r] = "unban"
    /\ banned' = banned \ {call[r].target}
    /\ Finish(r, {})
    /\ UNCHANGED <<role, channel, seats, override, invite, calls, raced, post>>

\* mutant of OwnerRemains: no trigger
NoTrigger(r) == TRUE

\* The trigger enforce_workspace_owner after the write of r: an owner row is
\* left among the committed rows, the one being written apart.
OwnerRemains(r) ==
    \/ \E u \in Owners : u # call[r].target
    \/ call[r].new = Owner

\* An open transaction has taken an owner row away.
TakingOwner(q) == Writes(q, "row") /\ TakesOwner(q)

\* The UPDATE or DELETE of the target's row.  The DELETE of leave() waits for
\* the row, and finds nothing when it is gone; the others hold its lock.
WriteRow(r) ==
    LET c == call[r]
        t == c.target
    IN  /\ at[r] = "write"
        /\ rowLock[t] \in {r, None}
        /\ IF IsMember(t)
           THEN IF OwnerRemains(r)
                THEN /\ rowLock' = [rowLock EXCEPT ![t] = r]
                     /\ call' = Wrote(r, {"row"} \cup
                                  (IF c.op = "ban_member" /\ t \notin banned
                                   THEN {"ban"} ELSE {}))
                     /\ Advance(r, IF c.op = "set_role" THEN "commit" ELSE "clean")
                     /\ raced' = (raced \/ (TakesOwner(r) /\
                                            \E q \in Reqs \ {r} : TakingOwner(q)))
                     /\ UNCHANGED <<tables, seatLock, inviteLock, calls, post>>
                ELSE Abandon(r)
           ELSE /\ Advance(r, "clean")
                /\ UNCHANGED <<tables, locks, call, calls, raced, post>>

-----------------------------------------------------------------------------
(* The end of kick, ban and leave: the channel seats and the overrides     *)
(* that target the member are deleted, then everything commits.            *)

\* mutant of CleanUp: the channel seats are forgotten
CleanOverrides(r) ==
    LET t == call[r].target
    IN  /\ at[r] = "clean"
        /\ call' = Wrote(r, IF override[<<"member", t>>] # "unset"
                            THEN {"override"} ELSE {})
        /\ Advance(r, "commit")
        /\ UNCHANGED <<tables, locks, calls, raced, post>>

CleanUp(r) ==
    LET t == call[r].target
    IN  /\ at[r] = "clean"
        /\ t \in seats => seatLock[t] = None
        /\ call' = Wrote(r, (IF t \in seats THEN {"seat"} ELSE {}) \cup
                            (IF override[<<"member", t>>] # "unset"
                             THEN {"override"} ELSE {}))
        /\ seatLock' = IF t \in seats THEN [seatLock EXCEPT ![t] = r] ELSE seatLock
        /\ Advance(r, "commit")
        /\ UNCHANGED <<tables, rowLock, inviteLock, calls, raced, post>>

Commit(r) ==
    LET c == call[r]
        t == c.target
    IN  /\ at[r] = "commit"
        /\ role' = IF Writes(r, "row") THEN [role EXCEPT ![t] = c.new] ELSE role
        /\ banned' = IF Writes(r, "ban") THEN banned \cup {t} ELSE banned
        /\ seats' = IF Writes(r, "seat") THEN seats \ {t} ELSE seats
        /\ override' = IF Writes(r, "override")
                       THEN [override EXCEPT ![<<"member", t>>] = "unset"]
                       ELSE override
        /\ Finish(r, IF Writes(r, "row") /\ c.op \in Removals THEN {t} ELSE {})
        /\ UNCHANGED <<channel, invite, calls, raced, post>>

\* leave() decides on plain reads, then opens its transaction.
LeaveGate(r) ==
    \E u \in Users :
        /\ IsMember(u)
        /\ u \notin banned
        /\ role[u] = Owner => Cardinality(Owners) >= 2
        /\ Begin(r, "write", [Blank EXCEPT !.op = "leave", !.actor = u, !.target = u])

-----------------------------------------------------------------------------
(* add_member and join_via_invite: the INSERT of the membership row, whose *)
(* primary key arbitrates, and the channel seat in the same transaction.   *)

AddGate(r) ==
    \E actor, target \in Users, new \in Roles :
        /\ Require(actor, "ManageMembers")
        /\ CheckRank(role[actor], Guest, new)
        /\ Begin(r, "check", [Blank EXCEPT !.op = "add_member", !.actor = actor,
                                           !.target = target, !.new = new])

\* role_of and is_banned on the target.
AddCheck(r) ==
    LET t == call[r].target
    IN  /\ at[r] = "check"
        /\ IF ~IsMember(t) /\ t \notin banned
           THEN /\ Advance(r, "insert")
                /\ UNCHANGED <<tables, locks, call, calls, raced, post>>
           ELSE Abandon(r)

JoinGate(r) ==
    \E u \in Users :
        /\ u \notin banned
        /\ ~IsMember(u)
        /\ InviteUsable
        /\ Begin(r, "redeem", [Blank EXCEPT !.op = "join_via_invite", !.actor = u,
                                            !.target = u, !.new = invite.role])

\* mutant of JoinRedeem: the gate's look at the invite is trusted
JoinUnlocked(r) ==
    /\ at[r] = "redeem"
    /\ Advance(r, "insert")
    /\ UNCHANGED <<tables, locks, call, calls, raced, post>>

\* The invite row is locked, and checked again.
JoinRedeem(r) ==
    /\ at[r] = "redeem"
    /\ inviteLock = None
    /\ IF InviteUsable
       THEN /\ inviteLock' = r
            /\ Advance(r, "insert")
            /\ UNCHANGED <<tables, rowLock, seatLock, call, calls, raced, post>>
       ELSE Abandon(r)

\* An INSERT waits for an open transaction that inserted or deleted the key;
\* a row that is only locked or updated is a duplicate at once.
InsertRow(r) ==
    LET t == call[r].target
    IN  /\ at[r] = "insert"
        /\ IsMember(t) => ~RowLeaving(t)
        /\ IF IsMember(t)
           THEN Abandon(r)
           ELSE /\ rowLock[t] = None
                /\ rowLock' = [rowLock EXCEPT ![t] = r]
                /\ call' = Wrote(r, {"row"})
                /\ Advance(r, "seat")
                /\ UNCHANGED <<tables, seatLock, inviteLock, calls, raced, post>>

\* The use of the invite, the seat in the channel that the statement sees
\* (waiting for a DELETE of the seat) and the commit.
SeatNewMember(r) ==
    LET c == call[r]
    IN  /\ at[r] = "seat"
        /\ ~SeatLeaving(c.target)
        /\ role' = [role EXCEPT ![c.target] = c.new]
        /\ seats' = IF channel THEN seats \cup {c.target} ELSE seats
        /\ invite' = IF c.op = "join_via_invite"
                     THEN [invite EXCEPT !.uses = @ + 1] ELSE invite
        /\ Finish(r, {})
        /\ UNCHANGED <<banned, channel, override, calls, raced, post>>

-----------------------------------------------------------------------------
(* Invites and overrides: a gate, then a transaction with one write.       *)

RevokeGate(r) ==
    \E actor \in Users :
        /\ Require(actor, "ManageMembers")
        /\ Begin(r, "revoke", [Blank EXCEPT !.op = "revoke_invite", !.actor = actor])

Revoke(r) ==
    /\ at[r] = "revoke"
    /\ inviteLock = None
    /\ invite' = [invite EXCEPT !.revoked = TRUE]
    /\ Finish(r, {})
    /\ UNCHANGED <<role, banned, channel, seats, override, calls, raced, post>>

\* The invite's expires_at passes.
Expire ==
    /\ "join_via_invite" \in Ops
    /\ ~invite.expired
    /\ invite' = [invite EXCEPT !.expired = TRUE]
    /\ UNCHANGED <<role, banned, channel, seats, override, locks, at, call, calls, raced, post>>

\* set_override reads the target's role, delete_override ("unset") does not.
OverrideGate(r) ==
    \E actor \in Users, subject \in Subjects, verdict \in Verdicts :
        /\ channel
        /\ Require(actor, "ManageChannels")
        /\ verdict # "unset" =>
             LET rank == IF subject[1] = "role" THEN subject[2] ELSE role[subject[2]]
             IN  rank # None /\ CheckRank(role[actor], rank, None)
        /\ Begin(r, "override", [Blank EXCEPT !.op = "set_override", !.actor = actor,
                                    !.subject = subject, !.verdict = verdict])

\* The override row is not being deleted by an open transaction.
OverrideFree(s) ==
    \A q \in Reqs : Writes(q, "override") => s # <<"member", call[q].target>>

WriteOverride(r) ==
    LET c == call[r]
    IN  /\ at[r] = "override"
        /\ OverrideFree(c.subject)
        /\ override' = [override EXCEPT ![c.subject] = c.verdict]
        /\ Finish(r, {})
        /\ UNCHANGED <<role, banned, channel, seats, invite, calls, raced, post>>

-----------------------------------------------------------------------------
(* create_channel: the members are listed, then seated one by one and the  *)
(* channel becomes visible with the commit.                                *)

CreateGate(r) ==
    \E actor \in Users :
        /\ ~channel
        /\ Require(actor, "ManageChannels")
        /\ Begin(r, "snapshot", [Blank EXCEPT !.op = "create_channel", !.actor = actor])

ListMembers(r) ==
    /\ at[r] = "snapshot"
    /\ call' = [call EXCEPT ![r].todo = {u \in Users : IsMember(u)}]
    /\ Advance(r, "create")
    /\ UNCHANGED <<tables, locks, calls, raced, post>>

\* The name of the channel is unique in the workspace.
CommitChannel(r) ==
    /\ at[r] = "create"
    /\ IF channel
       THEN Abandon(r)
       ELSE /\ channel' = TRUE
            /\ seats' = call[r].todo
            /\ Finish(r, {})
            /\ UNCHANGED <<role, banned, override, invite, calls, raced, post>>

-----------------------------------------------------------------------------
\* Any workspace that sequential calls can build: an owner, no banned member,
\* every member and nobody else seated in the channel, no override.  Where
\* create_channel runs, the channel does not exist yet.
Init ==
    /\ role \in [Users -> Roles \cup {None}]
    /\ Owners # {}
    /\ banned \in SUBSET {u \in Users : ~IsMember(u)}
    /\ channel = ("create_channel" \notin Ops)
    /\ seats = {u \in Users : channel /\ IsMember(u)}
    /\ override = [s \in Subjects |-> "unset"]
    /\ invite \in [uses: {0}, revoked: {FALSE}, expired: {FALSE}, role: Roles \ {Owner}]
    /\ rowLock = [u \in Users |-> None]
    /\ seatLock = [u \in Users |-> None]
    /\ inviteLock = None
    /\ at = [r \in Reqs |-> "idle"]
    /\ call = [r \in Reqs |-> Blank]
    /\ calls = 0
    /\ raced = FALSE
    /\ post = [p \in Posts |-> Resting]

Handle(r) ==
    \/ /\ at[r] = "idle"
       /\ \/ ManageGate(r) \/ LeaveGate(r) \/ AddGate(r) \/ JoinGate(r)
          \/ RevokeGate(r) \/ OverrideGate(r) \/ CreateGate(r)
    \/ ManageSelect(r) \/ LockNextRow(r) \/ Decide(r) \/ Unban(r)
    \/ WriteRow(r) \/ CleanUp(r) \/ Commit(r)
    \/ AddCheck(r) \/ JoinRedeem(r) \/ InsertRow(r) \/ SeatNewMember(r)
    \/ Revoke(r) \/ WriteOverride(r) \/ ListMembers(r) \/ CommitChannel(r)
    \/ Rollback(r)

Next == Expire \/ \E r \in Reqs : Handle(r)

Spec == Init /\ [][Next]_vars

-----------------------------------------------------------------------------
(* Safety.                                                                 *)

\* Types; and every row lock belongs to a request inside its transaction, that
\* of a seat to one that deletes it or stores a message (workspaces.rs:686).
TypeOK ==
    /\ role \in [Users -> Roles \cup {None}]
    /\ banned \subseteq Users
    /\ channel \in BOOLEAN
    /\ seats \subseteq Users
    /\ override \in [Subjects -> Verdicts]
    /\ invite \in Invite
    /\ rowLock \in [Users -> Reqs \cup {None}]
    /\ seatLock \in [Users -> Reqs \cup Posts \cup {None}]
    /\ inviteLock \in Reqs \cup {None}
    /\ at \in [Reqs -> Steps]
    /\ call \in [Reqs -> Call]
    /\ calls \in 0..MaxCalls
    /\ raced \in BOOLEAN
    /\ post \in [Posts -> Post]
    /\ \A u \in Users :
          /\ rowLock[u] # None => at[rowLock[u]] # "idle"
          /\ seatLock[u] \in Reqs => Writes(seatLock[u], "seat")
          /\ seatLock[u] \in Posts => post[seatLock[u]].at = "store"
    /\ inviteLock # None => at[inviteLock] # "idle"

\* The doc of locked_roles: a role change, kick, ban or unban commits only if
\* the actor has the permission and outranks the target at that very moment,
\* so that "a promotion racing a kick cannot slip through".
AuthorityAtCommit ==
    [][\A r \in Reqs :
          LET c == call[r]
          IN  (c.op \in Managed /\ at'[r] = "idle" /\ tables' # tables) =>
                  /\ IsMember(c.actor)
                  /\ RoleHas(role[c.actor], Needs(c.op))
                  /\ c.op # "unban" => CheckRank(role[c.actor], role[c.target], c.new)
      ]_vars

\* owner_count and the trigger: a workspace loses its last owner only if two
\* transactions that take an owner row away are uncommitted at the same time.
OwnerLostOnlyToRace == Owners = {} => raced

\* An owner who demotes, kicks or bans another owner remains: no management
\* of somebody else leaves the workspace without an owner.
OwnerOutlivesOthers ==
    [][\A r \in Reqs :
          LET c == call[r]
          IN  (c.op \in Managed /\ c.actor # c.target /\ at'[r] = "idle" /\ Owners # {})
                  => Owners' # {}
      ]_vars

\* sync_add and sync_remove: whoever races whom, a seat in the channel belongs
\* to a member (before the self-heal of the read paths, see ChannelAccess).
OnlyMembersSeated == \A u \in seats : IsMember(u)

\* No invite is redeemed more than max_uses times.
InviteCapped == invite.uses <= MaxUses

\* Once a revocation has committed, the invite seats nobody, not even a
\* redemption that was already running.
RevokedSeatsNobody == [][invite.revoked => invite'.uses = invite.uses]_vars

\* The request whose lock r waits for, None if it can go on.
Blocker(r) ==
    LET t == call[r].target
    IN  CASE at[r] = "lock" /\ call[r].todo # {} -> rowLock[FirstOf(r)]
          [] at[r] \in {"write", "insert"} /\ rowLock[t] # r -> rowLock[t]
          [] at[r] = "clean" /\ t \in seats -> seatLock[t]
          [] at[r] = "seat" -> seatLock[t]
          [] at[r] \in {"redeem", "revoke"} -> inviteLock
          [] OTHER -> None

\* locked_roles: "deterministic user_id order so concurrent managers cannot
\* deadlock"; no set of requests waits for itself.
NoDeadlock ==
    \A waiting \in SUBSET Reqs :
        waiting # {} => \E r \in waiting : Blocker(r) \notin waiting

\* The comment of the owner guard: no update or delete leaves a workspace
\* without an owner.
OwnerAlways == Owners # {}

\* The design notes of the workspace tables: a banned user "cannot rejoin via
\* invite or direct add until unbanned".
BannedOutside == \A u \in banned : ~IsMember(u)
=============================================================================
