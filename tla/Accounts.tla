------------------------------ MODULE Accounts ------------------------------
(***************************************************************************)
(* Accounts, sessions and the reads that a session authorises: register,   *)
(* login, logout and devices (auth.rs), the session inventory and the      *)
(* revocation of one session by another (session_management.rs), and the   *)
(* three directory reads of a workspace that hold their authority with row *)
(* locks while they read: the ban list (moderation.rs), the statistics of  *)
(* the caller (workspace_stats.rs) and the member list (workspaces.rs).    *)
(*                                                                         *)
(* A request serves one call and ends.  A row lock is a record in "held";  *)
(* it is released when its transaction ends, by commit, refusal or loss.   *)
(* A statement is one step, and sees what is committed when it starts.     *)
(***************************************************************************)
EXTENDS Integers, FiniteSets

CONSTANTS
    Users,
    Handles,        \* normalised: the spellings of one handle are one value
    Requests,
    MaxSession,     \* session ids are 1..MaxSession, in the order of their UUIDs
    MaxDevices,     \* bound on the devices registered
    Traffic,        \* the sets of calls that one behaviour mixes
    Roles,          \* the roles used
    None,
    Handle0,        \* the database found at the start: accounts by handle,
    Owner0,         \* live sessions by owner,
    Role0           \* members of the workspace by role

ASSUME UsersAssumption == IsFiniteSet(Users)
ASSUME NumbersAssumption == MaxSession \in Nat /\ MaxDevices \in Nat
ASSUME NoneAssumption ==
    /\ None \notin Users \cup Handles
    /\ None \notin 1..MaxSession
    /\ None \notin Roles \cup {"guest", "member", "moderator", "admin"}
ASSUME DatabaseAssumption ==
    /\ Handle0 \in [Users -> Handles \cup {None}]
    /\ Owner0 \in [1..MaxSession -> Users \cup {None}]
    /\ Roles \subseteq {"guest", "member", "moderator", "admin"}
    /\ Role0 \in [Users -> Roles \cup {None}]

VARIABLES
    users,          \* the handle of each account, None for an id not yet taken
    wallets,        \* the accounts that have a wallet
    sessions,       \* per id: owner (None: no such row), revoked, expired
    revoked_by,     \* the session that revoked it (itself by logout), or None
    devices,
    members,        \* workspace_members of one workspace: role, or None
    bans,           \* workspace_bans
    req,            \* the request each slot serves
    traffic         \* the calls made in this behaviour

accountVars == <<users, wallets, sessions, revoked_by, devices, members, bans, traffic>>
avars == <<accountVars, req>>

Crypt == INSTANCE TeriCrypt WITH Secrets <- {"seed"}, Nonces <- {}, Texts <- {},
                           Sha256 <- <<>>

SessionIds == 1..MaxSession

Session == [owner: Users \cup {None}, revoked: BOOLEAN, expired: BOOLEAN]
NoSession == [owner |-> None, revoked |-> FALSE, expired |-> FALSE]

Keys == {Crypt!PublicKey("seed"), Crypt!ZeroKey}

Blank == [kind |-> "none", step |-> "idle", session |-> None, user |-> None,
          target |-> None, role |-> None, at |-> 0, seen |-> {}, held |-> {}]

Done == [Blank EXCEPT !.step = "done"]

-----------------------------------------------------------------------------
(* Rows and their locks.                                                   *)

SessionRow(s) == <<"session", s>>
MemberRow(u) == <<"member", u>>

Share(row) == [row |-> row, mode |-> "share"]
Update(row) == [row |-> row, mode |-> "update"]

Conflict(l, k) == l.row = k.row /\ "update" \in {l.mode, k.mode}

\* The other requests whose locks keep r from taking this one.
Holders(r, lock) == {q \in Requests \ {r} : \E l \in req[q].held : Conflict(l, lock)}

Free(r, lock) == Holders(r, lock) = {}

Take(r, lock, step) ==
    /\ Free(r, lock)
    /\ req' = [req EXCEPT ![r].held = @ \cup {lock}, ![r].step = step]

To(r, step) == req' = [req EXCEPT ![r].step = step]

\* The answer is sent and the transaction is over.
End(r) == req' = [req EXCEPT ![r] = Done]

\* authenticate: a token is that of one session.
Live(s) == sessions[s].owner # None /\ ~sessions[s].revoked /\ ~sessions[s].expired

Serves(r, kind) == req[r].kind = kind

\* A request with a bearer token that is live; any other is refused outright.
Begin(r, kind, step, s, target) ==
    /\ req[r].step = "idle"
    /\ kind \in traffic
    /\ Live(s)
    /\ req' = [req EXCEPT ![r] = [Blank EXCEPT !.kind = kind, !.step = step, !.session = s,
                                               !.user = sessions[s].owner, !.target = target]]
    /\ UNCHANGED accountVars

\* A call without a token.
Call(r, kind) == req[r].step = "idle" /\ kind \in traffic

-----------------------------------------------------------------------------
(* Accounts: register, login, logout, devices.                             *)

\* create_user: the handle is unique; the wallet follows in a statement of its own.
Register(r, u, h) ==
    /\ Call(r, "register")
    /\ users[u] = None
    /\ \/ /\ \A v \in Users : users[v] # h
          /\ users' = [users EXCEPT ![u] = h]
          /\ req' = [req EXCEPT ![r] = [Blank EXCEPT !.kind = "register", !.step = "wallet",
                                                     !.user = u]]
       \/ /\ \E v \in Users : users[v] = h
          /\ End(r)
          /\ UNCHANGED users
    /\ UNCHANGED <<wallets, sessions, revoked_by, devices, members, bans, traffic>>

EnsureWallet(r) ==
    /\ Serves(r, "register") /\ req[r].step = "wallet"
    /\ wallets' = wallets \cup {req[r].user}
    /\ End(r)
    /\ UNCHANGED <<users, sessions, revoked_by, devices, members, bans, traffic>>

\* The accounts and passwords that login reads never change afterwards.
Login(r, h, right, s) ==
    /\ Call(r, "login")
    /\ \E u \in Users :
          /\ users[u] = h
          /\ right
          /\ sessions[s].owner = None
          /\ sessions' = [sessions EXCEPT ![s].owner = u]
    /\ End(r)
    /\ UNCHANGED <<users, wallets, revoked_by, devices, members, bans, traffic>>

LoginRefused(r, h, right) ==
    /\ Call(r, "login")
    /\ ~right \/ \A u \in Users : users[u] # h
    /\ End(r)
    /\ UNCHANGED accountVars

Revoked(s, by) ==
    IF sessions[s].revoked THEN UNCHANGED <<sessions, revoked_by>>
    ELSE /\ sessions' = [sessions EXCEPT ![s].revoked = TRUE]
         /\ revoked_by' = [revoked_by EXCEPT ![s] = by]

\* One UPDATE: it waits for the row, then finds it revoked or not.
Logout(r) ==
    /\ Serves(r, "logout") /\ req[r].step = "logout"
    /\ Free(r, Update(SessionRow(req[r].session)))
    /\ Revoked(req[r].session, req[r].session)
    /\ End(r)
    /\ UNCHANGED <<users, wallets, devices, members, bans, traffic>>

\* Mutant: only the identity key is validated.
RegisterDeviceHalf(r, identity, agreement) ==
    /\ Serves(r, "device") /\ req[r].step = "device"
    /\ Cardinality(devices) < MaxDevices
    /\ devices' = IF Crypt!valid_verify_key(identity)
                  THEN devices \cup {[user |-> req[r].user, identity |-> identity,
                                      agreement |-> agreement]}
                  ELSE devices
    /\ End(r)
    /\ UNCHANGED <<users, wallets, sessions, revoked_by, members, bans, traffic>>

RegisterDevice(r, identity, agreement) ==
    /\ Serves(r, "device") /\ req[r].step = "device"
    /\ Cardinality(devices) < MaxDevices
    /\ devices' = IF Crypt!valid_verify_key(identity) /\ Crypt!valid_agreement_key(agreement)
                  THEN devices \cup {[user |-> req[r].user, identity |-> identity,
                                      agreement |-> agreement]}
                  ELSE devices
    /\ End(r)
    /\ UNCHANGED <<users, wallets, sessions, revoked_by, members, bans, traffic>>

\* Its thirty days are over.
Expire(s) ==
    /\ "expiry" \in traffic
    /\ sessions[s].owner # None
    /\ sessions' = [sessions EXCEPT ![s].expired = TRUE]
    /\ UNCHANGED <<users, wallets, revoked_by, devices, members, bans, traffic, req>>

-----------------------------------------------------------------------------
(* One session revokes another: revoke_owned.                              *)

\* The rows the SELECT ... FOR UPDATE finds: the caller's and its target, if owned.
Owned(r) == {s \in {req[r].session, req[r].target} : sessions[s].owner = req[r].user}

Unlocked(r) == {s \in Owned(r) : Update(SessionRow(s)) \notin req[r].held}

\* Mutant: the caller's own row first.
NextRowCallerFirst(r) ==
    IF req[r].session \in Unlocked(r) THEN req[r].session ELSE CHOOSE s \in Unlocked(r) : TRUE

\* ORDER BY id.
NextRow(r) == CHOOSE s \in Unlocked(r) : \A t \in Unlocked(r) : s <= t

LockOwned(r) ==
    /\ Serves(r, "revoke") /\ req[r].step = "lock"
    /\ Unlocked(r) # {}
    /\ Take(r, Update(SessionRow(NextRow(r))), "lock")
    /\ UNCHANGED accountVars

\* Mutant: the bearer token was live when the request came in; it is not asked again.
CheckCallerOnce(r) ==
    /\ Serves(r, "revoke") /\ req[r].step = "lock"
    /\ Unlocked(r) = {}
    /\ IF req[r].target \in Owned(r) THEN To(r, "revoke") ELSE End(r)
    /\ UNCHANGED accountVars

\* require_live, in a statement after the locks, and then whether the target is owned.
CheckCaller(r) ==
    /\ Serves(r, "revoke") /\ req[r].step = "lock"
    /\ Unlocked(r) = {}
    /\ IF Live(req[r].session) /\ req[r].target \in Owned(r) THEN To(r, "revoke") ELSE End(r)
    /\ UNCHANGED accountVars

RevokeTarget(r) ==
    /\ Serves(r, "revoke") /\ req[r].step = "revoke"
    /\ Revoked(req[r].target, req[r].session)
    /\ End(r)
    /\ UNCHANGED <<users, wallets, devices, members, bans, traffic>>

-----------------------------------------------------------------------------
(* Reads that hold their authority: session, then membership.              *)

SessionReads == {"sessions", "bans", "stats"}
DirectoryReads == {"bans", "stats", "roster"}
Reads == SessionReads \cup DirectoryReads

\* authorized_read looks for a row that is not revoked; the others check it later.
LockSession(r) ==
    LET lock == Share(SessionRow(req[r].session)) IN
    /\ req[r].kind \in SessionReads /\ req[r].step = "session"
    /\ Free(r, lock)
    /\ IF Serves(r, "stats") /\ sessions[req[r].session].revoked THEN End(r)
       ELSE Take(r, lock, IF Serves(r, "sessions") THEN "check" ELSE "member")
    /\ UNCHANGED accountVars

\* Mutant: a plain SELECT of the role.
LockMemberPlain(r) ==
    /\ req[r].kind \in DirectoryReads /\ req[r].step = "member"
    /\ Free(r, Share(MemberRow(req[r].user)))
    /\ req' = [req EXCEPT ![r].step = "check", ![r].role = members[req[r].user]]
    /\ UNCHANGED accountVars

\* A row that is not there is not locked.
LockMember(r) ==
    LET lock == Share(MemberRow(req[r].user)) IN
    /\ req[r].kind \in DirectoryReads /\ req[r].step = "member"
    /\ Free(r, lock)
    /\ req' = [req EXCEPT ![r].step = "check", ![r].role = members[req[r].user],
                          ![r].held = IF members[req[r].user] = None THEN @ ELSE @ \cup {lock}]
    /\ UNCHANGED accountVars

\* role_has(role, BanMembers)
Bans(role) == role = "admin"

\* The checks between the locks and the read; the ban is looked up after the wait.
Admitted(r) ==
    /\ Serves(r, "sessions") \/ Serves(r, "bans") => Live(req[r].session)
    /\ Serves(r, "stats") => ~sessions[req[r].session].expired
    /\ req[r].kind \in DirectoryReads => req[r].user \notin bans /\ req[r].role # None
    /\ Serves(r, "bans") => Bans(req[r].role)

CheckReader(r) ==
    /\ req[r].kind \in Reads /\ req[r].step = "check"
    /\ IF Admitted(r) THEN To(r, "read") ELSE End(r)
    /\ UNCHANGED accountVars

Read(r) ==
    /\ req[r].kind \in Reads /\ req[r].step = "read"
    /\ End(r)
    /\ UNCHANGED accountVars

-----------------------------------------------------------------------------
(* What the management calls of module Workspace commit, in one step here. *)

\* remove_member and leave.
Kick(r, u) ==
    /\ Call(r, "kick")
    /\ members[u] # None
    /\ Free(r, Update(MemberRow(u)))
    /\ members' = [members EXCEPT ![u] = None]
    /\ End(r)
    /\ UNCHANGED <<users, wallets, sessions, revoked_by, devices, bans, traffic>>

Ban(r, u) ==
    /\ Call(r, "ban")
    /\ members[u] # None
    /\ Free(r, Update(MemberRow(u)))
    /\ members' = [members EXCEPT ![u] = None]
    /\ bans' = bans \cup {u}
    /\ End(r)
    /\ UNCHANGED <<users, wallets, sessions, revoked_by, devices, traffic>>

SetRole(r, u, role) ==
    /\ Call(r, "role")
    /\ members[u] # None
    /\ Free(r, Update(MemberRow(u)))
    /\ members' = [members EXCEPT ![u] = role]
    /\ End(r)
    /\ UNCHANGED <<users, wallets, sessions, revoked_by, devices, bans, traffic>>

\* The connection, the statement or the client fails: the transaction is undone.
Lose(r) ==
    /\ req[r].step \notin {"idle", "done"}
    /\ End(r)
    /\ UNCHANGED accountVars

Init ==
    /\ users = Handle0
    /\ wallets = {u \in Users : Handle0[u] # None}
    /\ sessions = [s \in SessionIds |-> [NoSession EXCEPT !.owner = Owner0[s]]]
    /\ revoked_by = [s \in SessionIds |-> None]
    /\ devices = {}
    /\ members = Role0
    /\ bans = {}
    /\ req = [r \in Requests |-> Blank]
    /\ traffic \in Traffic

BeginAny(r) ==
    \E s \in SessionIds :
        \/ \E t \in SessionIds :
              sessions[t].owner # None /\ Begin(r, "revoke", "lock", s, t)
        \/ \E kind \in SessionReads : Begin(r, kind, "session", s, None)
        \/ Begin(r, "roster", "member", s, None)
        \/ Begin(r, "logout", "logout", s, None)
        \/ Begin(r, "device", "device", s, None)

Anonymous(r) ==
    \/ \E u \in Users, h \in Handles : Register(r, u, h)
    \/ \E h \in Handles, right \in BOOLEAN :
          (\E s \in SessionIds : Login(r, h, right, s)) \/ LoginRefused(r, h, right)

Manage(r) ==
    \E u \in Users : Kick(r, u) \/ Ban(r, u) \/ \E role \in Roles : SetRole(r, u, role)

Serve(r) ==
    \/ BeginAny(r) \/ Anonymous(r)
    \/ EnsureWallet(r) \/ Logout(r)
    \/ \E identity, agreement \in Keys : RegisterDevice(r, identity, agreement)
    \/ LockOwned(r) \/ CheckCaller(r) \/ RevokeTarget(r)
    \/ LockSession(r) \/ LockMember(r) \/ CheckReader(r) \/ Read(r)

Next ==
    \/ \E r \in Requests : Serve(r) \/ Manage(r) \/ Lose(r)
    \/ \E s \in SessionIds : Expire(s)

Spec == Init /\ [][Next]_avars

-----------------------------------------------------------------------------
Locks ==
    [row: {<<"session", s>> : s \in SessionIds} \cup {<<"member", u>> : u \in Users},
     mode: {"share", "update"}]

AccountKinds == Reads \cup {"none", "register", "logout", "device", "revoke"}
AccountSteps == {"idle", "done", "wallet", "logout", "device", "lock", "revoke", "session",
                 "member", "check", "read"}

\* Every variable keeps its type, a device has keys that an envelope can be
\* sealed to, and a revoked session is one that something revoked (auth.rs:282).
TypeOK ==
    /\ users \in [Users -> Handles \cup {None}]
    /\ wallets \subseteq Users
    /\ sessions \in [SessionIds -> Session]
    /\ revoked_by \in [SessionIds -> SessionIds \cup {None}]
    /\ \A s \in SessionIds : sessions[s].revoked <=> revoked_by[s] # None
    /\ \A d \in devices : d.identity # Crypt!ZeroKey /\ d.agreement # Crypt!ZeroKey
    /\ members \in [Users -> Roles \cup {None}]
    /\ bans \subseteq Users
    /\ \A r \in Requests : req[r].kind \in AccountKinds =>
          /\ req[r].step \in AccountSteps
          /\ req[r].held \subseteq Locks
          /\ req[r].session \in SessionIds \cup {None}

\* No two sessions revoke each other, whatever the order in which their
\* requests reach the rows: the one that waits finds itself revoked and leaves
\* the winner alone (session_management.rs:140).
NoMutualRevocation ==
    \A s, t \in SessionIds :
        s # t /\ revoked_by[s] = t => revoked_by[t] # s

\* While a request reads, what admitted it still holds: its session is not
\* revoked, its caller is a member outside the bans with the role that was
\* checked.  A revocation, a kick, a ban or a change of role commits before the
\* check or after the read (moderation.rs:57, workspace_stats.rs:47,
\* session_management.rs:63, workspaces.rs:836).
ReadsUnderAuthority ==
    \A r \in Requests : req[r].kind \in Reads /\ req[r].step = "read" =>
        /\ req[r].kind \in SessionReads => ~sessions[req[r].session].revoked
        /\ req[r].kind \in DirectoryReads =>
              /\ req[r].user \notin bans
              /\ members[req[r].user] = req[r].role
              /\ req[r].role # None

\* The lock a request needs to go on, if any.
Wanted(r) ==
    CASE req[r].step = "lock" /\ Unlocked(r) # {} -> {Update(SessionRow(NextRow(r)))}
      [] req[r].step = "logout" -> {Update(SessionRow(req[r].session))}
      [] req[r].step = "session" -> {Share(SessionRow(req[r].session))}
      [] req[r].step = "member" -> {Share(MemberRow(req[r].user))}
      [] OTHER -> {}

\* No set of requests waits for locks held within it: sessions before members,
\* sessions in the order of their ids, no lock upgraded (session_management.rs:63,
\* 140, moderation.rs:54).
NoDeadlock ==
    \A group \in (SUBSET Requests) \ {{}} :
        \E r \in group : \A lock \in Wanted(r) : Holders(r, lock) \cap group = {}

=============================================================================
