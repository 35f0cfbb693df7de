# TeriChat: verification project

TLA+ models of the TeriChat server (`apps/server`) and of the part of the desktop
client that its promises depend on; TLC configurations that check them on small
instances; and TLAPS proofs of the theorems that hold on every instance. Paths
below are relative to the repository root.

## 1. Inventory

The server is one Axum process over one PostgreSQL database. Every handler is a
future that executes SQL statements at READ COMMITTED, alone or in a
transaction; handlers interleave at every `await`, a dropped future or a lost
connection rolls its transaction back, and there is no retry layer. Three
background workers (outbox, statistics, and the per-connection gateway tasks)
run beside the handlers. Components meet in tables, in the broadcast hub, and
nowhere else.

| Component | State | Operations | Talks to | What makes it correct |
|---|---|---|---|---|
| Message store `messaging.rs` | `conversations(next_seq)`, `conversation_participants(last_read_seq)`, `messages`, `outbox` | `create_conversation`, `find_or_create_dm`, `send_message`, `mark_read`, `message_history`, `list_conversations`, `claim_outbox`, `mark_published`, `events_after` | routes, workspaces (seats, cascade), outbox worker, gateway | gap-free numbering, one message per idempotency key, answers stay true, transactional outbox, markers forward only, one dm per pair |
| Workspaces: governance `workspaces.rs` | `workspace_members(role)`, `workspace_bans`, `invites(uses)` | create, add, set role, kick, leave, ban, unban, invites | message store (seats), audit log | at least one owner, banned is never a member, rank rules decided on current roles, `uses <= max_uses` |
| Workspaces: channels and seats | `channels`, seats of channel conversations | create, rename, delete channel; `sync_add_to_channels`, `sync_remove_from_channels`, `ensure_channel_participation`, `ensure_all_participation` | message store, routes | every member is seated when it acts; nobody else keeps a seat |
| Workspaces: channel permissions | `channel_overrides` | set, delete override, `channel_allowed`, `can_send` | routes (send gate) | explicit deny over role grant, no override outlives its member |
| Routes `routes/*.rs` | none; gate-then-act sequences of the above | send, history, mark read, typing, ... | all | what the gate established still holds when the act runs, or the act checks again |
| Outbox worker `messaging.rs` | claims in memory | claim a batch, broadcast, mark | outbox, hub | at-least-once: every committed event is broadcast |
| Hub `state.rs` | bounded `tokio::broadcast` channel (1024) | send, subscribe, lag | outbox worker, gateway, typing | slow receivers learn that they lagged |
| Gateway `gateway.rs` | per connection: cursor, ceiling, seen set, replay page | identify, replay, live delivery, heartbeat, revocation check | hub, outbox, sessions, visibility | no visible event is lost between replay and live, none after revocation is seen |
| Typing `typing.rs` | admission table (256), one slot per user and conversation | admit, publish, release | hub, routes | a release frees its own slot only; nothing typed reaches a non-member |
| Ledger `ledger.rs` | `ledger_accounts`, `ledger_transactions`, `ledger_postings` | transfer, mint, balance, history, wallet creation | routes (workspace treasury) | postings sum to zero, no overdraft, one transaction per idempotency key, locks in account order |
| Sessions `session_management.rs`, `auth.rs`, `password.rs` | `users`, `devices`, `sessions` | register, login, logout, authenticate, list, revoke | every route, gateway | a revoked or expired session authorises nothing; two sessions cannot both revoke each other |
| Statistics `stats.rs`, `workspace_stats.rs` | counters, processed and rejected receipts | `fold_new_events`, `record_message`, reads | outbox | every message counts once, poison does not starve |
| Moderation `moderation.rs` | none (reads bans under session and member share locks) | `list_bans` | sessions, governance | the reader is authorised at the moment of the snapshot |
| Desktop client `apps/desktop/src/lib` | chat store, gateway client, seen ids, read markers | merge, resume, reconnect, mark read | gateway, routes | merges are idempotent, positions never rewind, resume loses nothing that history cannot restore |
| `crates/tericrypt` | none | `seal`, `open`, key and recovery encodings | client | pure cryptographic functions |
| Configuration, bootstrap, errors, health | process start | `from_pairs`, pool, listener, error mapping | all | start-up only |

Where the difficulty lies:

* **Interleaving and atomicity.** Most route handlers check in one statement and
  act in another. Where the code pins a row (`FOR UPDATE`) the check and the act
  are one step for everybody else; where it does not, the decision may be stale.
* **Lock order.** Transactions lock seats, conversations, member rows and
  accounts in orders that differ between handlers.
* **Order of events.** Event ids are allocated before the commit that publishes
  them, so commits appear out of id order across conversations.
* **At-least-once delivery.** Claim, broadcast and mark are three steps; a crash
  between any two repeats the first. The hub drops entries for slow receivers.
* **Idempotency.** Retried sends, transfers and invites race their originals.

## 2. Modules

| Module | Stands for | Kind |
|---|---|---|
| `Messaging` | the message store, statement by statement | detailed |
| `ConversationLog` | what the store promises: one log per conversation | abstract |
| `MessagingLog` | the refinement mapping from the first to the second | refinement |
| `MessagingProofs` | the proofs about `Messaging`, and of the refinement | TLAPS |
| `Workspace` | roles, bans, invite, channel, seats and overrides of one workspace | detailed |
| `ChannelAccess` | `Workspace` composed with the gates of the channel routes | composition |
| `WorkspaceProofs` | the proofs about `Workspace` and `ChannelAccess` | TLAPS |
| `Ledger` | transfers and mints, statement by statement | detailed |
| `Bank` | what the ledger promises: atomic, covered, once per key | abstract |
| `LedgerProofs` | the proofs about `Ledger`, and of the refinement of `Bank` | TLAPS |
| `SumProofs` | sums, least and greatest elements of finite sets, for the proofs about `Workspace`, `Ledger`, `Statistics`, `EventDelivery` and `Administration` | TLAPS |
| `EventDelivery` | outbox worker, hub, gateway connection, resuming client | detailed |
| `EventDeliveryProofs` | the proofs about `EventDelivery` | TLAPS |
| `Statistics` | the message counters: overlapping workers, receipts, poison, deletions | detailed |
| `StatisticsProofs` | the proofs about `Statistics` | TLAPS |
| `Accounts` | accounts, sessions, devices, and the reads under a session's authority | detailed |
| `Conversations` | `Accounts` with dms, groups, listing, history and typing | composition |
| `Administration` | `Conversations` with names, channels, overrides, invites, audit | composition |
| `AdministrationProofs` | the proofs about the last three | TLAPS |
| `TeriCrypt` | sealing, opening, wire layout, recovery phrases | functions |
| `TeriCryptProofs` | the proofs about `TeriCrypt` | TLAPS |
| `MC…` | symmetry sets for TLC | instances |

Definitions named in a comment as `mutant of X` are deliberately wrong variants
of `X`. No specification uses them; they show that the properties notice the
mistake they describe.

### The common form of the database models

`Messaging`, `Workspace` and `Ledger` share one reading of the code. A request is
an element of `Reqs`; `at[r]` is the SQL statement it executes next and `call[r]`
holds its arguments and what it has read. One action is one statement (a `Begin`
or `Gate` action is the part of a handler before its transaction). Table
variables hold committed rows only: what a transaction writes is kept in `call`
or implied by a lock, and becomes visible in the commit action, which is
READ COMMITTED as the other sessions see it. A row lock is a function from rows
to the request that holds it, an action that needs a held lock is disabled, and
commit or rollback releases all locks of the request. `Rollback` (`Abandon`) is
enabled in every step: a dropped future, a lost connection, a deadlock victim or
a crash of the server all end there.

Three simplifications are common to them. A single INSERT ... SELECT or UPDATE
is atomic once the rows it waits for are free. Plain reads that a handler makes
one after the other before its transaction are one action. The UUIDv7 values of
one process grow in the order of allocation, which holds for one server process.

### Messaging

| Code | Actions |
|---|---|
| `send_message` | `SendBegin`, `SendLockParticipant` (the `FOR UPDATE` on the seat), `SendFindExisting` (the retry), `SendTakeSeq` (`UPDATE conversations ... RETURNING`), `SendInsert` (message, event id, outbox row, unique key), `SendCommit` (with the sender's own marker) |
| `mark_read` | `MarkReadBegin` (snapshot, clamp), `MarkReadApply` (once the seat row is free) |
| kick, ban, leave: `sync_remove_from_channels` | `KickBegin`, `LockNextSeat`, `KickCommit` |
| `delete_channel` and its cascade | `DeleteBegin`, `DeleteLockConversation`, `LockNextSeat`, `DeleteCommit` |
| `insert_conversation`, `sync_add_to_channels`, `mark_published` | `CreateConversation`, `Reseat`, `MarkPublished` |

`acked` and `marked` are history variables: the answers that reached a client,
and the positions users asked to be marked.

### Workspace and ChannelAccess

`ManageGate` reads the permission; `ManageSelect` and `LockNextRow` are
`locked_roles`; `Decide` repeats the decision on locked rows and counts owners;
`WriteRow` includes the trigger `enforce_workspace_owner`, evaluated on what the
transaction sees; `CleanUp` and `Commit` drop seats and member overrides.
`LeaveGate` counts owners without a lock. `AddGate`, `AddCheck`, `JoinGate`,
`JoinRedeem`, `InsertRow` and `SeatNewMember` are the two ways in. `OverrideGate`,
`WriteOverride`, `CreateGate`, `ListMembers`, `CommitChannel`, `RevokeGate`,
`Revoke` and `Expire` complete the handlers. Roles are their ranks 0 .. 4.
The initial states are all the workspaces that sequential calls can build.

`ChannelAccess` adds the requests of `routes/messaging.rs` on the one channel
(their variable `post` is declared in `Workspace`, whose own actions leave it alone):
`Enter` (membership gate), `Heal` (`ensure_channel_participation`), `SendGate`
(overrides), `LockSeat` and `EndRequest` (the send, which `Messaging` details).

### Ledger and Bank

`Begin`, `CreateWallet`, `LockAccount`, `FindKey`, `InsertKey`,
`InsertPostings` and `Commit` are the statements of `transfer` and `mint`;
`EnsureWallet` is the wallet created by reading a balance. Wallets a transaction
has created but not committed are in `call[r].made`. A request that loses the
race for a key ends in an error: the code has a fallback that reads the winner's
row, but it runs in a transaction that the unique violation has aborted
(`ledger.rs:519`), so it cannot succeed. A client that retries then gets the
stored answer from `FindKey`. `Bank` has a balance per account and two actions;
`balance` is mapped to the sum of the postings and `done` to the movement read
back from the rows.

### EventDelivery

An event is the outbox row of one message, and every event is taken to belong to
a conversation of its own: within a conversation, `Messaging` proves that event
ids follow the sequence numbers, so that reversed commits occur only across
conversations. `Allocate`, `CommitEvent` and `AbortEvent` are what a sender does
to its row. `Claim`, `Broadcast`, `Mark`, `MarkFails` are `outbox_worker`; `Crash`
is the end of the process. `Connect`, `Identify`, `ReadPage`, `TakeReplayed`,
`TakeLive`, `Lag`, `Send`, `Notice`, `Break` are a gateway connection; taking an
event and vetting it (sent-id memory, visibility, session) is one action, sending
it another, so that rights can be lost between the two. Every ready frame earns
the client one reading of its list and its histories that starts after it
(`reads`; a reading under way is followed by another). `Reconcile` is a reading
that succeeds. `ReadFails` is one that does not get all: `refreshHistory` and
`refreshConversations` (`App.tsx`) catch the error, show it and stop, and what was
not read waits for the next ready frame or for the user to open the conversation
(`Select`). `histories` says what has become of the readings since the last ready
frame. `Revoke`, `Kick` and `Readmit` change rights under an open connection.
Frames are sent or the connection breaks: a frame lost in transit is a break
before its `Send`. The client records the position that an event announces before
it reads the history (`applyGatewayEvent`), so that `Send` informs it even if that
reading fails; the reading itself is not modelled.
The client is one that stays open; a restarted client loads everything anew.

`owed[c]` is a history variable, the heart of the properties: messages committed
while `c` could read them that `c` has neither heard of nor read from a history.

### Statistics

`CommitEvent` and `MarkPublished` are the senders and the outbox worker as the
consumer sees them: an event's number is its id, in the order of allocation, and
commits come in any order; `DeleteConversation` cascades. `Fetch`, `Claim`,
`CountUser`, `CountConversation`, `CommitFold` and `Reject` are the statements of
`fold_new_events` and `fold_event`; the receipt and the counters of an event
commit together. `Fail` is an error or the death of the process at any of them
(`GiveUp` ends the poll); two workers stand for a process and its successor while
the predecessor's last statement still runs. `counted` is a history variable: the
events that some committed fold has counted.

### Accounts, Conversations, Administration

Three modules of one growing state, with a request record per slot: `kind` is the
handler, `step` its next statement, `held` the row locks of its transaction. A
lock is a row and a mode, share or update, and `Take` waits for conflicting ones.

`Accounts` has `Register`, `EnsureWallet`, `Login`, `Logout`, `RegisterDevice`,
`Expire`; `LockOwned`, `CheckCaller`, `RevokeTarget` are `revoke_owned`, its rows
locked in the order of their ids; `LockSession`, `LockMember`, `CheckReader`,
`Read` are the four reads that hold their authority while they read: the
session inventory, the ban list (`moderation.rs`), the caller's statistics
(`workspace_stats.rs`) and the member list. `Kick`, `Ban`, `SetRole` are what the
calls detailed in `Workspace` commit.

`Conversations` adds `LockPair`, `FindDm`, `CreateDm` (`find_or_create_dm`),
`CreateGroup`, `ListRows` to `ListProfiles` (`list_conversations`),
`CheckHistory`, `ReadHistory`, and typing: `Admit` and `Release` are the throttle
of `typing.rs`, `TypingGate` the route's gate, `LockSeat`, `ReadRecipients`,
`Publish` are `publish_typing`.

`Administration` adds the calls of `routes/workspaces.rs`. The gates are
`GetChannel`, `GetWorkspace`, `Require`, `GateBeforeLookup`, `LookupHandle`; each
change ends in an action that writes its rows and its audit row (`RecordAudit`)
and commits. `trail` is the audit table in the order of commits; departures and
role changes, which `Workspace` decides, are told by a row without an actor.
Replaying the trail (`WorldAt`) gives the workspace at any earlier moment, which
is how `GroundsHeld` and `NoOracle` speak of the past. The role "owner" and the
permissions it alone needs are in `Workspace`.

### TeriCrypt

The primitives are those of a free term algebra; the crate's own logic (what is
bound into a key and a signature, the order of the checks, offsets, sizes, bit
groups) is translated as functions. Every result about it is proved, no run is
needed, and `Accounts` uses `valid_verify_key` and `valid_agreement_key`.

## 3. Runs

| Run | Instance | Shows |
|---|---|---|
| `messaging_safety` | 2 users, 1 channel, 2 keys, 2 requests, 3 sends | types, gap-free numbering, true answers, transactional outbox, event order, markers, the sender's seat |
| `messaging_liveness` | 1 user, a channel and a dm, 1 key, 2 requests, 2 sends | every request ends (`RequestsEnd`); the store implements `ConversationLog` |
| `messaging_deadlock` | 1 user, 1 channel, 2 requests, 1 send | finding: lock cycle of delete and send |
| `workspace_manage` | 3 users, 3 roles, 2 requests, 2 calls of the managing handlers | authority at commit, owners, seats follow membership, no lock cycle |
| `workspace_owners` | 2 users, 2 requests | finding: a workspace without an owner |
| `workspace_bans` | 3 users, 2 requests | finding: a banned member |
| `access_heal` | 2 users, 2 requests, 2 route requests, 4 calls, one invite | types, a member is seated when its send is decided, the invite's cap and its revocation |
| `access_ghost_send` | 2 users, 1 request, 2 route requests | finding: a message stored after the sender's kick |
| `ledger` | 2 users, 3 keys, 2 requests, 4 calls | no overdraft, true answers, no lock cycle, the ledger implements `Bank` |
| `event_delivery` | 1 client, 2 events, 3 faults; batch 2, hub, page and memory of 1 | nothing owed is lost, one late event at most, everything owed arrives unless the last reading fails |
| `statistics` | 2 users, 2 conversations, 2 workers, 2 events, 2 faults; batch 1 | every message counts once, in every scope that exists, and none starves |
| `administration` | 4 users, 4 sessions, 3 requests, 20 mixes of calls | no mutual revocation, authority held while reading, no lock cycle, one dm per pair, typing spaced, the audit is the history, grounds of changes, no oracle for strangers |

**Bounds.** Every race listed in the hazards is one between two transactions, so
two concurrent requests exhibit it; a third call or send lets the third party of
the longer ones (retry, re-add, second removal) run after them. One workspace,
one channel and one invite suffice because no lock or rule spans two of them,
except that a kick touches all channels of the workspace: a kick of two seats is
in `administration` (`Unseated`), and the proofs about `Messaging` have any number. In the ledger one unit of money and three keys allow a mint and two
transfers of it, in both directions, with retries and reuse of keys, and
`MaxBigint = 1` puts the sum at its limit. Two users leave every
movement an account in common, so two of them never race to insert one key and the
losing branch of `InsertKey` (`ledger.rs:519`) is not reached here; a third user is
beyond the time limit, and `LedgerImplementsBank` covers that branch. In event delivery the sizes 1024, 100
and 50 shrink to one or two: a hub of one overflows at the second event, a page of
one makes every replay a sequence of reads, a memory of one forgets at once. Two
events are the least that commit out of order; clients do not interact, so one is
enough. `MaxCalls`, `MaxSends`, `MaxEvents`, `MaxFaults` and the ledger's
`MaxCalls` bound the length of a behaviour and have no counterpart in the code.

In `administration` each request slot serves one call, and `Traffic` is the set of
calls that one behaviour mixes: every behaviour starts with one of twenty mixes,
each chosen for a race (two revocations and a logout, a revocation against a read,
two deletions of a channel against a rename, ...), so that three calls of any
kinds in a mix interleave in every way. Four users are an admin with two sessions,
a member with one, a guest, and an id not yet registered. `MaxSession` = 4 leaves
one session to log in, `MaxDevices` = 2 and `MaxInvite` = 2 one more than a call
can be about, `MaxConversation` = 3 one channel at the start and two creations,
`MaxTime` = 3 with `MinInterval` = 2 an interval that ends and one that does not,
`ThrottleEntries` = 1 a throttle that is full at the second admission. `Subjects`
names one member and one role. Arguments that a handler looks at late are chosen
late, which is the same set of behaviours with fewer states.

`CHECK_DEADLOCK FALSE` appears where those bounds let a model come to rest;
waiting for ever on locks is checked by `NoDeadlock` and `RequestsEnd` instead.

**Fairness.** Safety runs assume none. `messaging_liveness` assumes that a
statement waiting for a row lock is served if the lock is free again and again
(strong fairness per request: PostgreSQL queues waiters) and that the deadlock
detector aborts a transaction of every cycle. `event_delivery` assumes weak
fairness of the worker's loop, which runs every 500 ms and logs errors without
ending, of a connection's task together with the client's reconnection by timer,
and of the end of each reading of the histories, successful or not. It does not
assume that readings succeed: a failed one is a fault and is not repeated without
a trigger (`App.tsx:284`). `EventuallyInformed` therefore has a second alternative: a
message stays unheard of for ever only if the client's last resume skipped it, the
reading which that resume earned failed, and the client neither reconnects nor is
made to read by its user after that (`Forgone`). Without this alternative TLC
refutes it with two faults: an event is received, the connection breaks, an
earlier event commits, the resume skips it and the reading fails. The run has a
third, so that a reconnection after the failed reading can repair it.
`statistics` assumes weak
fairness of each worker's next statement: the loop of `stats_worker` never ends and
faults are finite. Nothing obliges a sender to
commit, a session to live, or a kick to be undone; faults are finite in number,
otherwise no delivery can be promised.

## 4. Proofs

Proved by TLAPS, for all values of the constants. `MessagingProofs`:

| Theorem | Property |
|---|---|
| `Invariance` | `IInv`, the inductive invariant |
| `TypeCorrect` | `TypeOK` |
| `GapFree` | `SequencesGapFree` |
| `AnswersTrue` | `AnswersStayTrue` |
| `KeysUnique` | `OneMessagePerKey` |
| `OutboxTransactional` | `OutboxMatchesMessages` |
| `EventOrder` | `EventsFollowSequence` |
| `UnreadStaysUnread` | `NothingReadUnasked` |
| `MarkersInside` | `MarkersWithinLog` |
| `MarkersAdvance` | `MarkersNeverRewind` |
| `SendersSeated` | `SenderSeatedAtCommit` |

`KeysUnique`, `MarkersInside` and `Invariance` are about definitions that no run
checks. They all assume only
`ChannelsAssumption` (channels are conversations),
`MaxSendsAssumption` and `NoneAssumption` (`None` is no request).

None of the row properties is inductive: whether the next commit keeps the log
gap-free depends on what an open transaction has read before. `TransactionInv`
says what every open transaction may rely on: from its participant lock on, a
send owns its sender's seat in a conversation that exists (`AdmittedPinned`);
from its number on, it owns the conversation row and the number is still the next
one (`NumberReserved`); about to commit, its key is new and its event newer than
any of the conversation (`CommitFresh`); a deletion will have locked every seat
before it commits (`CascadeComplete`); a waiting marker update aims inside the
log (`MarkBounded`). `IInv` joins this, the types and the row properties.

The proof has a lemma per action. Steps that write no row go through `QuietStep`,
which leaves the acting request's own part to show (`OthersKept`, `RowsUntouched`
do the rest); removals share `RemovingEffect` and `SurvivesRemoval`; the commit of
a send is treated conjunct by conjunct. `NextKeeps` collects them. The two action
properties follow from `IInv` and from the actions that can change the variable
in question (`MarkersStep`, `OnlySendsAdd`).

It also proves the refinement, `StoreImplementsLog` (`ImplementsLog`), from the same
invariant: a creation, a deletion, the commit of a send and an answered
retry are the steps `Open`, `Discard`, `Append` and `Retry` of one conversation's log,
and no other statement changes what a log shows. The abstract log appends at
`Cardinality(log) + 1`; `LogCardinality` shows from gap-free numbering that this is
`next_seq`.

`WorkspaceProofs` is about `Spec` of `Workspace` and `AccessSpec` of `ChannelAccess`,
whose steps include those of `Spec` (`HandlersOnly`); what is proved of the second
therefore holds of the first.

| Theorem | Property | Of |
|---|---|---|
| `Invariance` | `IInv`, the inductive invariant | `AccessSpec` |
| `TypeCorrect` | `TypeOK` | `AccessSpec` |
| `OwnerLostOnlyInRace` | `OwnerLostOnlyToRace` | `AccessSpec` |
| `OwnerOutlives` | `OwnerOutlivesOthers` | `AccessSpec` |
| `AuthorityHolds` | `AuthorityAtCommit` | `AccessSpec` |
| `DeadlockFree` | `NoDeadlock` | `AccessSpec` |
| `InviteCap` | `InviteCapped` | `AccessSpec` |
| `RevokedIsDead` | `RevokedSeatsNobody` | `AccessSpec` |
| `SeatsBelongToMembers` | `OnlyMembersSeated` | `Spec` without `create_channel` |
| `Healed` | `MembersHealed` | `AccessSpec` without `leave` |

`IInv` says what an open transaction may rely on. `Formed`: which handlers can be at
which statement and what their arguments are. `RowsHeld`: the rows a manager's call has
still to lock are those above the ones it holds, a row it holds is that of a member, and
from its decision on it is `Authorised`. The decision is made on locked rows, and no
other commit changes a locked row (`OthersKept`), so that it is still right at the
commit: this is `AuthorityAtCommit`. `RowWritten`: the row a transaction has written
and not committed is locked by it. `InviteHeld`: from its redemption to its commit, and
only then, a join holds the invite, which is not revoked and has a use left; neither
`InviteCapped` nor `RevokedSeatsNobody` is inductive without it. `OwnerKept`: as long as
no two changes of owners have overlapped there is an owner, at most one transaction
is about to take one away, and that one leaves another. `Routed`: whoever passed a gate
of a route is a user of a channel.

An action that changes no table goes through `QuietStep`, one that changes a request
and its locks through `MoveStep`, one that ends a transaction through `FinishStep`; they
leave the acting request's own part to show. The action properties rest on who can
publish rows at all (`Publishers`) and who can end (`WhoEnds`). `NobodyWaitsInACircle`
needs the order of `locked_roles`: a manager's call waits for a row above all that it
holds, so that the greatest row waited for in a circle (`Extremes`; users are finitely
many) would have to be below another.

Two properties hold of fewer handlers, and each hypothesis excludes a behaviour of the
code that TLC exhibits. `OnlyMembersSeated` is proved by adding `SeatsKept`: a removal
that has looked for the seat leaves none. A creation of a channel lists the members in one
statement and seats them in the next, and seats the members kicked in between. `leave`
does not look at whether its DELETE removed a row, so that the second of two leaves
deletes the seat of a member that has been added again and healed (section 6).

The assumptions are `UsersAssumption` (user ids are ordered, users finitely many),
`RolesAssumption` (roles are ranks), `BoundsAssumption`, `RequestsAssumption` (a request
of `Workspace` is none of the routes') and `NoneAssumption`.

`StatisticsProofs` proves `TypeCorrect` (`TypeOK`), `OnceOnly` (`CountedOnce`),
`CountersExact` (`ConversationsAgree`) and `ScopesExact` (`ScopesAgree`) from the
invariant `IInv`: an open fold holds an uncommitted receipt that no other fold and
no committed row has, its conversation cannot go while it does (`FoldsReserved`),
and every counted message of an existing conversation still has its receipt
(`ReceiptsComplete`). Without the second, a deletion between fold and commit would
bring a counter back. A workspace's sum is the count of the messages in its channels
because that count satisfies the equation of the sum (`SumCounts`). The assumptions are
`RowKindsAssumption`, `ConvsAssumption` (finitely many conversations) and
`BoundsAssumption`.

`LedgerProofs` proves `TypeCorrect` (`TypeOK`), `NeverOverdrawn` (`NoOverdraft`),
`AnswersTrue` (`AnswersStayTrue`), `DeadlockFree` (`NoDeadlock`) and
`LedgerImplementsBank` (`ImplementsBank`). `NoOverdraft` is not inductive: a commit
subtracts what its request found covered some statements earlier. `IInv` says why that
still holds: from its last row lock on, a request holds both accounts
(`AccountsPinned`), so that no other commit moves their money; from its insert on, it
holds a key that is not stored (`KeyReserved`), so that a movement is stored once; and
what the balance check found is still so (`CoveredAtCommit`). `CommitMoves` computes the
balances after a commit; with it a commit is a step of `Bank` and every other step
leaves the bank alone (`CommitRefines`, `StepRefines`). For `NoDeadlock` a second
invariant, `OrderInv`, says in which order a request holds what it holds: wallets it
creates in the order of their owners, existing rows in the order of their ids, which are
distinct. A circle of waiting requests would have no key in it, then no existing row,
then no wallet, since along each wait the ids or the owners would grow
(`RowHolders`, `WalletHolders`, `NoneHighest`). The assumptions are those of `Ledger`:
user ids are not the treasury's, amounts are positive, `None` is no request or kind, and
there are finitely many users and requests.

`SumProofs` has the facts about sums. A balance is a fold (`MapThenSumSet`) over a set in
an order that `CHOOSE` picks. That the fold exists, is the same in every order and grows
by one element's weight (`SumExists`, `SumUnique`, `SumOfOneMore`) needs induction on the
size of the set; it is done with `Successors`, which derives induction over a set of
numbers from the well-foundedness of `<`. `Extremes` shows in the same way that `Min`
and `Max` of a finite set are what their names say.

`EventDeliveryProofs` proves `TypeCorrect` (`TypeOK`), `NothingLost` (`Accounted`) and
`RevokedStop` (`RevokedStops`), for all numbers of clients, events and faults and all
sizes of claims, subscriptions, pages and sent-id memories. `Accounted` alone is not
inductive: an event that is skipped because the connection remembers it, or because
the client has no access, would count as lost. `IInv` adds that neither is owed
(`Owing`), that a connection about to send has vetted its client while nothing was late
(`Vetted`), and that what a connection holds is stored (`Shapes`). Steps of one client
go through `ClientStep`: who else streams is not affected. The heart is in three
lemmas: a replay covers all that is stored above its cursor (`ReplayCovers`), so that
lag, which only a rescan ends, loses nothing; a page moves the cursor past what it
holds and past nothing else (`ReadPageStep`, from `Pages`); and a broadcast is in a
subscription or the subscription has lagged (`BroadcastStep`, from `Offered`), so that
a row may be marked (`MarkStep`). The assumptions are `SizesAssumption` and
`MaxFaultsAssumption`.

`TeriCryptProofs` proves that the recipient opens what was sealed to it
(`OpensWhatWasSealed`); that an envelope opens for nobody else, under no other
sender, and to no other text (`NeverAnotherConversation`); that signing a ciphertext
again makes it open for nobody (`ResignedNeverOpens`); that wire layout and recovery
words are read back as written (`WireRoundTrip`, `PhraseRoundTrip`); and that the
largest text fits the server's cap (`LargestFits`).

`AdministrationProofs` is about `AdminSpec`, and so about the requests of `Accounts` and
`Conversations` in it. Every property that the run `administration` checks is proved.

| Theorem | Property |
|---|---|
| `AdminInvariant`, `AdminTyped`, `AdminOrdered`, `AdminHistory` | `AdminInv`, with it `TypedInv`, `LockOrder`, `HistoryInv`: the inductive invariants |
| `RevocationsOneWay` | `NoMutualRevocation` |
| `DmUnique` | `OneDm` |
| `TypingSpaced` | `SignalsSpaced` |
| `ReadersAuthorised` | `AuthorityHeld` |
| `AdminTypesCorrect` | `AdminTypeOK` |
| `AdminDeadlockFree` | `NoDeadlock` |
| `AuditReplays` | `TrailIsHistory` |
| `ChangesGrounded` | `GroundsHeld` |
| `StrangersLearnNothing` | `NoOracle` |

`AdminInv` says that locks exclude one another (`Exclusive`), and what each open request
may rely on because of what it has looked at and locked (`Sure`): about to revoke, it
holds both session rows and its own session is not revoked; a reader holds the rows of its
authority, and they are as it saw them; about to create a dm, a request holds the lock
of the pair and there is none; a typist past its check holds its seat; about to delete a
channel, a request holds every seat of it. For typing it adds that the slots of
requests and the signals already sent are an interval apart (`Spacing`), which
`SignalsSpaced` alone does not carry over to the next signal. A step that moves one
request keeps what the others are sure of: `QuietStep` if it changes no table,
`SureOfSessions`, `SureOfRooms` and `SureOfMembers` if it does.

`TypedInv` has the types table by table and, for each request, which statements its kind
of call has (`StepsOf`) and what its arguments are by then (`Formed`). Two parts of it are
no types: a rename about to be checked has locked the row of its channel, and a deletion
about to commit has its channel, so that neither can find it gone. Without them a rename
would name a deleted conversation, and `channels` and `conversations` would part.

`LockOrder` says in which order locks are taken: sessions in the order of their ids by a
revocation; one session, then one member by a read; members only to share, outside of one
statement. Every other call is `Gentle`: it takes no row of a session or a member and
keeps it. In a circle of waiting requests nobody would wait for a member, since whoever
holds one waits for nothing; and the holder of the greatest session waited for would be a
revocation that waits for a greater one (`OrderFrees`).

`HistoryInv` is about the audit. The types of a record cannot say that the rows are a
history; `TrailIsHistory` is inductive only with what the writers have checked. The past
stays as it was when a row is appended (`HistoryExtends`): `WorldAt` is a function defined
by recursion on the rows, which exists because each row has one successor
(`ReplayExists`) and agrees with that of every longer trail (`ReplayAgrees`). A change
and its row go together (`ChangeTold`, `LeftTold`): the row was possible in the workspace
as it is, and what it tells is what the tables show after the step. For `GroundsHeld`,
`Grounded` says of every open call that is past its gate that its caller had the
permission at some moment since the call came in, and of an override about to be written
that its target was a member. `NoOracle` follows: who was a stranger throughout never had
a permission, so the call is still at a gate, and all gates give a stranger one answer
(`StrangerAtGate`).

The assumptions are those that the modules state: `UsersAssumption` (finitely many),
`NumbersAssumption`, `NoneAssumption` (`None`, SQL's NULL, is no user, handle, session id
or role), `DatabaseAssumption`, `RoomsAssumption` and `AdminAssumption`.

Model-checked only: liveness (`RequestsEnd`, `EventuallyInformed`,
`NothingStarves`). Liveness under fairness and ENABLED are outside of the prover's reach,
as are facts about RECURSIVE operators and induction schemes over an arbitrary formula.
`OnlyMembersSeated` and `MembersHealed` are checked under the hypotheses above, with
those of the handlers that keep them.

## 5. Findings

* **Lock cycle.** `delete_channel` locks the conversation, then its seats by
  cascade; `send_message` locks a seat, then the conversation. PostgreSQL aborts
  one of them; its caller sees a 500. The comment at `messaging.rs:530` rules the
  cycle out. With victims aborted every request still ends.
* **A workspace without an owner.** Two owners leave at the same time, or one
  leaves while the other demotes itself: the count is read outside any lock and
  the trigger still sees the other's uncommitted row. `OwnerLostOnlyToRace` shows
  that nothing else loses the last owner.
* **A banned member.** `add_member` and `join_via_invite` look at the bans before
  their transaction, and nothing looks again.
* **A message after the kick.** The self-heal of another request restores the
  seat after the kick has deleted it, and `send_message` takes the seat as proof.
  `Messaging` shows that the two orders are the only ones as long as nobody heals.

## 6. Not modelled

| # | Subject | State |
|---|---|---|
| 1 | message store, its abstract log, its proofs | done |
| 2 | governance, invites, channel, seats, overrides | done, proved |
| 3 | gates of the channel routes beside removals | done, proved |
| 4 | event delivery, from the outbox to the client | done, safety proved |
| 5 | ledger against a bank | done, proved |
| 6 | statistics, their receipts and proofs | done |
| 7 | sessions, authorised reads, dms, typing | done, proved |
| 8 | administration of a workspace, its audit | done, proved |
| 9 | device cryptography | done, proved |
| 10 | refinement of `ConversationLog` from `IInv` | done, proved |
| 11 | the client's message merge and read-marker cache, over 4 | open |
| 12 | heartbeats and the relay of typing signals by the gateway | open |

Known and without a run of its own: a user leaves twice at the same time; both calls
pass the gate, the first commits, the second's DELETE finds no membership row; the user
is added again, a route heals its seat, and the second leave, which does not look at what
it deleted (`workspaces.rs:1125`), goes on to delete that seat. The route finds none,
although `workspaces.rs:594` promises that a stranded member is seated again; the next
request heals it. (`access_heal` with `leave` among its `Ops` shows it.) A channel creation seats a member that is kicked
between its listing of the members and its INSERT of the seats (`ListMembers`, `CommitChannel`). An override written for a member that is
kicked between the check of its role and the INSERT survives the kick and applies
when the member is added again (`SetOverride` after `Departure` in `Administration`,
`WriteOverride` after `Commit` in `Workspace`), against the comment at
`workspaces.rs:627` ("a rejoining user never resurrects stale per-member grants or
denials"); `GroundsHeld` says how stale the check may be. `rename_workspace` can answer Forbidden after its commit, when the
caller is kicked before the route reads its role (`AnswerRename`). Two renames that
swap two names wait for each other in the unique index until PostgreSQL aborts one.

Left out for good: password hashing (a function of a library; login chooses whether
the password is right), configuration and bootstrap, the mapping of errors, health
checks, views of the desktop client, deployment files. Within modelled components:
heartbeats, the wording of errors, the contents of pages and their cursors. Two
server processes on one database are outside of the models; the code's documents
rule them out for now, because each would claim rows for its own hub.
