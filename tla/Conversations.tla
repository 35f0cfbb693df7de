--------------------------- MODULE Conversations ---------------------------
(***************************************************************************)
(* The conversations of accounts: the one dm of two users and groups       *)
(* (messaging.rs, routes/messaging.rs), what a caller lists and reads, and *)
(* the typing signals with their throttle (typing.rs).                     *)
(*                                                                         *)
(* It adds requests to those of module Accounts, beside the logouts,       *)
(* revocations and kicks there.  A kick here also takes the user's seats   *)
(* in the channels of the workspace.                                       *)
(***************************************************************************)
EXTENDS Accounts

CONSTANTS
    MaxConversation,    \* conversation ids are 1..MaxConversation
    Channels0,          \* those that are channels of the workspace at the start
    MinInterval,        \* MIN_INTERVAL, in ticks of the clock
    ThrottleEntries,    \* THROTTLE_ENTRIES
    MaxTime             \* bound on the clock

ASSUME RoomsAssumption ==
    /\ MaxConversation \in Nat /\ Channels0 \subseteq 1..MaxConversation
    /\ None \notin 1..MaxConversation
    /\ MinInterval \in Nat \ {0} /\ ThrottleEntries \in Nat /\ MaxTime \in Nat

VARIABLES
    conversations,  \* kind ("none": no such row, "gone": deleted) and participants
    slots,          \* the throttle: user, conversation and the time of admission
    signals,        \* published typing signals
    now             \* the monotonic clock

roomVars == <<conversations, slots, signals, now>>
vars == <<avars, roomVars>>

ConversationIds == 1..MaxConversation

NoConversation == [kind |-> "none", members |-> {}]

\* The ids that have been given away, in their order, and the next.
Known == {c \in ConversationIds : \A d \in 1..(c - 1) : conversations[d].kind # "none"}

\* The sessions that calls come in with: which one of its owner's makes no
\* difference to the calls of this module.
Callers == {s \in SessionIds :
               /\ Live(s)
               /\ \A t \in 1..(s - 1) : Live(t) => sessions[t].owner # sessions[s].owner}

\* Mutant: the lock is that of the pair as the caller names it.
PairLockOrdered(a, b) == <<"pair", <<a, b>>>>

PairLock(a, b) == <<"pair", {a, b}>>
SeatRow(c, u) == <<"seat", c, u>>

-----------------------------------------------------------------------------
(* Creating conversations.                                                 *)

\* insert_conversation: the row and its participants, in one transaction.
Insert(c, kind, members_) ==
    /\ c \in Known /\ conversations[c].kind = "none"
    /\ conversations' = [conversations EXCEPT ![c] = [kind |-> kind, members |-> members_]]

\* find_or_create_dm: the advisory lock of the pair, in either order of it.
LockPair(r) ==
    /\ Serves(r, "dm") /\ req[r].step = "pair"
    /\ Take(r, Update(PairLock(req[r].user, req[r].target)), "find")
    /\ UNCHANGED <<accountVars, roomVars>>

\* The dm shared by exactly these two: a pair of one user never matches.
DmOf(a, b) ==
    {c \in ConversationIds : /\ conversations[c].kind = "dm"
                             /\ conversations[c].members = {a, b}
                             /\ a # b}

FindDm(r) ==
    /\ Serves(r, "dm") /\ req[r].step = "find"
    /\ IF DmOf(req[r].user, req[r].target) # {} THEN End(r) ELSE To(r, "create")
    /\ UNCHANGED <<accountVars, roomVars>>

CreateDm(r) ==
    /\ Serves(r, "dm") /\ req[r].step = "create"
    /\ \E c \in ConversationIds : Insert(c, "dm", {req[r].user, req[r].target})
    /\ End(r)
    /\ UNCHANGED <<accountVars, slots, signals, now>>

\* The creator does not count, nor a handle named twice.
CreateGroup(r) ==
    LET others == req[r].seen \ {req[r].user} IN
    /\ Serves(r, "group") /\ req[r].step = "create"
    /\ IF Cardinality(others) < 2 THEN UNCHANGED conversations
       ELSE \E c \in ConversationIds : Insert(c, "group", others \cup {req[r].user})
    /\ End(r)
    /\ UNCHANGED <<accountVars, slots, signals, now>>

BeginGroup(r, s, named) ==
    /\ req[r].step = "idle" /\ "group" \in traffic
    /\ req' = [req EXCEPT ![r] = [Blank EXCEPT !.kind = "group", !.step = "create", !.session = s,
                                               !.user = sessions[s].owner, !.seen = named]]
    /\ UNCHANGED <<accountVars, roomVars>>

-----------------------------------------------------------------------------
(* Listing and reading: one statement after another, no lock.              *)

RoomsOf(u) == {c \in ConversationIds : u \in conversations[c].members}

\* list_conversations: the caller's rows, then the members of exactly these.
ListRows(r) ==
    /\ Serves(r, "rooms") /\ req[r].step = "rows"
    /\ req' = [req EXCEPT ![r].step = "members", ![r].seen = RoomsOf(req[r].user)]
    /\ UNCHANGED <<accountVars, roomVars>>

ListMembers(r) ==
    /\ Serves(r, "rooms") /\ req[r].step = "members"
    /\ req' = [req EXCEPT ![r].step = "profiles",
                  ![r].seen = {<<c, conversations[c].kind, conversations[c].members>> : c \in @}]
    /\ UNCHANGED <<accountVars, roomVars>>

ListProfiles(r) ==
    /\ Serves(r, "rooms") /\ req[r].step = "profiles"
    /\ End(r)
    /\ UNCHANGED <<accountVars, roomVars>>

\* message_history: the membership in one statement, the page in the next.
CheckHistory(r) ==
    /\ Serves(r, "history") /\ req[r].step = "member?"
    /\ IF req[r].user \in conversations[req[r].target].members THEN To(r, "page") ELSE End(r)
    /\ UNCHANGED <<accountVars, roomVars>>

ReadHistory(r) ==
    /\ Serves(r, "history") /\ req[r].step = "page"
    /\ End(r)
    /\ UNCHANGED <<accountVars, roomVars>>

-----------------------------------------------------------------------------
(* Typing.                                                                 *)

\* Mutant: an interval is over one tick early.
RecentShort(slot) == now - slot.at < MinInterval - 1

Recent(slot) == now - slot.at < MinInterval

SlotOf(u, c) == {slot \in slots : slot.user = u /\ slot.room = c}

\* admit: one signal per account and conversation per interval.  A full
\* throttle first drops what no longer throttles.
Admitting(u, c) ==
    LET kept == IF Cardinality(slots) >= ThrottleEntries THEN {x \in slots : Recent(x)} ELSE slots
    IN slots' = (kept \ SlotOf(u, c)) \cup {[user |-> u, room |-> c, at |-> now]}

Admit(r, s, c) ==
    LET u == sessions[s].owner IN
    /\ req[r].step = "idle" /\ "typing" \in traffic
    /\ IF \E slot \in SlotOf(u, c) : Recent(slot) THEN End(r) /\ UNCHANGED slots
       ELSE /\ Admitting(u, c)
            /\ req' = [req EXCEPT ![r] = [Blank EXCEPT !.kind = "typing", !.step = "gate",
                                     !.session = s, !.user = u, !.target = c, !.at = now]]
    /\ UNCHANGED <<accountVars, conversations, signals, now>>

\* Drop: an admission not published releases its slot, and only its own.
Release(r) ==
    slots' = slots \ {[user |-> req[r].user, room |-> req[r].target, at |-> req[r].at]}

\* can_send, without overrides: a guest only reads.
CanSend(u) == members[u] \in Roles \ {"guest"} /\ u \notin bans

\* The gate of a channel seats a member whose seat was missed, then asks for the
\* right to send.  Module ChannelAccess has these statements one by one.
TypingGate(r) ==
    LET u == req[r].user
        c == req[r].target
        healed == [d \in ConversationIds |->
                      IF conversations[d].kind # "channel" THEN conversations[d]
                      ELSE [conversations[d] EXCEPT !.members = @ \cup {u}]]
    IN
    /\ Serves(r, "typing") /\ req[r].step = "gate"
    /\ \/ /\ conversations[c].kind # "channel"
          /\ To(r, "seat")
          /\ UNCHANGED <<conversations, slots>>
       \/ /\ conversations[c].kind = "channel"
          /\ members[u] # None /\ u \notin bans
          /\ Free(r, Share(SeatRow(c, u)))
          /\ conversations' = healed
          /\ IF CanSend(u) THEN To(r, "seat") /\ UNCHANGED slots ELSE End(r) /\ Release(r)
       \/ /\ conversations[c].kind = "channel"
          /\ members[u] = None \/ u \in bans
          /\ End(r) /\ Release(r)
          /\ UNCHANGED conversations
    /\ UNCHANGED <<accountVars, signals, now>>

\* publish_typing: the participant's row is shared until the commit.
LockSeat(r) ==
    LET lock == Share(SeatRow(req[r].target, req[r].user)) IN
    /\ Serves(r, "typing") /\ req[r].step = "seat"
    /\ Free(r, lock)
    /\ IF req[r].user \in conversations[req[r].target].members
       THEN Take(r, lock, "recipients") /\ UNCHANGED slots
       ELSE End(r) /\ Release(r)
    /\ UNCHANGED <<accountVars, conversations, signals, now>>

ReadRecipients(r) ==
    /\ Serves(r, "typing") /\ req[r].step = "recipients"
    /\ req' = [req EXCEPT ![r].seen = conversations[req[r].target].members, ![r].step = "publish"]
    /\ UNCHANGED <<accountVars, roomVars>>

\* The signal goes out before the lock is released.
Publish(r) ==
    /\ Serves(r, "typing") /\ req[r].step = "publish"
    /\ signals' = signals \cup {[user |-> req[r].user, room |-> req[r].target, at |-> req[r].at,
                                 recipients |-> req[r].seen]}
    /\ End(r)
    /\ UNCHANGED <<accountVars, conversations, slots, now>>

\* Leaving the workspace also takes the seats in its channels, once their rows
\* are free (remove_member, leave, ban_member).
Unseated(u) ==
    [c \in ConversationIds |->
        IF conversations[c].kind # "channel" THEN conversations[c]
        ELSE [conversations[c] EXCEPT !.members = @ \ {u}]]

SeatsFree(r, u) == \A c \in ConversationIds : Free(r, Update(SeatRow(c, u)))

Depart(r, u) ==
    /\ Kick(r, u) \/ Ban(r, u)
    /\ SeatsFree(r, u)
    /\ conversations' = Unseated(u)
    /\ UNCHANGED <<slots, signals, now>>

Promote(r, u, role) == SetRole(r, u, role) /\ UNCHANGED roomVars

\* The request of a typist ends without publishing.
LoseTyping(r) ==
    /\ Serves(r, "typing")
    /\ End(r) /\ Release(r)
    /\ UNCHANGED <<accountVars, conversations, signals, now>>

\* Only the throttle reads the clock.
Tick ==
    /\ now < MaxTime /\ "clock" \in traffic
    /\ now' = now + 1
    /\ UNCHANGED <<avars, conversations, slots, signals>>

-----------------------------------------------------------------------------
RoomsInit ==
    /\ Init
    /\ conversations = [c \in ConversationIds |->
          IF c \notin Channels0 THEN NoConversation
          ELSE [kind |-> "channel", members |-> {u \in Users : Role0[u] # None}]]
    /\ slots = {} /\ signals = {} /\ now = 0

BeginRoom(r) ==
    /\ req[r].step = "idle"
    /\ \E s \in Callers :
          \/ \E peer \in Users : users[peer] # None /\ Begin(r, "dm", "pair", s, peer)
          \/ Begin(r, "rooms", "rows", s, None)
          \/ \E c \in Known : Begin(r, "history", "member?", s, c)
    /\ UNCHANGED roomVars

NamedGroup(r) ==
    /\ req[r].step = "idle" /\ "group" \in traffic
    /\ \E s \in Callers, named \in SUBSET {u \in Users : users[u] # None} :
          BeginGroup(r, s, named)

RoomServe(r) ==
    \/ BeginRoom(r) \/ NamedGroup(r)
    \/ LockPair(r) \/ FindDm(r) \/ CreateDm(r) \/ CreateGroup(r)
    \/ ListRows(r) \/ ListMembers(r) \/ ListProfiles(r)
    \/ CheckHistory(r) \/ ReadHistory(r)
    \/ req[r].step = "idle" /\ \E s \in Callers, c \in Known : Admit(r, s, c)
    \/ TypingGate(r) \/ LockSeat(r) \/ ReadRecipients(r) \/ Publish(r) \/ LoseTyping(r)

\* The steps of module Accounts that touch no room.
AccountServe(r) ==
    /\ Serve(r) \/ (~Serves(r, "typing") /\ Lose(r))
    /\ UNCHANGED roomVars

RoomsClock == Tick \/ ((\E s \in SessionIds : Expire(s)) /\ UNCHANGED roomVars)

RoomsNext ==
    \/ \E r \in Requests :
          \/ RoomServe(r) \/ AccountServe(r)
          \/ \E u \in Users : Depart(r, u) \/ \E role \in Roles : Promote(r, u, role)
    \/ RoomsClock

RoomsSpec == RoomsInit /\ [][RoomsNext]_vars

-----------------------------------------------------------------------------
Conversation == [kind: {"none", "dm", "group", "channel", "gone"}, members: SUBSET Users]
Slot == [user: Users, room: ConversationIds, at: 0..MaxTime]
Signal == [user: Users, room: ConversationIds, at: 0..MaxTime, recipients: SUBSET Users]

\* Every variable keeps its type; a dm has at most two participants and a group
\* at least three; no key of the throttle has two slots (messaging.rs:307,
\* routes/messaging.rs:190).
RoomsTypeOK ==
    /\ TypeOK
    /\ conversations \in [ConversationIds -> Conversation]
    /\ \A c \in ConversationIds :
          /\ conversations[c].kind = "dm" => Cardinality(conversations[c].members) \in 1..2
          /\ conversations[c].kind = "group" => Cardinality(conversations[c].members) > 2
    /\ slots \subseteq Slot /\ signals \subseteq Signal /\ now \in 0..MaxTime
    /\ \A x, y \in slots : x.user = y.user /\ x.room = y.room => x = y

\* Two users share one dm, whoever opens it and in however many requests at
\* once (messaging.rs:368).
OneDm ==
    \A c, d \in ConversationIds :
        /\ conversations[c].kind = "dm" /\ conversations[d].kind = "dm"
        /\ conversations[c].members = conversations[d].members
        /\ \E a, b \in conversations[c].members : a # b
        => c = d

\* While a typing request captures its audience and publishes, the typist is a
\* participant: a signal goes out before a removal or is refused after it
\* (messaging.rs:441).  The reads of a session hold their authority likewise.
AuthorityHeld ==
    /\ ReadsUnderAuthority
    /\ \A r \in Requests : Serves(r, "typing") /\ req[r].step \in {"recipients", "publish"} =>
          req[r].user \in conversations[req[r].target].members

\* What an account signals in a conversation is admitted at least an interval
\* apart, although requests are slow, fail and give up a slot in any order: no
\* request releases a slot that another one holds (typing.rs:130).
SignalsSpaced ==
    \A x, y \in signals :
        x # y /\ x.user = y.user /\ x.room = y.room =>
            x.at - y.at >= MinInterval \/ y.at - x.at >= MinInterval

=============================================================================
