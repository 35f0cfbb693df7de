------------------------------ MODULE Messaging ------------------------------
(***************************************************************************)
(* The message store of the server (apps/server/src/messaging.rs) as its   *)
(* PostgreSQL transactions change it.  Every request is a process that     *)
(* takes one database statement at a time at READ COMMITTED: the table     *)
(* variables hold the committed rows, a row lock names the request whose   *)
(* open transaction holds it, and what a transaction has written becomes   *)
(* visible only in its commit action.                                      *)
(*                                                                         *)
(* Channel conversations lose seats (kick, ban, leave), regain them (the   *)
(* self-heal of workspaces.rs) and are deleted whole; dm and group         *)
(* conversations only grow.                                                *)
(***************************************************************************)
EXTENDS Integers, FiniteSets

CONSTANTS
    Users,      \* account ids
    Convs,      \* conversation ids, never reused (UUIDv7)
    Channels,   \* the conversations that back a workspace channel
    ClientIds,  \* idempotency keys chosen by clients (client_msg_id)
    Reqs,       \* concurrent requests, each with a database connection
    MaxSends,   \* bound: calls of send_message in one behaviour
    None        \* "no request", "no value"

ASSUME ChannelsAssumption == Channels \subseteq Convs
ASSUME MaxSendsAssumption == MaxSends \in Nat
ASSUME NoneAssumption == None \notin Reqs

VARIABLES
    convs,      \* conversation -> "unborn" | "live" | "deleted"
    nextSeq,    \* conversations.next_seq
    seats,      \* rows of conversation_participants
    lastRead,   \* conversation_participants.last_read_seq
    messages,   \* rows of messages
    outbox,     \* rows of outbox
    published,  \* events whose outbox row has published_at set
    seatLock,   \* seat -> the request holding its row lock
    convLock,   \* conversation -> the request holding its row lock
    at,         \* request -> the statement it executes next
    call,       \* request -> its arguments and what it has read so far
    lastEvent,  \* newest event id allocated by Uuid::now_v7
    sends,      \* calls of send_message so far (MaxSends bounds it)
    acked,      \* history: answers of send_message that reached a client
    marked      \* history: highest position a seat has been marked read to

tables == <<convs, nextSeq, seats, lastRead, messages, outbox, published>>
locks == <<seatLock, convLock>>
history == <<acked, marked>>
vars == <<tables, locks, at, call, lastEvent, sends, history>>

Seats == Convs \X Users

Message == [conv: Convs, sender: Users, seq: Nat, cid: ClientIds, event: Nat]

Event == [event: Nat, conv: Convs, seq: Nat]

Ack == [conv: Convs, cid: ClientIds, seq: Nat, created: BOOLEAN]

\* One program counter per request; the prefix names the operation.
Steps == {"idle", "sendLock", "sendFind", "sendSeq", "sendInsert", "sendCommit",
          "mark", "kick", "delete", "cascade"}

Call == [user: Users \cup {None}, conv: Convs \cup {None},
         cid: ClientIds \cup {None}, seq: Nat, event: Nat, todo: SUBSET Seats]

Blank == [user |-> None, conv |-> None, cid |-> None,
          seq |-> 0, event |-> 0, todo |-> {}]

Seat(r) == <<call[r].conv, call[r].user>>

\* The seat rows that the open transaction of r has locked.
Held(r) == {k \in Seats : seatLock[k] = r}

Live(c) == convs[c] = "live"

SmallerOf(a, b) == IF a < b THEN a ELSE b

LargerOf(a, b) == IF a < b THEN b ELSE a

\* mutant of Stored: the key is looked up without its conversation
StoredAnywhere(c, m) == {x \in messages : x.cid = m}

\* Messages of c stored under the idempotency key m.
Stored(c, m) == {x \in messages : x.conv = c /\ x.cid = m}

-----------------------------------------------------------------------------
(* The end of a request: its transaction commits or rolls back, and every  *)
(* row lock it holds is released.                                          *)

Unlock(r) ==
    /\ seatLock' = [k \in Seats |-> IF seatLock[k] = r THEN None ELSE seatLock[k]]
    /\ convLock' = [c \in Convs |-> IF convLock[c] = r THEN None ELSE convLock[c]]

Finish(r) ==
    /\ Unlock(r)
    /\ at' = [at EXCEPT ![r] = "idle"]
    /\ call' = [call EXCEPT ![r] = Blank]

\* r commits the removal of the seats in gone.  A mark_read statement already
\* waiting for such a row finds it deleted and updates nothing, and a DELETE
\* that listed the row skips it.
FinishRemoving(r, gone) ==
    LET Orphan(q) == at[q] = "mark" /\ Seat(q) \in gone
    IN  /\ Unlock(r)
        /\ at' = [q \in Reqs |-> IF q = r \/ Orphan(q) THEN "idle" ELSE at[q]]
        /\ call' = [q \in Reqs |->
                      IF q = r \/ Orphan(q)
                      THEN Blank
                      ELSE [call[q] EXCEPT !.todo = @ \ gone]]

Advance(r, step) == at' = [at EXCEPT ![r] = step]

TakeSeatLock(r, k) ==
    /\ seatLock[k] = None
    /\ seatLock' = [seatLock EXCEPT ![k] = r]

TakeNoConvLock(r, c) == UNCHANGED convLock    \* mutant of TakeConvLock

TakeConvLock(r, c) ==
    /\ convLock[c] = None
    /\ convLock' = [convLock EXCEPT ![c] = r]

\* A dropped handler future, a lost connection, a deadlock victim or a crash
\* of the server: the transaction never happened.
Rollback(r) ==
    /\ at[r] # "idle"
    /\ Finish(r)
    /\ UNCHANGED <<tables, lastEvent, sends, history>>

-----------------------------------------------------------------------------
(* Conversations and seats.                                                *)

\* insert_conversation: the row and all its seats appear in one commit.
CreateConversation(c, creator, members) ==
    /\ convs[c] = "unborn"
    /\ convs' = [convs EXCEPT ![c] = "live"]
    /\ seats' = seats \cup ({c} \X (members \cup {creator}))
    /\ UNCHANGED <<nextSeq, lastRead, messages, outbox, published, locks,
                   at, call, lastEvent, sends, history>>

\* A seat or conversation row that an open transaction is deleting.
BeingRemoved(k) == seatLock[k] # None /\ at[seatLock[k]] \in {"kick", "cascade"}

BeingDeleted(c) == convLock[c] # None /\ at[convLock[c]] = "cascade"

\* sync_add_to_channels: one INSERT ... ON CONFLICT DO NOTHING that waits for
\* the rows and parents other transactions are deleting.
Reseat(u) ==
    LET open == {c \in Channels : Live(c)}
        new  == (open \X {u}) \ seats
    IN  /\ \A c \in open : ~BeingDeleted(c) /\ ~BeingRemoved(<<c, u>>)
        /\ new # {}
        /\ seats' = seats \cup new
        /\ lastRead' = [k \in Seats |-> IF k \in new THEN 0 ELSE lastRead[k]]
        /\ marked' = [k \in Seats |-> IF k \in new THEN 0 ELSE marked[k]]
        /\ UNCHANGED <<convs, nextSeq, messages, outbox, published, locks,
                       at, call, lastEvent, sends, acked>>

\* sync_remove_from_channels inside a kick, ban or leave: the DELETE lists the
\* seats its snapshot shows, locks them one by one, and the transaction commits.
\* Removals of one member queue on its workspace_members row before this point.
KickBegin(r, u) ==
    /\ at[r] = "idle"
    /\ \A q \in Reqs : at[q] = "kick" => call[q].user # u
    /\ Advance(r, "kick")
    /\ call' = [call EXCEPT ![r] = [Blank EXCEPT
                  !.user = u, !.todo = {k \in seats : k[2] = u /\ k[1] \in Channels}]]
    /\ UNCHANGED <<tables, locks, lastEvent, sends, history>>

\* The next listed row of the DELETE of a kick or of a cascade.
LockNextSeat(r) ==
    /\ at[r] \in {"kick", "cascade"}
    /\ \E k \in call[r].todo :
          /\ TakeSeatLock(r, k)
          /\ call' = [call EXCEPT ![r].todo = @ \ {k}]
    /\ UNCHANGED <<tables, convLock, at, lastEvent, sends, history>>

KickCommit(r) ==
    /\ at[r] = "kick"
    /\ call[r].todo = {}
    /\ seats' = seats \ Held(r)
    /\ FinishRemoving(r, Held(r))
    /\ UNCHANGED <<convs, nextSeq, lastRead, messages, outbox, published,
                   lastEvent, sends, history>>

\* delete_channel: the conversation row first, then the cascade into its seats.
DeleteBegin(r, c) ==
    /\ at[r] = "idle"
    /\ c \in Channels
    /\ Live(c)
    /\ Advance(r, "delete")
    /\ call' = [call EXCEPT ![r] = [Blank EXCEPT !.conv = c]]
    /\ UNCHANGED <<tables, locks, lastEvent, sends, history>>

DeleteLockConversation(r) ==
    LET c == call[r].conv IN
    /\ at[r] = "delete"
    /\ \/ /\ ~Live(c)                      \* lost a double delete: NotMember
          /\ Finish(r)
       \/ /\ Live(c)
          /\ TakeConvLock(r, c)
          /\ Advance(r, "cascade")
          /\ call' = [call EXCEPT ![r].todo = {k \in seats : k[1] = c}]
          /\ UNCHANGED seatLock
    /\ UNCHANGED <<tables, lastEvent, sends, history>>

OutboxUntouched(c) == outbox    \* mutant of OutboxWithout

\* Rows still to be published go with their conversation; published ones are
\* inert and stay.
OutboxWithout(c) == {e \in outbox : e.conv # c \/ e.event \in published}

DeleteCommit(r) ==
    LET c == call[r].conv IN
    /\ at[r] = "cascade"
    /\ call[r].todo = {}
    /\ convs' = [convs EXCEPT ![c] = "deleted"]
    /\ seats' = seats \ Held(r)
    /\ messages' = {x \in messages : x.conv # c}
    /\ outbox' = OutboxWithout(c)
    /\ FinishRemoving(r, Held(r))
    /\ UNCHANGED <<nextSeq, lastRead, published, lastEvent, sends, history>>

-----------------------------------------------------------------------------
(* send_message.                                                           *)

SendBegin(r, u, c, m) ==
    /\ at[r] = "idle"
    /\ sends < MaxSends
    /\ sends' = sends + 1
    /\ Advance(r, "sendLock")
    /\ call' = [call EXCEPT ![r] = [Blank EXCEPT !.user = u, !.conv = c, !.cid = m]]
    /\ UNCHANGED <<tables, locks, lastEvent, history>>

\* mutant of SendLockParticipant: membership read without FOR UPDATE
SendCheckParticipant(r) ==
    /\ at[r] = "sendLock"
    /\ Seat(r) \in seats
    /\ Advance(r, "sendFind")
    /\ UNCHANGED <<tables, locks, call, lastEvent, sends, history>>

\* SELECT ... FOR UPDATE on the sender's own seat.
SendLockParticipant(r) ==
    /\ at[r] = "sendLock"
    /\ \/ /\ Seat(r) \notin seats          \* NotMember
          /\ Finish(r)
       \/ /\ Seat(r) \in seats
          /\ TakeSeatLock(r, Seat(r))
          /\ Advance(r, "sendFind")
          /\ UNCHANGED <<convLock, call>>
    /\ UNCHANGED <<tables, lastEvent, sends, history>>

\* The client learns the outcome of r, or its connection is lost first.
Answer(r, seq, created) ==
    acked' \in {acked, acked \cup {[conv |-> call[r].conv, cid |-> call[r].cid,
                                    seq |-> seq, created |-> created]}}

\* mutant of SendFindExisting: the retry returns with its transaction open
SendFindExistingOpen(r) ==
    LET old == Stored(call[r].conv, call[r].cid) IN
    /\ at[r] = "sendFind"
    /\ IF old # {}
       THEN /\ \E x \in old : Answer(r, x.seq, FALSE)
            /\ Advance(r, "idle")
            /\ call' = [call EXCEPT ![r] = Blank]
       ELSE /\ Advance(r, "sendSeq")
            /\ UNCHANGED <<call, acked>>
    /\ UNCHANGED <<tables, locks, lastEvent, sends, marked>>

\* An idempotent retry commits at once and returns the original row.
SendFindExisting(r) ==
    LET old == Stored(call[r].conv, call[r].cid) IN
    /\ at[r] = "sendFind"
    /\ \/ /\ old # {}
          /\ \E x \in old : Answer(r, x.seq, FALSE)
          /\ Finish(r)
       \/ /\ old = {}
          /\ Advance(r, "sendSeq")
          /\ UNCHANGED <<locks, call, acked>>
    /\ UNCHANGED <<tables, lastEvent, sends, marked>>

\* UPDATE conversations SET next_seq = next_seq + 1 ... RETURNING next_seq - 1.
\* The increment itself is published by the commit; the row lock holds it.
SendTakeSeq(r) ==
    LET c == call[r].conv IN
    /\ at[r] = "sendSeq"
    /\ IF Live(c)
       THEN /\ TakeConvLock(r, c)
            /\ Advance(r, "sendInsert")
            /\ call' = [call EXCEPT ![r].seq = nextSeq[c]]
            /\ UNCHANGED seatLock
       ELSE Finish(r)                      \* RowNotFound: NotMember
    /\ UNCHANGED <<tables, lastEvent, sends, history>>

\* mutant of SendInsert: a unique violation is taken for an idempotent retry
SendInsertAnswered(r) ==
    /\ at[r] = "sendInsert"
    /\ IF Stored(call[r].conv, call[r].cid) # {}
       THEN /\ Answer(r, call[r].seq, FALSE)
            /\ Finish(r)
            /\ UNCHANGED lastEvent
       ELSE /\ lastEvent' = lastEvent + 1
            /\ call' = [call EXCEPT ![r].event = lastEvent + 1]
            /\ Advance(r, "sendCommit")
            /\ UNCHANGED <<locks, acked>>
    /\ UNCHANGED <<tables, sends, marked>>

\* insert_message: the unique key (conversation_id, client_msg_id) refuses the
\* row, or the message and its outbox event are written with a fresh event id.
SendInsert(r) ==
    /\ at[r] = "sendInsert"
    /\ \/ /\ Stored(call[r].conv, call[r].cid) # {}
          /\ Finish(r)
          /\ UNCHANGED lastEvent
       \/ /\ Stored(call[r].conv, call[r].cid) = {}
          /\ lastEvent' = lastEvent + 1
          /\ call' = [call EXCEPT ![r].event = lastEvent + 1]
          /\ Advance(r, "sendCommit")
          /\ UNCHANGED locks
    /\ UNCHANGED <<tables, sends, history>>

MarkerOnOwnMessage(r) == call[r].seq    \* mutant of MarkerAfterSend

\* The sender's marker steps over its own message only when it was caught up.
MarkerAfterSend(r) ==
    IF lastRead[Seat(r)] = call[r].seq - 1 THEN call[r].seq ELSE lastRead[Seat(r)]

SendCommit(r) ==
    LET c == call[r].conv
        s == call[r].seq
        e == call[r].event
    IN  /\ at[r] = "sendCommit"
        /\ nextSeq' = [nextSeq EXCEPT ![c] = s + 1]
        /\ messages' = messages \cup {[conv |-> c, sender |-> call[r].user, seq |-> s,
                                       cid |-> call[r].cid, event |-> e]}
        /\ outbox' = outbox \cup {[event |-> e, conv |-> c, seq |-> s]}
        /\ lastRead' = [lastRead EXCEPT ![Seat(r)] = MarkerAfterSend(r)]
        /\ Answer(r, s, TRUE)
        /\ Finish(r)
        /\ UNCHANGED <<convs, seats, published, lastEvent, sends, marked>>

-----------------------------------------------------------------------------
(* mark_read: one UPDATE, whose snapshot of next_seq is taken when it      *)
(* starts and whose seat row is read once its lock is free.                *)

NotPastEnd(n, c) == SmallerOf(n, nextSeq[c] - 1)    \* mutant of Clamped

Clamped(n, c) == SmallerOf(LargerOf(n, 0), nextSeq[c] - 1)

MarkReadBegin(r, u, c, n) ==
    /\ at[r] = "idle"
    /\ <<c, u>> \in seats                  \* otherwise NotMember
    /\ Advance(r, "mark")
    /\ call' = [call EXCEPT ![r] = [Blank EXCEPT
                  !.user = u, !.conv = c, !.seq = Clamped(n, c)]]
    /\ UNCHANGED <<tables, locks, lastEvent, sends, history>>

MarkerAsAsked(r) == call[r].seq    \* mutant of MarkerAfterRead

MarkerAfterRead(r) == LargerOf(lastRead[Seat(r)], call[r].seq)

MarkReadApply(r) ==
    LET k == Seat(r) IN
    /\ at[r] = "mark"
    /\ seatLock[k] = None
    /\ lastRead' = [lastRead EXCEPT ![k] = MarkerAfterRead(r)]
    /\ marked' = [marked EXCEPT ![k] = LargerOf(@, call[r].seq)]
    /\ Finish(r)
    /\ UNCHANGED <<convs, nextSeq, seats, messages, outbox, published,
                   lastEvent, sends, acked>>

\* mark_published by the outbox worker; rows deleted meanwhile stay deleted.
MarkPublished(ids) ==
    /\ ids # {}
    /\ published' = published \cup ids
    /\ UNCHANGED <<convs, nextSeq, seats, lastRead, messages, outbox, locks,
                   at, call, lastEvent, sends, history>>

Unpublished == {e.event : e \in outbox} \ published

-----------------------------------------------------------------------------
Init ==
    /\ convs = [c \in Convs |-> "unborn"]
    /\ nextSeq = [c \in Convs |-> 1]
    /\ seats = {}
    /\ lastRead = [k \in Seats |-> 0]
    /\ messages = {}
    /\ outbox = {}
    /\ published = {}
    /\ seatLock = [k \in Seats |-> None]
    /\ convLock = [c \in Convs |-> None]
    /\ at = [r \in Reqs |-> "idle"]
    /\ call = [r \in Reqs |-> Blank]
    /\ lastEvent = 0
    /\ sends = 0
    /\ acked = {}
    /\ marked = [k \in Seats |-> 0]

\* The statements that carry a request already begun to its end.
Proceed(r) ==
    \/ LockNextSeat(r)
    \/ KickCommit(r)
    \/ DeleteLockConversation(r)
    \/ DeleteCommit(r)
    \/ SendLockParticipant(r)
    \/ SendFindExisting(r)
    \/ SendTakeSeq(r)
    \/ SendInsert(r)
    \/ SendCommit(r)
    \/ MarkReadApply(r)

Begin(r) ==
    \/ \E u \in Users : KickBegin(r, u)
    \/ \E c \in Convs : DeleteBegin(r, c)
    \/ \E u \in Users, c \in Convs, m \in ClientIds : SendBegin(r, u, c, m)
    \/ \E u \in Users, c \in Convs, n \in -1 .. MaxSends + 1 : MarkReadBegin(r, u, c, n)

Next ==
    \/ \E r \in Reqs : Begin(r) \/ Proceed(r) \/ Rollback(r)
    \/ \E c \in Convs, creator \in Users, members \in SUBSET Users :
          CreateConversation(c, creator, members)
    \/ \E u \in Users : Reseat(u)
    \/ \E ids \in SUBSET Unpublished : MarkPublished(ids)

Spec == Init /\ [][Next]_vars

-----------------------------------------------------------------------------
(* Which requests are stuck on each other's row locks.                     *)

\* The requests that hold every lock the next statement of r could take.
WaitsOn(r) ==
    CASE at[r] = "sendLock" /\ Seat(r) \in seats -> {seatLock[Seat(r)]} \ {None}
      [] at[r] = "mark" -> {seatLock[Seat(r)]} \ {None}
      [] at[r] \in {"delete", "sendSeq"} /\ Live(call[r].conv) ->
            {convLock[call[r].conv]} \ {None}
      [] at[r] \in {"kick", "cascade"} /\ call[r].todo # {} ->
            IF \E k \in call[r].todo : seatLock[k] = None
            THEN {} ELSE {seatLock[k] : k \in call[r].todo}
      [] OTHER -> {}

\* A set of requests each of which waits, and only for members of the set.
Knot(S) == \A q \in S : WaitsOn(q) # {} /\ WaitsOn(q) \subseteq S

Deadlocked(r) == \E S \in SUBSET Reqs : r \in S /\ Knot(S)

\* PostgreSQL's deadlock detector aborts a transaction of the cycle.
AbortVictim(r) == Deadlocked(r) /\ Rollback(r)

\* Row locks are granted in arrival order, so a statement that waits for one
\* is served in the end (strong fairness); the runtime polls every handler and
\* the detector runs after deadlock_timeout.
FairSpec ==
    /\ Spec
    /\ \A r \in Reqs : SF_vars(Proceed(r)) /\ WF_vars(AbortVictim(r))

-----------------------------------------------------------------------------
(* Properties.                                                             *)

TypeOK ==
    /\ convs \in [Convs -> {"unborn", "live", "deleted"}]
    /\ nextSeq \in [Convs -> Nat \ {0}]
    /\ seats \subseteq Seats
    /\ lastRead \in [Seats -> Nat]
    /\ messages \subseteq Message
    /\ outbox \subseteq Event
    /\ published \subseteq Nat
    /\ seatLock \in [Seats -> Reqs \cup {None}]
    /\ convLock \in [Convs -> Reqs \cup {None}]
    /\ at \in [Reqs -> Steps]
    /\ call \in [Reqs -> Call]
    /\ lastEvent \in Nat
    /\ sends \in 0 .. MaxSends
    /\ acked \subseteq Ack
    /\ marked \in [Seats -> Nat]

\* The messages of a live conversation carry exactly the sequence numbers
\* 1 .. next_seq - 1, each once, although senders race, retry and roll back:
\* no number is burned by a duplicate or an aborted send.
SequencesGapFree ==
    \A c \in Convs : Live(c) =>
        /\ {x.seq : x \in {y \in messages : y.conv = c}} = 1 .. nextSeq[c] - 1
        /\ \A x, y \in messages :
              x.conv = c /\ y.conv = c /\ x.seq = y.seq => x = y

\* An answer of send_message stays true: the message it names is stored under
\* that key at that position for as long as its conversation exists, so two
\* answers for one key agree, and at most one of them says "created".
AnswersStayTrue ==
    \A a \in acked : Live(a.conv) =>
        \E x \in messages : x.conv = a.conv /\ x.cid = a.cid /\ x.seq = a.seq

\* A conversation stores one message per idempotency key, also when different
\* members use the same key at the same time.
OneMessagePerKey ==
    \A x, y \in messages : x.conv = y.conv /\ x.cid = y.cid => x = y

\* The outbox is transactional: every stored message has its event, and an
\* event still to be published has its message (delete_channel takes both).
OutboxMatchesMessages ==
    /\ \A x \in messages : [event |-> x.event, conv |-> x.conv, seq |-> x.seq] \in outbox
    /\ \A e \in outbox : e.event \in published
          \/ \E x \in messages : x.event = e.event /\ x.conv = e.conv /\ x.seq = e.seq

\* Within one conversation event ids grow with the sequence numbers, because
\* the id is allocated under the conversation's row lock.  A client that has
\* seen an event of a conversation has been offered every earlier one of it.
EventsFollowSequence ==
    \A x, y \in messages : x.conv = y.conv => (x.seq < y.seq <=> x.event < y.event)

\* A read marker passes a message only if its owner sent that message or asked
\* for a marker at least that high: sending never hides someone else's unread
\* message.
NothingReadUnasked ==
    \A x \in messages : \A u \in Users :
        LET k == <<x.conv, u>> IN
        k \in seats /\ x.seq <= lastRead[k] => x.sender = u \/ x.seq <= marked[k]

\* A read marker never points past the last assigned sequence number.
MarkersWithinLog ==
    \A k \in seats : lastRead[k] < nextSeq[k[1]]

\* A marker never moves back while its seat lasts.
MarkersNeverRewind ==
    [][\A k \in seats \cap seats' : lastRead'[k] >= lastRead[k]]_vars

\* send_message and the removal of its sender's seat are serialized: when a
\* message becomes visible its sender still holds the seat, and no removal of
\* that seat has got past its own row lock.
SenderSeatedAtCommit ==
    [][\A x \in messages' \ messages :
          LET k == <<x.conv, x.sender>> IN k \in seats /\ k \in seats'
             /\ \A r \in Reqs : at[r] \in {"kick", "cascade"} => seatLock[k] # r]_vars

-----------------------------------------------------------------------------
(* What holds between the statements of open transactions; with the        *)
(* properties above it is inductive.                                       *)

Sending == {"sendLock", "sendFind", "sendSeq", "sendInsert", "sendCommit"}

\* Steps of a send after its participant lock, and after its sequence number.
Admitted == {"sendFind", "sendSeq", "sendInsert", "sendCommit"}

Numbered == {"sendInsert", "sendCommit"}

CallTyped(r) ==
    /\ at[r] \in Sending \cup {"mark", "kick"} => call[r].user \in Users
    /\ at[r] \in Sending \cup {"mark", "delete", "cascade"} => call[r].conv \in Convs
    /\ at[r] \in Sending => call[r].cid \in ClientIds
    /\ call[r].todo \subseteq seats

\* A send past its participant lock owns its sender's seat in a conversation
\* that exists, so a concurrent channel delete cannot have slipped in between:
\* the "vanished conversation" branch of send_message is never taken.
AdmittedPinned(r) ==
    at[r] \in Admitted => Seat(r) \in seats /\ seatLock[Seat(r)] = r

\* A send that has its number owns the conversation row, and its number is
\* still the next one.
NumberReserved(r) ==
    at[r] \in Numbered =>
        convLock[call[r].conv] = r /\ call[r].seq = nextSeq[call[r].conv]

\* A send about to commit brings a new key and the newest event of its log.
CommitFresh(r) ==
    at[r] = "sendCommit" =>
        /\ Stored(call[r].conv, call[r].cid) = {}
        /\ call[r].event <= lastEvent
        /\ \A x \in messages : x.conv = call[r].conv => x.event < call[r].event

\* A deletion owns the conversation row and will have locked every seat.
CascadeComplete(r) ==
    at[r] = "cascade" =>
        /\ convLock[call[r].conv] = r
        /\ Live(call[r].conv)
        /\ \A k \in seats : k[1] = call[r].conv => k \in call[r].todo \/ seatLock[k] = r

\* A waiting mark_read has a seat and a target inside the log.
MarkBounded(r) ==
    at[r] = "mark" => Seat(r) \in seats /\ call[r].seq < nextSeq[call[r].conv]

StoreConsistent ==
    /\ \A k \in seats : Live(k[1])
    /\ \A k \in Seats : lastRead[k] < nextSeq[k[1]]
    /\ \A x \in messages :
          Live(x.conv) /\ x.seq < nextSeq[x.conv] /\ x.seq > 0 /\ x.event <= lastEvent
    /\ \A c \in Convs : convs[c] = "unborn" => nextSeq[c] = 1
    /\ \A a \in acked : convs[a.conv] # "unborn"

\* The part of the invariant that speaks of open transactions.
TransactionInv ==
    \A r \in Reqs :
        /\ CallTyped(r)
        /\ AdmittedPinned(r)
        /\ NumberReserved(r)
        /\ CommitFresh(r)
        /\ CascadeComplete(r)
        /\ MarkBounded(r)

\* The part that speaks of committed rows and of the answers given.
RowsInv ==
    /\ StoreConsistent
    /\ SequencesGapFree
    /\ AnswersStayTrue
    /\ OneMessagePerKey
    /\ OutboxMatchesMessages
    /\ EventsFollowSequence
    /\ NothingReadUnasked

IInv == TypeOK /\ TransactionInv /\ RowsInv

-----------------------------------------------------------------------------
\* Every request ends: no order of sends, removals, deletions and marker
\* updates blocks one of them for ever.
RequestsEnd == \A r \in Reqs : (at[r] # "idle") ~> (at[r] = "idle")

\* The comment on the participant lock of send_message: locks are taken in one
\* order everywhere, "so no deadlock".
NoDeadlock == \A r \in Reqs : ~Deadlocked(r)
=============================================================================
