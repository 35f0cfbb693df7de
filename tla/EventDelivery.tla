---------------------------- MODULE EventDelivery ----------------------------
(***************************************************************************)
(* How an outbox row reaches the clients: the worker that claims rows,     *)
(* broadcasts them to the hub and marks them (messaging.rs), the gateway   *)
(* connection that subscribes, replays and pumps (gateway.rs), and the     *)
(* desktop client that resumes after its last event and tries to read the  *)
(* histories when it is connected (App.tsx).                               *)
(*                                                                         *)
(* An event is the announcement of one message, each in a conversation of  *)
(* its own, so that hearing of one says nothing of another; ids are in     *)
(* allocation order, commits in any order.  One server process.            *)
(***************************************************************************)
EXTENDS Integers, Sequences, FiniteSetsExt, SequencesExt

CONSTANTS
    Clients,
    MaxEvents,   \* bound: events of one behaviour
    OutboxBatch, \* OUTBOX_BATCH
    HubCapacity, \* HUB_CAPACITY
    Page,        \* rows of a replay page
    SeenCap,     \* ids that a connection remembers having sent
    MaxFaults    \* bound: crashes, broken connections, failed marks and reads, kicks

ASSUME SizesAssumption ==
    {MaxEvents, OutboxBatch, HubCapacity, Page, SeenCap} \subseteq Nat \ {0}
ASSUME MaxFaultsAssumption == MaxFaults \in Nat

VARIABLES
    outbox,     \* event -> state of its row
    batch,      \* events that the worker has claimed and not yet marked
    todo,       \* those of batch that it has not broadcast
    conn,       \* client -> its gateway connection
    inbox,      \* client -> broadcasts waiting in its hub subscription
    lagged,     \* client -> whether its subscription has dropped broadcasts
    seen,       \* client -> the last events its connection sent
    live,       \* client -> whether its session is valid
    access,     \* client -> whether it may read the conversations
    got,        \* client -> events received since the app was started
    last,       \* client -> lastEventId, 0 for none
    histories,  \* client -> its histories since the last ready frame: "read",
                \* "due" for reading, or "failed" to be read
    reads,      \* client -> readings of the histories under way or to be started
    owed,       \* history: client -> messages it may read and has not heard of
    behind,     \* history: client -> those of owed that its resume skips
    late,       \* history: client -> events sent after it lost the right to them
    faults      \* faults so far (MaxFaults bounds it)

worker == <<batch, todo>>
pump == <<conn, inbox, lagged, seen>>
client == <<got, last, histories, reads>>
rights == <<live, access>>
history == <<owed, behind, late>>
vars == <<outbox, worker, pump, client, rights, history, faults>>

Events == 1..MaxEvents

Connection == [at: {"off", "joined", "pump", "sending"}, cursor: Nat, ceiling: Nat,
               page: SUBSET Events, done: BOOLEAN, cur: Nat]

Off == [at |-> "off", cursor |-> 0, ceiling |-> 0, page |-> {}, done |-> FALSE, cur |-> 0]

In(state) == {e \in Events : outbox[e] = state}

\* Rows that a query sees.
Stored == In("unpublished") \cup In("published")

FirstOf(n, S) == {e \in S : Cardinality({f \in S : f < e}) < n}

Fault == faults < MaxFaults /\ faults' = faults + 1

-----------------------------------------------------------------------------
(* Senders (module Messaging has the transactions themselves).             *)

\* Uuid::now_v7 inside an open transaction.
Allocate ==
    \E e \in In("unallocated") :
        /\ e = Min(In("unallocated"))
        /\ outbox' = [outbox EXCEPT ![e] = "open"]
        /\ UNCHANGED <<worker, pump, client, rights, history, faults>>

CommitEvent ==
    \E e \in In("open") :
        /\ outbox' = [outbox EXCEPT ![e] = "unpublished"]
        /\ owed' = [c \in Clients |->
                       IF live[c] /\ access[c] THEN owed[c] \cup {e} ELSE owed[c]]
        /\ UNCHANGED <<worker, pump, client, rights, behind, late, faults>>

AbortEvent ==
    \E e \in In("open") :
        /\ outbox' = [outbox EXCEPT ![e] = "gone"]
        /\ UNCHANGED <<worker, pump, client, rights, history, faults>>

-----------------------------------------------------------------------------
(* The outbox worker.                                                      *)

\* The oldest rows by created_at, the start of their transaction: in id order
\* they may be any.
Claim ==
    /\ batch = {}
    /\ \E rows \in SUBSET In("unpublished") :
           /\ rows # {}
           /\ Cardinality(rows) = Min({OutboxBatch, Cardinality(In("unpublished"))})
           /\ batch' = rows
           /\ todo' = rows
    /\ UNCHANGED <<outbox, pump, client, rights, history, faults>>

\* mutant of Listening: a connection subscribes when its replay is done
AfterReplay(c) == conn[c].at \in {"pump", "sending"} /\ conn[c].done

\* The subscription is older than the identify frame and the replay.
Listening(c) == conn[c].at # "off"

\* mutant of Keep: a subscription without a capacity
KeepAll(queue) == queue

\* A full subscription drops its oldest broadcast.
Keep(queue) == IF Len(queue) > HubCapacity THEN Tail(queue) ELSE queue

\* RETURNING has no order.
Broadcast ==
    \E e \in todo :
        /\ todo' = todo \ {e}
        /\ inbox' = [c \in Clients |->
                        IF Listening(c) THEN Keep(Append(inbox[c], e)) ELSE inbox[c]]
        /\ lagged' = [c \in Clients |->
                         lagged[c] \/ (Listening(c) /\ Len(inbox[c]) = HubCapacity)]
        /\ UNCHANGED <<outbox, batch, conn, seen, client, rights, history, faults>>

Mark ==
    /\ batch # {} /\ todo = {}
    /\ outbox' = [e \in Events |-> IF e \in batch THEN "published" ELSE outbox[e]]
    /\ batch' = {}
    /\ UNCHANGED <<todo, pump, client, rights, history, faults>>

\* The error is logged; the next round claims the rows again.
MarkFails ==
    /\ batch # {} /\ todo = {}
    /\ Fault
    /\ batch' = {}
    /\ UNCHANGED <<outbox, todo, pump, client, rights, history>>

\* The process dies with its hub and connections; the database rolls back.
Crash ==
    /\ Fault
    /\ outbox' = [e \in Events |-> IF outbox[e] = "open" THEN "gone" ELSE outbox[e]]
    /\ batch' = {}
    /\ todo' = {}
    /\ conn' = [c \in Clients |-> Off]
    /\ inbox' = [c \in Clients |-> <<>>]
    /\ lagged' = [c \in Clients |-> FALSE]
    /\ seen' = [c \in Clients |-> <<>>]
    /\ UNCHANGED <<client, rights, history>>

-----------------------------------------------------------------------------
(* A gateway connection.                                                   *)

\* authenticate and subscribe; a client reconnects until it is logged out.
Connect(c) ==
    /\ conn[c].at = "off"
    /\ live[c]
    /\ conn' = [conn EXCEPT ![c].at = "joined"]
    /\ UNCHANGED <<outbox, worker, inbox, lagged, seen, client, rights, history, faults>>

\* The socket closes, and with it the subscription.
Close(c) ==
    /\ conn' = [conn EXCEPT ![c] = Off]
    /\ inbox' = [inbox EXCEPT ![c] = <<>>]
    /\ lagged' = [lagged EXCEPT ![c] = FALSE]
    /\ seen' = [seen EXCEPT ![c] = <<>>]
    /\ UNCHANGED <<outbox, worker, client, rights, history>>

\* A network failure, a timeout of a query or of a send.
Break(c) == conn[c].at # "off" /\ Fault /\ Close(c)

\* Replay::start: a scan of the ids after cursor, up to the largest of now.
StartReplay(c, cursor) ==
    LET ceiling == IF Stored = {} THEN 0 ELSE Max(Stored)
    IN  conn' = [conn EXCEPT ![c] = [Off EXCEPT !.at = "pump", !.cursor = cursor,
                                         !.ceiling = ceiling, !.done = ceiling = 0]]

\* mutant of Earned: a ready frame is taken for a proof of being up to date
NoneEarned(n) == n

\* The readings to come after a trigger, of n so far: the one under way, if
\* any, and one that starts later.
Earned(n) == IF n = 0 THEN 1 ELSE 2

\* identify with resume_after, then the ready frame, which makes the client
\* read the histories once more.
Identify(c) ==
    /\ conn[c].at = "joined"
    /\ live[c]
    /\ StartReplay(c, last[c])
    /\ histories' = [histories EXCEPT ![c] = "due"]
    /\ reads' = [reads EXCEPT ![c] = Earned(@)]
    /\ behind' = [behind EXCEPT ![c] = {e \in owed[c] : e <= last[c]}]
    /\ UNCHANGED <<outbox, worker, inbox, lagged, seen, got, last, rights, owed, late, faults>>

\* session_live, at a tick of a second and at each incoming frame.
Notice(c) ==
    /\ conn[c].at \in {"joined", "pump"}
    /\ ~live[c]
    /\ Close(c)
    /\ UNCHANGED faults

\* events_after the cursor, cut at the ceiling.
NextPage(c) ==
    {e \in FirstOf(Page, {f \in Stored : access[c] /\ f > conn[c].cursor}) :
        e <= conn[c].ceiling}

ReadPage(c) ==
    /\ conn[c].at = "pump" /\ ~conn[c].done /\ conn[c].page = {}
    /\ IF conn[c].cursor >= conn[c].ceiling \/ NextPage(c) = {}
       THEN conn' = [conn EXCEPT ![c].done = TRUE]
       ELSE conn' = [conn EXCEPT ![c].page = NextPage(c), ![c].cursor = Max(NextPage(c))]
    /\ UNCHANGED <<outbox, worker, inbox, lagged, seen, client, rights, history, faults>>

\* mutant of MaySend: the session is checked by the ticks alone
VisibleOnly(c) == access[c]

\* event_visible and session_live.
MaySend(c) == access[c] /\ live[c]

\* An event taken from the replay or the hub is skipped when it was sent
\* before or may not be seen; a dead session ends the connection.
Vet(c, e, next) ==
    IF e \in Range(seen[c]) \/ ~access[c]
    THEN conn' = [conn EXCEPT ![c] = next]
    ELSE conn' = [conn EXCEPT ![c] = IF MaySend(c)
                                     THEN [next EXCEPT !.at = "sending", !.cur = e]
                                     ELSE Off]

\* What else changes when an event is taken and inbox[c] becomes rest.
Taken(c, rest) ==
    /\ inbox' = [inbox EXCEPT ![c] = IF conn'[c].at = "off" THEN <<>> ELSE rest]
    /\ lagged' = [lagged EXCEPT ![c] = @ /\ conn'[c].at # "off"]
    /\ seen' = [seen EXCEPT ![c] = IF conn'[c].at = "off" THEN <<>> ELSE @]
    /\ UNCHANGED <<outbox, worker, client, rights, history, faults>>

TakeReplayed(c) ==
    /\ conn[c].at = "pump" /\ conn[c].page # {}
    /\ LET e == Min(conn[c].page)
       IN  Vet(c, e, [conn[c] EXCEPT !.page = @ \ {e}])
    /\ Taken(c, inbox[c])

\* mutant of AfterLag: the pump goes on with what is left in the subscription
GoOn(c) == conn' = conn

\* Everything retained is replayed.
AfterLag(c) == StartReplay(c, 0)

\* The hub is read only when no replay is under way.
Lag(c) ==
    /\ conn[c].at = "pump" /\ conn[c].done /\ lagged[c]
    /\ AfterLag(c)
    /\ lagged' = [lagged EXCEPT ![c] = FALSE]
    /\ UNCHANGED <<outbox, worker, inbox, seen, client, rights, history, faults>>

TakeLive(c) ==
    /\ conn[c].at = "pump" /\ conn[c].done /\ ~lagged[c] /\ inbox[c] # <<>>
    /\ Vet(c, Head(inbox[c]), conn[c])
    /\ Taken(c, Tail(inbox[c]))

\* The frame reaches the client (if it does not, the connection breaks).  The
\* client ignores an id it knows, or it reads the history that e announces.
Send(c) ==
    LET e == conn[c].cur
    IN  /\ conn[c].at = "sending"
        /\ conn' = [conn EXCEPT ![c].at = "pump", ![c].cur = 0]
        /\ seen' = [seen EXCEPT ![c] =
                       IF Len(@) = SeenCap THEN Append(Tail(@), e) ELSE Append(@, e)]
        /\ got' = [got EXCEPT ![c] = @ \cup {e}]
        /\ last' = [last EXCEPT ![c] = IF e \in got[c] THEN @ ELSE e]
        /\ owed' = [owed EXCEPT ![c] = @ \ {e}]
        /\ behind' = [behind EXCEPT ![c] = @ \ {e}]
        /\ late' = [late EXCEPT ![c] = IF live[c] /\ access[c] THEN @ ELSE @ + 1]
        /\ UNCHANGED <<outbox, worker, inbox, lagged, histories, reads, rights, faults>>

\* On 'connected' the client reads its conversations and their histories.
Reconcile(c) ==
    /\ reads[c] > 0 /\ live[c]
    /\ reads' = [reads EXCEPT ![c] = @ - 1]
    /\ histories' = [histories EXCEPT ![c] = "read"]
    /\ owed' = [owed EXCEPT ![c] = {}]
    /\ behind' = [behind EXCEPT ![c] = {}]
    /\ UNCHANGED <<outbox, worker, pump, got, last, rights, late, faults>>

\* The list or some of the histories cannot be read: the error is shown, and
\* "without another trigger a persistent failure stops".
ReadFails(c) ==
    /\ reads[c] > 0 /\ live[c]
    /\ Fault
    /\ reads' = [reads EXCEPT ![c] = @ - 1]
    /\ histories' = [histories EXCEPT ![c] =
                        IF @ = "due" /\ reads[c] = 1 THEN "failed" ELSE @]
    /\ \E unread \in SUBSET owed[c] :
           /\ owed' = [owed EXCEPT ![c] = unread]
           /\ behind' = [behind EXCEPT ![c] = @ \cap unread]
    /\ UNCHANGED <<outbox, worker, pump, got, last, rights, late>>

\* The user selects a conversation, whose history is read.
Select(c) ==
    /\ live[c]
    /\ \E e \in owed[c] :
           /\ owed' = [owed EXCEPT ![c] = @ \ {e}]
           /\ behind' = [behind EXCEPT ![c] = @ \ {e}]
    /\ UNCHANGED <<outbox, worker, pump, client, rights, late, faults>>

-----------------------------------------------------------------------------
(* Rights come and go under an open connection.                            *)

Revoke(c) ==
    /\ live[c]
    /\ live' = [live EXCEPT ![c] = FALSE]
    /\ UNCHANGED <<outbox, worker, pump, client, access, history, faults>>

\* A kick: what the client has not heard of is no longer owed to it.
Kick(c) ==
    /\ access[c]
    /\ Fault
    /\ access' = [access EXCEPT ![c] = FALSE]
    /\ owed' = [owed EXCEPT ![c] = {}]
    /\ behind' = [behind EXCEPT ![c] = {}]
    /\ UNCHANGED <<outbox, worker, pump, client, live, late>>

Readmit(c) ==
    /\ ~access[c]
    /\ access' = [access EXCEPT ![c] = TRUE]
    /\ late' = [late EXCEPT ![c] = 0]
    /\ UNCHANGED <<outbox, worker, pump, client, live, owed, behind, faults>>

-----------------------------------------------------------------------------
Init ==
    /\ outbox = [e \in Events |-> "unallocated"]
    /\ batch = {}
    /\ todo = {}
    /\ conn = [c \in Clients |-> Off]
    /\ inbox = [c \in Clients |-> <<>>]
    /\ lagged = [c \in Clients |-> FALSE]
    /\ seen = [c \in Clients |-> <<>>]
    /\ live = [c \in Clients |-> TRUE]
    /\ access = [c \in Clients |-> TRUE]
    /\ got = [c \in Clients |-> {}]
    /\ last = [c \in Clients |-> 0]
    /\ histories = [c \in Clients |-> "read"]
    /\ reads = [c \in Clients |-> 0]
    /\ owed = [c \in Clients |-> {}]
    /\ behind = [c \in Clients |-> {}]
    /\ late = [c \in Clients |-> 0]
    /\ faults = 0

OutboxWorker == Claim \/ Broadcast \/ Mark

Gateway(c) ==
    \/ Connect(c) \/ Identify(c) \/ Notice(c) \/ ReadPage(c)
    \/ TakeReplayed(c) \/ Lag(c) \/ TakeLive(c) \/ Send(c)

Next ==
    \/ Allocate \/ CommitEvent \/ AbortEvent
    \/ OutboxWorker \/ MarkFails \/ Crash
    \/ \E c \in Clients :
           \/ Gateway(c) \/ Break(c)
           \/ Reconcile(c) \/ ReadFails(c) \/ Select(c)
           \/ Revoke(c) \/ Kick(c) \/ Readmit(c)

\* The worker's loop, the pump and the client's reconnection run on, and a
\* reading once begun ends, be it with a failure; MaxFaults makes the faults
\* stop.  Nothing obliges a sender to commit or a user to select.
Fairness ==
    /\ WF_vars(OutboxWorker)
    /\ \A c \in Clients : WF_vars(Gateway(c)) /\ WF_vars(Reconcile(c) \/ ReadFails(c))

Spec == Init /\ [][Next]_vars /\ Fairness

-----------------------------------------------------------------------------
(* Properties.                                                             *)

\* Types; a subscription and a memory of sent events within their capacity.
TypeOK ==
    /\ outbox \in [Events -> {"unallocated", "open", "unpublished", "published", "gone"}]
    /\ batch \subseteq In("unpublished") /\ todo \subseteq batch
    /\ conn \in [Clients -> Connection]
    /\ \A c \in Clients :
           /\ Range(inbox[c]) \cup Range(seen[c]) \cup got[c] \subseteq Stored
           /\ Len(inbox[c]) <= HubCapacity /\ Len(seen[c]) <= SeenCap
           /\ last[c] \in got[c] \cup {0}
           /\ behind[c] \subseteq owed[c] /\ owed[c] \subseteq Stored
           /\ late[c] \in Nat
    /\ {lagged, live, access} \subseteq [Clients -> BOOLEAN]
    /\ histories \in [Clients -> {"read", "due", "failed"}]
    /\ reads \in [Clients -> 0..2]
    /\ faults \in 0..MaxFaults

\* Where event e still has to pass on its way to c.
OnItsWay(c, e) ==
    \/ e \in In("unpublished") \ (batch \ todo)
    \/ e \in Range(inbox[c]) \/ lagged[c]
    \/ e \in conn[c].page \/ e = conn[c].cur
    \/ conn[c].cursor < e /\ e <= conn[c].ceiling /\ ~conn[c].done

\* "Overflow drops to resume, never to data loss": while a connection streams,
\* an event its client has not heard of is on its way, or it is below the
\* resume cursor and no reading of the histories has succeeded since.  Late
\* commits, lag during a replay and a replay that ends while events commit
\* lose nothing.
Accounted ==
    \A c \in Clients :
        conn[c].at \in {"pump", "sending"} =>
            \A e \in owed[c] : OnItsWay(c, e) \/ (e \in behind[c] /\ histories[c] # "read")

\* Of the events vetted before a revocation or a kick, one may still leave.
RevokedStops == \A c \in Clients : late[c] <= 1

\* The resume skipped e, and the reading that the resume earned has failed.
Forgone(c, e) == e \in behind[c] /\ histories[c] = "failed"

\* Every committed message comes to the knowledge of every client that may
\* read it, over crashes, broken connections, lag and late commits; one way
\* to miss it for ever is left: to be skipped by the last resume, when the
\* reading that this resume earned fails and nothing triggers another.
EventuallyInformed ==
    \A c \in Clients, e \in Events :
        \/ e \in owed[c] ~> e \notin owed[c] \/ ~live[c]
        \/ <>[]Forgone(c, e)
=============================================================================
