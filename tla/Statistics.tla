----------------------------- MODULE Statistics -----------------------------
(***************************************************************************)
(* The message counters (apps/server/src/stats.rs): a worker that polls    *)
(* the outbox for message.created rows without a receipt and folds each of *)
(* them, in a transaction of its own, into a lifetime counter per user and *)
(* a counter per user and conversation.  Ids are in allocation order and   *)
(* commit in any order; a deleted conversation takes its counters, its     *)
(* receipts and its unpublished rows along, and leaves published rows      *)
(* behind that can never be counted again.                                 *)
(*                                                                         *)
(* More than one worker stands for a process and its successor: PostgreSQL *)
(* may still execute a statement of the first when the second polls.       *)
(***************************************************************************)
EXTENDS Integers, FiniteSetsExt

CONSTANTS
    Users,
    Convs,
    Malformed,  \* stands for a message.created row whose payload has no valid ids
    Other,      \* stands for a row of another topic
    Workers,
    MaxEvents,  \* bound: outbox rows of one behaviour
    Batch,      \* STATS_BATCH
    MaxFaults   \* bound: crashes and database errors

ASSUME RowKindsAssumption == Malformed # Other /\ {Malformed, Other} \cap Convs = {}
ASSUME ConvsAssumption == IsFiniteSet(Convs)
ASSUME BoundsAssumption == MaxEvents \in Nat /\ Batch \in Nat \ {0} /\ MaxFaults \in Nat

VARIABLES
    actor,      \* event -> actor_id of its payload
    about,      \* event -> its conversation, Malformed or Other
    sent,       \* events whose row has been committed
    outbox,     \* rows of outbox
    published,  \* those of them that are marked
    convs,      \* rows of conversations
    processed,  \* rows of stats_processed_events
    rejected,   \* rows of stats_rejected_events
    lifetime,   \* user -> user_message_stats.message_count
    scoped,     \* user, conversation -> user_conversation_stats.message_count
    at,         \* worker -> the statement it executes next
    batch,      \* worker -> fetched rows that it has not dealt with
    cur,        \* worker -> the event of its transaction, 0 for none
    counted,    \* history: events that a committed fold has counted
    faults      \* faults so far (MaxFaults bounds it)

rows == <<actor, about>>
feed == <<sent, outbox, published, convs>>
receipts == <<processed, rejected>>
counters == <<lifetime, scoped>>
worker == <<at, batch, cur>>
vars == <<rows, feed, receipts, counters, worker, counted, faults>>

Events == 1..MaxEvents

Steps == {"poll", "user", "conversation", "commit", "reject"}

\* Steps of a transaction that has inserted its receipt.
Claimed == {"user", "conversation", "commit"}

\* Steps of one that has also updated the user's row, and so locks it.
Counting == {"conversation", "commit"}

Countable(e) == about[e] \in Convs

FirstOf(n, S) == {e \in S : Cardinality({f \in S : f < e}) < n}

Messages(S, u) == {e \in S : actor[e] = u}

In(S, c) == {e \in S : about[e] = c}

Fault == faults < MaxFaults /\ faults' = faults + 1

-----------------------------------------------------------------------------
(* The rest of the server.                                                 *)

\* A sender commits; ids were allocated in any earlier order.
CommitEvent(e) ==
    /\ e \notin sent
    /\ Countable(e) => about[e] \in convs
    /\ sent' = sent \cup {e}
    /\ outbox' = outbox \cup {e}
    /\ UNCHANGED <<rows, published, convs, receipts, counters, worker, counted, faults>>

MarkPublished(e) ==
    /\ e \in outbox \ published
    /\ published' = published \cup {e}
    /\ UNCHANGED <<rows, sent, outbox, convs, receipts, counters, worker, counted, faults>>

\* mutant of Sharing: without the foreign keys a deletion waits for nobody.
SharingNothing(c) == {}

\* Transactions that hold a key share of the conversation's row: the foreign
\* keys of the receipt and of the counter.
Sharing(c) == {w \in Workers : at[w] \in Claimed /\ about[cur[w]] = c}

\* delete_channel with its cascades; it waits for the transactions that share
\* the row.
DeleteConversation(c) ==
    /\ c \in convs
    /\ Sharing(c) = {}
    /\ LET gone == In(outbox \ published, c) IN
       /\ convs' = convs \ {c}
       /\ processed' = processed \ In(processed, c)
       /\ scoped' = [u \in Users |-> [scoped[u] EXCEPT ![c] = 0]]
       /\ outbox' = outbox \ gone
       /\ rejected' = rejected \ gone
    /\ UNCHANGED <<rows, sent, published, lifetime, worker, counted, faults>>

-----------------------------------------------------------------------------
(* The worker.                                                             *)

\* mutant of Waiting: rows are selected above those that have a receipt.
WaitingAbove ==
    {e \in outbox : about[e] # Other /\ \A f \in processed \cup rejected : f < e}

\* Rows that the poll selects: countable topic, neither receipt.
Waiting == {e \in outbox : about[e] # Other} \ (processed \cup rejected)

Fetch(w) ==
    /\ at[w] = "poll"
    /\ batch[w] = {}
    /\ batch' = [batch EXCEPT ![w] = FirstOf(Batch, Waiting)]
    /\ UNCHANGED <<rows, feed, receipts, counters, at, cur, counted, faults>>

\* The fetched rows are dealt with in order.
Heads(w, e) == e \in batch[w] /\ \A f \in batch[w] : e <= f

Skip(w, e) == batch' = [batch EXCEPT ![w] = @ \ {e}]

\* mutant of Claim: the receipt is inserted without regard to an existing one.
ClaimBlindly(w, e) ==
    /\ at[w] = "poll"
    /\ Heads(w, e)
    /\ at' = [at EXCEPT ![w] = IF Countable(e) /\ about[e] \in convs THEN "user" ELSE "reject"]
    /\ cur' = [cur EXCEPT ![w] = e]
    /\ UNCHANGED <<rows, feed, receipts, counters, batch, counted, faults>>

\* The INSERT of the receipt, once no other transaction holds one uncommitted.
\* A receipt that is there already answers "duplicate"; a malformed payload, or
\* a conversation that is gone (foreign key), leads to the rejection.
Claim(w, e) ==
    /\ at[w] = "poll"
    /\ Heads(w, e)
    /\ \/ /\ Countable(e)
          /\ \A v \in Workers : at[v] \in Claimed => cur[v] # e
          /\ \/ /\ e \in processed
                /\ Skip(w, e)
                /\ UNCHANGED <<at, cur>>
             \/ /\ e \notin processed
                /\ at' = [at EXCEPT ![w] = IF about[e] \in convs THEN "user" ELSE "reject"]
                /\ cur' = [cur EXCEPT ![w] = e]
                /\ UNCHANGED batch
       \/ /\ ~Countable(e)
          /\ at' = [at EXCEPT ![w] = "reject"]
          /\ cur' = [cur EXCEPT ![w] = e]
          /\ UNCHANGED batch
    /\ UNCHANGED <<rows, feed, receipts, counters, counted, faults>>

\* The upsert of the user's row, once no other transaction has updated it.
CountUser(w) ==
    /\ at[w] = "user"
    /\ \A v \in Workers : at[v] \in Counting => actor[cur[v]] # actor[cur[w]]
    /\ at' = [at EXCEPT ![w] = "conversation"]
    /\ UNCHANGED <<rows, feed, receipts, counters, batch, cur, counted, faults>>

\* The upsert of the row of user and conversation: the lock on the user's row
\* keeps every rival away.
CountConversation(w) ==
    /\ at[w] = "conversation"
    /\ at' = [at EXCEPT ![w] = "commit"]
    /\ UNCHANGED <<rows, feed, receipts, counters, batch, cur, counted, faults>>

CommitFold(w) ==
    LET e == cur[w] IN
    /\ at[w] = "commit"
    /\ processed' = processed \cup {e}
    /\ lifetime' = [lifetime EXCEPT ![actor[e]] = @ + 1]
    /\ scoped' = [scoped EXCEPT ![actor[e]][about[e]] = @ + 1]
    /\ counted' = counted \cup {e}
    /\ at' = [at EXCEPT ![w] = "poll"]
    /\ cur' = [cur EXCEPT ![w] = 0]
    /\ Skip(w, e)
    /\ UNCHANGED <<rows, feed, rejected, faults>>

\* The end of a poll that meets a database error: what it had fetched is left
\* to the next one.
GiveUp(w) ==
    /\ at' = [at EXCEPT ![w] = "poll"]
    /\ cur' = [cur EXCEPT ![w] = 0]
    /\ batch' = [batch EXCEPT ![w] = {}]

\* The rejection receipt refers to the outbox row: when that row has been
\* deleted since the fetch, the INSERT fails and ends the poll.
Reject(w) ==
    LET e == cur[w] IN
    /\ at[w] = "reject"
    /\ \/ /\ e \in outbox
          /\ rejected' = rejected \cup {e}
          /\ at' = [at EXCEPT ![w] = "poll"]
          /\ cur' = [cur EXCEPT ![w] = 0]
          /\ Skip(w, e)
       \/ /\ e \notin outbox
          /\ GiveUp(w)
          /\ UNCHANGED rejected
    /\ UNCHANGED <<rows, feed, processed, counters, counted, faults>>

\* Any statement fails, or the process dies: nothing of the transaction stays.
Fail(w) ==
    /\ at[w] # "poll" \/ batch[w] # {}
    /\ Fault
    /\ GiveUp(w)
    /\ UNCHANGED <<rows, feed, receipts, counters, counted>>

-----------------------------------------------------------------------------
Init ==
    /\ actor \in [Events -> Users]
    /\ about \in [Events -> Convs \cup {Malformed, Other}]
    /\ sent = {} /\ outbox = {} /\ published = {}
    /\ convs = Convs
    /\ processed = {} /\ rejected = {}
    /\ lifetime = [u \in Users |-> 0]
    /\ scoped = [u \in Users |-> [c \in Convs |-> 0]]
    /\ at = [w \in Workers |-> "poll"]
    /\ batch = [w \in Workers |-> {}]
    /\ cur = [w \in Workers |-> 0]
    /\ counted = {}
    /\ faults = 0

\* One round of stats_worker.
Fold(w) ==
    \/ Fetch(w)
    \/ \E e \in Events : Claim(w, e)
    \/ CountUser(w)
    \/ CountConversation(w)
    \/ CommitFold(w)
    \/ Reject(w)

Next ==
    \/ \E e \in Events : CommitEvent(e) \/ MarkPublished(e)
    \/ \E c \in Convs : DeleteConversation(c)
    \/ \E w \in Workers : Fold(w) \/ Fail(w)

Spec == Init /\ [][Next]_vars

\* The worker loops for ever, with a pause, and logs errors instead of ending.
FairSpec == Spec /\ \A w \in Workers : WF_vars(Fold(w))

-----------------------------------------------------------------------------
(* What the endpoints answer about a caller who may read (stats.rs,        *)
(* workspace_stats.rs).  A channel contributes as long as it exists.       *)

own_stats(u) == lifetime[u]

conversation_stats(u, c) == scoped[u][c]

\* The channels are those of one workspace; a deleted one has no row to join.
own_workspace_stats(u) == MapThenSumSet(LAMBDA c : conversation_stats(u, c), convs)

-----------------------------------------------------------------------------
(* Properties.                                                             *)

\* Values keep their types.
TypeOK ==
    /\ actor \in [Events -> Users]
    /\ about \in [Events -> Convs \cup {Malformed, Other}]
    /\ sent \subseteq Events /\ outbox \subseteq sent /\ published \subseteq outbox
    /\ convs \subseteq Convs
    /\ processed \subseteq Events /\ rejected \subseteq outbox
    /\ lifetime \in [Users -> Nat]
    /\ scoped \in [Users -> [Convs -> Nat]]
    /\ at \in [Workers -> Steps]
    /\ batch \in [Workers -> SUBSET sent]
    /\ cur \in [Workers -> Events \cup {0}]
    /\ \A w \in Workers : at[w] = "poll" <=> cur[w] = 0
    /\ counted \subseteq sent
    /\ faults \in 0..MaxFaults

\* stats.rs:286, "every message counts exactly once": a user's rollup is the
\* number of its messages that have ever been folded, however often a poll is
\* repeated, two processes overlap, or a deletion cascades to the receipts.
CountedOnce ==
    \A u \in Users : own_stats(u) = Cardinality(Messages(counted, u))

\* The counter of a conversation is the number of its messages folded, as long
\* as it exists: neither a second delivery nor a deletion that overtakes a fold
\* leaves a counter without its receipts, or brings one back.
ConversationsAgree ==
    \A u \in Users, c \in Convs :
        conversation_stats(u, c) =
            IF c \in convs THEN Cardinality(Messages(In(counted, c), u)) ELSE 0

\* workspace_stats.rs:3, "deleted channels cease to contribute": and nothing else
\* does, for one conversation and for the sum over a workspace.
ScopesAgree ==
    /\ ConversationsAgree
    /\ \A u \in Users :
           own_workspace_stats(u) =
               Cardinality({e \in Messages(counted, u) : about[e] \in convs})

\* stats.rs:311: rows that commit below ids already folded, malformed rows,
\* other topics and rows of deleted conversations never keep a message from
\* being folded, as long as its conversation exists.
NothingStarves ==
    \A e \in Events :
        (e \in sent /\ Countable(e)) ~> (e \in counted \/ about[e] \notin convs)

=============================================================================
