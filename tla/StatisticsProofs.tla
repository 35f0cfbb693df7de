-------------------------- MODULE StatisticsProofs --------------------------
(***************************************************************************)
(* Proofs about Statistics, for all users, conversations, workers, batch   *)
(* sizes and numbers of events and faults.                                 *)
(***************************************************************************)
EXTENDS Statistics, SumProofs

\* What an open fold relies on: its message exists, its conversation is kept by
\* the foreign keys, no receipt is there and no other fold has the message.
FoldsReserved ==
    /\ \A w \in Workers : at[w] \in Claimed =>
           /\ cur[w] \in sent
           /\ about[cur[w]] \in convs
           /\ cur[w] \notin processed
    /\ \A v, w \in Workers :
           at[v] \in Claimed /\ at[w] \in Claimed /\ cur[v] = cur[w] => v = w

\* The receipts still know every message counted in what still exists.
ReceiptsComplete ==
    \A e \in counted : about[e] \in convs => e \in processed

\* The inductive invariant.
IInv ==
    /\ TypeOK
    /\ FoldsReserved
    /\ ReceiptsComplete
    /\ CountedOnce
    /\ ConversationsAgree

-----------------------------------------------------------------------------
(* Counting.                                                               *)

\* A set of events is finite.
LEMMA EventsFinite ==
    ASSUME NEW S, S \subseteq Events
    PROVE  IsFiniteSet(S) /\ Cardinality(S) \in Nat
  <1>1. IsFiniteSet(Events)
    BY FS_Interval, BoundsAssumption DEF Events
  <1>2. IsFiniteSet(S)
    BY <1>1, FS_Subset
  <1> QED
    BY <1>2, FS_CardinalityType

\* One more message of u is one more in every set that it joins.
LEMMA CountGrows ==
    ASSUME NEW S, S \subseteq Events, NEW e \in Events, e \notin S
    PROVE  Cardinality(S \cup {e}) = Cardinality(S) + 1
  BY EventsFinite, FS_AddElement

\* The messages of a user among S and one more event.
LEMMA MessagesGrow ==
    ASSUME NEW S, S \subseteq Events, NEW e \in Events, e \notin S, NEW u
    PROVE  Cardinality(Messages(S \cup {e}, u)) =
               IF actor[e] = u THEN Cardinality(Messages(S, u)) + 1
                               ELSE Cardinality(Messages(S, u))
  <1>1. CASE actor[e] = u
    <2>1. Messages(S \cup {e}, u) = Messages(S, u) \cup {e}
      BY <1>1 DEF Messages
    <2>2. e \notin Messages(S, u) /\ Messages(S, u) \subseteq Events
      BY DEF Messages
    <2> QED
      BY <1>1, <2>1, <2>2, CountGrows
  <1>2. CASE actor[e] # u
    <2>1. Messages(S \cup {e}, u) = Messages(S, u)
      BY <1>2 DEF Messages
    <2> QED
      BY <1>2, <2>1
  <1> QED
    BY <1>1, <1>2

-----------------------------------------------------------------------------
(* Steps that leave receipts and counters alone.                           *)

\* The counts depend on nothing but the events counted and the conversations.
LEMMA CountsUntouched ==
    ASSUME CountedOnce, ConversationsAgree, UNCHANGED <<rows, counters, counted, convs>>
    PROVE  CountedOnce' /\ ConversationsAgree'
  <1>2. CountedOnce'
    BY DEF CountedOnce, own_stats, Messages, rows, counters
  <1>3. ConversationsAgree'
    BY DEF ConversationsAgree, conversation_stats, Messages, In, rows, counters
  <1> QED
    BY <1>2, <1>3

\* A worker's step that touches neither receipts nor counters keeps the
\* invariant if it types, and if every open fold is an old one or reserved anew.
LEMMA QuietStep ==
    ASSUME IInv, TypeOK', UNCHANGED <<rows, counters, counted, convs, processed>>,
           sent \subseteq sent', FoldsReserved'
    PROVE  IInv'
  <1>1. CountedOnce' /\ ConversationsAgree'
    BY CountsUntouched DEF IInv
  <1>2. ReceiptsComplete'
    BY DEF IInv, ReceiptsComplete, rows
  <1> QED
    BY <1>1, <1>2 DEF IInv

\* Senders and the outbox worker.
LEMMA FeedKeeps ==
    ASSUME IInv, NEW e \in Events, CommitEvent(e) \/ MarkPublished(e)
    PROVE  IInv'
  <1>1. TypeOK'
    BY DEF IInv, TypeOK, CommitEvent, MarkPublished, rows, receipts, counters, worker
  <1>2. FoldsReserved'
    BY DEF IInv, FoldsReserved, CommitEvent, MarkPublished, rows, receipts, worker
  <1> QED
    BY <1>1, <1>2, QuietStep DEF CommitEvent, MarkPublished, receipts

\* A poll, the two upserts, and the ends of a poll open no fold.
LEMMA PollKeeps ==
    ASSUME IInv, NEW w \in Workers, Fetch(w) \/ Fail(w) \/ Reject(w)
    PROVE  IInv'
  <1>1. FirstOf(Batch, Waiting) \subseteq sent
    BY DEF IInv, TypeOK, FirstOf, Waiting
  <1>2. TypeOK'
    <2>1. CASE Fetch(w)
      BY <1>1, <2>1 DEF IInv, TypeOK, Fetch, rows, feed, receipts, counters
    <2>2. CASE Fail(w)
      BY <2>2, BoundsAssumption DEF IInv, TypeOK, Fail, Fault, GiveUp, Steps, rows, feed, receipts, counters
    <2>3. CASE Reject(w)
      BY <2>3 DEF IInv, TypeOK, Reject, GiveUp, Skip, Steps, rows, feed, counters
    <2> QED
      BY <2>1, <2>2, <2>3
  <1>3. \A v \in Workers : at'[v] \in Claimed => at[v] \in Claimed /\ cur'[v] = cur[v]
    BY DEF IInv, TypeOK, Fetch, Fail, Reject, GiveUp, Claimed
  <1>4. UNCHANGED <<rows, feed, counters, counted, processed>>
    BY DEF Fetch, Fail, Reject, receipts
  <1>5. FoldsReserved'
    BY <1>3, <1>4 DEF IInv, FoldsReserved, rows, feed
  <1> QED
    BY <1>2, <1>4, <1>5, QuietStep DEF feed

LEMMA CountKeeps ==
    ASSUME IInv, NEW w \in Workers, CountUser(w) \/ CountConversation(w)
    PROVE  IInv'
  <1>1. TypeOK'
    BY DEF IInv, TypeOK, CountUser, CountConversation, Steps, rows, feed, receipts, counters
  <1>2. \A v \in Workers : at'[v] \in Claimed => at[v] \in Claimed /\ cur'[v] = cur[v]
    BY DEF IInv, TypeOK, CountUser, CountConversation, Claimed
  <1>3. FoldsReserved'
    BY <1>2 DEF IInv, FoldsReserved, CountUser, CountConversation, rows, feed, receipts
  <1> QED
    BY <1>1, <1>3, QuietStep DEF CountUser, CountConversation, feed, receipts

\* The receipt's unique key and foreign keys reserve the message.
LEMMA ClaimKeeps ==
    ASSUME IInv, NEW w \in Workers, NEW e \in Events, Claim(w, e)
    PROVE  IInv'
  <1>1. e \in sent /\ e # 0
    BY DEF IInv, TypeOK, Claim, Heads, Events
  <1>2. UNCHANGED <<rows, feed, receipts, counters, counted, faults>>
    BY DEF Claim
  <1>3. TypeOK'
    <2>1. at' \in [Workers -> Steps] /\ cur' \in [Workers -> Events \cup {0}]
      BY DEF IInv, TypeOK, Claim, Steps
    <2>2. batch' \in [Workers -> SUBSET sent]
      BY DEF IInv, TypeOK, Claim, Skip
    <2>3. \A v \in Workers : at'[v] = "poll" <=> cur'[v] = 0
      BY <1>1 DEF IInv, TypeOK, Claim
    <2> QED
      BY <1>2, <2>1, <2>2, <2>3 DEF IInv, TypeOK, rows, feed, receipts, counters
  <1>4. \A v \in Workers \ {w} : at'[v] = at[v] /\ cur'[v] = cur[v]
    BY DEF IInv, TypeOK, Claim
  <1>5. at'[w] \in Claimed =>
            /\ cur'[w] = e /\ about[e] \in convs /\ e \notin processed
            /\ \A v \in Workers : at[v] \in Claimed => cur[v] # e
    <2>1. at[w] \notin Claimed
      BY DEF Claim, Claimed
    <2> QED
      BY <2>1 DEF IInv, TypeOK, Claim, Claimed
  <1>6. FoldsReserved'
    BY <1>1, <1>2, <1>4, <1>5 DEF IInv, FoldsReserved, rows, feed, receipts
  <1> QED
    BY <1>2, <1>3, <1>6, QuietStep DEF feed, receipts

-----------------------------------------------------------------------------
(* The commit of a fold, and the deletion of a conversation.               *)

LEMMA CommitKeeps ==
    ASSUME IInv, NEW w \in Workers, CommitFold(w)
    PROVE  IInv'
  <1> DEFINE e == cur[w]
  <1>1. /\ at[w] \in Claimed /\ at[w] = "commit"
        /\ e \in sent /\ e \in Events /\ about[e] \in convs /\ about[e] \in Convs
        /\ e \notin processed /\ actor[e] \in Users
    BY DEF IInv, TypeOK, FoldsReserved, CommitFold, Claimed
  <1>2. e \notin counted /\ counted \subseteq Events
    BY <1>1 DEF IInv, TypeOK, ReceiptsComplete
  <1>3. /\ UNCHANGED <<rows, feed, rejected, faults>>
        /\ processed' = processed \cup {e}
        /\ counted' = counted \cup {e}
    BY DEF CommitFold
  <1>4. TypeOK'
    <2>1. lifetime' \in [Users -> Nat] /\ scoped' \in [Users -> [Convs -> Nat]]
      BY <1>1 DEF IInv, TypeOK, CommitFold
    <2>2. at' \in [Workers -> Steps] /\ cur' \in [Workers -> Events \cup {0}]
      BY DEF IInv, TypeOK, CommitFold, Steps
    <2>3. batch' \in [Workers -> SUBSET sent]
      BY DEF IInv, TypeOK, CommitFold, Skip
    <2>4. \A v \in Workers : at'[v] = "poll" <=> cur'[v] = 0
      BY DEF IInv, TypeOK, CommitFold
    <2> QED
      BY <1>1, <1>3, <2>1, <2>2, <2>3, <2>4 DEF IInv, TypeOK, rows, feed
  <1>5. FoldsReserved'
    <2>1. \A v \in Workers : at'[v] \in Claimed =>
              v # w /\ at[v] \in Claimed /\ cur'[v] = cur[v] /\ cur[v] # e
      BY <1>1 DEF IInv, TypeOK, FoldsReserved, CommitFold, Claimed
    <2> QED
      BY <1>3, <2>1 DEF IInv, FoldsReserved, rows, feed
  <1>6. ReceiptsComplete'
    BY <1>3 DEF IInv, ReceiptsComplete, rows, feed
  <1>7. CountedOnce'
    <2>1. \A u \in Users : lifetime'[u] = IF actor[e] = u THEN lifetime[u] + 1 ELSE lifetime[u]
      BY DEF IInv, TypeOK, CommitFold
    <2>2. \A u \in Users : Cardinality(Messages(counted \cup {e}, u)) =
              IF actor[e] = u THEN Cardinality(Messages(counted, u)) + 1
                              ELSE Cardinality(Messages(counted, u))
      BY <1>1, <1>2, MessagesGrow
    <2>3. \A u \in Users : Messages(counted, u)' = Messages(counted \cup {e}, u)
      BY <1>3 DEF Messages, rows
    <2> QED
      BY <2>1, <2>2, <2>3 DEF IInv, CountedOnce, own_stats
  <1>8. ConversationsAgree'
    <2> SUFFICES ASSUME NEW u \in Users, NEW c \in Convs
                 PROVE  scoped'[u][c] =
                            IF c \in convs THEN Cardinality(Messages(In(counted, c), u)') ELSE 0
      BY <1>3 DEF ConversationsAgree, conversation_stats, feed
    <2>1. Messages(In(counted, c), u)' = Messages(In(counted \cup {e}, c), u)
      BY <1>3 DEF Messages, In, rows
    <2>2. scoped[u][c] = IF c \in convs THEN Cardinality(Messages(In(counted, c), u)) ELSE 0
      BY DEF IInv, ConversationsAgree, conversation_stats
    <2>3. CASE c = about[e]
      <3>1. In(counted \cup {e}, c) = In(counted, c) \cup {e}
        BY <2>3 DEF In
      <3>2. In(counted, c) \subseteq Events /\ e \notin In(counted, c)
        BY <1>2 DEF In
      <3>3. Cardinality(Messages(In(counted, c) \cup {e}, u)) =
                IF actor[e] = u THEN Cardinality(Messages(In(counted, c), u)) + 1
                                ELSE Cardinality(Messages(In(counted, c), u))
        BY <1>1, <3>2, MessagesGrow
      <3>4. scoped'[u][c] = IF actor[e] = u THEN scoped[u][c] + 1 ELSE scoped[u][c]
        BY <2>3 DEF IInv, TypeOK, CommitFold
      <3> QED
        BY <1>1, <2>1, <2>2, <2>3, <3>1, <3>3, <3>4
    <2>4. CASE c # about[e]
      <3>1. In(counted \cup {e}, c) = In(counted, c)
        BY <2>4 DEF In
      <3>2. scoped'[u][c] = scoped[u][c]
        BY <1>1, <2>4 DEF IInv, TypeOK, CommitFold
      <3> QED
        BY <2>1, <2>2, <3>1, <3>2
    <2> QED
      BY <2>3, <2>4
  <1> QED
    BY <1>4, <1>5, <1>6, <1>7, <1>8 DEF IInv

\* A deletion waits for the folds that share the conversation's row, so that no
\* open fold loses what it relies on.
LEMMA DeleteKeeps ==
    ASSUME IInv, NEW c \in Convs, DeleteConversation(c)
    PROVE  IInv'
  <1>1. TypeOK'
    BY DEF IInv, TypeOK, DeleteConversation, In, rows, worker
  <1>2. \A w \in Workers : at[w] \in Claimed => about[cur[w]] # c
    BY DEF DeleteConversation, Sharing
  <1>3. FoldsReserved'
    BY <1>2 DEF IInv, FoldsReserved, DeleteConversation, In, rows, worker
  <1>4. ReceiptsComplete'
    BY DEF IInv, ReceiptsComplete, DeleteConversation, In, rows
  <1>5. CountedOnce'
    BY DEF IInv, CountedOnce, own_stats, Messages, DeleteConversation, rows
  <1>6. ConversationsAgree'
    <2> SUFFICES ASSUME NEW u \in Users, NEW d \in Convs
                 PROVE  scoped'[u][d] =
                            IF d \in convs \ {c} THEN Cardinality(Messages(In(counted, d), u)) ELSE 0
      BY DEF ConversationsAgree, conversation_stats, DeleteConversation, Messages, In, rows
    <2>1. scoped'[u] = [scoped[u] EXCEPT ![c] = 0]
      BY DEF DeleteConversation
    <2>2. scoped'[u][d] = IF d = c THEN 0 ELSE scoped[u][d]
      BY <2>1 DEF IInv, TypeOK
    <2>3. scoped[u][d] = IF d \in convs THEN Cardinality(Messages(In(counted, d), u)) ELSE 0
      BY DEF IInv, ConversationsAgree, conversation_stats
    <2> QED
      BY <2>2, <2>3
  <1> QED
    BY <1>1, <1>3, <1>4, <1>5, <1>6 DEF IInv

-----------------------------------------------------------------------------
(* Theorems.                                                               *)

LEMMA InitEstablishes == Init => IInv
  <1> SUFFICES ASSUME Init PROVE IInv
    OBVIOUS
  <1>1. TypeOK
    BY BoundsAssumption DEF Init, TypeOK, Steps
  <1>2. FoldsReserved /\ ReceiptsComplete
    BY DEF Init, FoldsReserved, ReceiptsComplete, Claimed
  <1>3. \A S, u : S = {} => Cardinality(Messages(S, u)) = 0
    BY FS_EmptySet DEF Messages
  <1>4. \A c : In({}, c) = {}
    BY DEF In
  <1>5. CountedOnce
    BY <1>3 DEF Init, CountedOnce, own_stats
  <1>6. ConversationsAgree
    BY <1>3, <1>4 DEF Init, ConversationsAgree, conversation_stats
  <1> QED
    BY <1>1, <1>2, <1>5, <1>6 DEF IInv

LEMMA NextKeeps == IInv /\ [Next]_vars => IInv'
  <1> SUFFICES ASSUME IInv, [Next]_vars PROVE IInv'
    OBVIOUS
  <1>1. CASE UNCHANGED vars
    <2>1. TypeOK'
      BY <1>1 DEF IInv, TypeOK, vars, rows, feed, receipts, counters, worker
    <2>2. FoldsReserved'
      BY <1>1 DEF IInv, FoldsReserved, vars, rows, feed, receipts, worker
    <2> QED
      BY <1>1, <2>1, <2>2, QuietStep DEF vars, feed, receipts
  <1>2. CASE Next
    BY <1>2, FeedKeeps, PollKeeps, CountKeeps, ClaimKeeps, CommitKeeps, DeleteKeeps
       DEF Next, Fold
  <1> QED
    BY <1>1, <1>2

\* The counters, the receipts and the open folds fit together at all times.
THEOREM Invariance == Spec => []IInv
  BY InitEstablishes, NextKeeps, PTL DEF Spec

\* Values keep their types.
THEOREM TypeCorrect == Spec => []TypeOK
  <1>1. IInv => TypeOK
    BY DEF IInv
  <1> QED
    BY <1>1, Invariance, PTL

\* No overlap of workers, failure, repetition or deletion counts a message of a
\* user twice in its rollup, or takes one back.
THEOREM OnceOnly == Spec => []CountedOnce
  <1>1. IInv => CountedOnce
    BY DEF IInv
  <1> QED
    BY <1>1, Invariance, PTL

\* The counter of a conversation is exact as long as the conversation exists.
THEOREM CountersExact == Spec => []ConversationsAgree
  <1>1. IInv => ConversationsAgree
    BY DEF IInv
  <1> QED
    BY <1>1, Invariance, PTL

\* The messages of u among S about the conversations in C.
Within(S, u, C) == {e \in Messages(S, u) : about[e] \in C}

\* One more conversation brings its messages.
LEMMA ScopesAdd ==
    ASSUME NEW S, S \subseteq Events, NEW u, NEW C, NEW c \in C
    PROVE  Cardinality(Within(S, u, C)) =
               Cardinality(Messages(In(S, c), u)) + Cardinality(Within(S, u, C \ {c}))
  <1> DEFINE one == Messages(In(S, c), u)
             rest == Within(S, u, C \ {c})
  <1>1. Within(S, u, C) = one \cup rest /\ one \cap rest = {}
    BY DEF Within, Messages, In
  <1>2. one \subseteq Events /\ rest \subseteq Events
    BY DEF Within, Messages, In
  <1> HIDE DEF one, rest
  <1>3. /\ IsFiniteSet(one) /\ Cardinality(one) \in Nat
        /\ IsFiniteSet(rest) /\ Cardinality(rest) \in Nat
    BY <1>2, EventsFinite
  <1>4. Cardinality(one \cup rest) = Cardinality(one) + Cardinality(rest)
    <2>1. Cardinality(one \cap rest) = 0
      BY <1>1, FS_EmptySet
    <2>2. Cardinality(one \cup rest) =
             Cardinality(one) + Cardinality(rest) - Cardinality(one \cap rest)
      BY <1>3, FS_Union
    <2> QED
      BY <1>3, <2>1, <2>2
  <1> QED
    BY <1>1, <1>4 DEF one, rest

\* A workspace's sum counts the messages in its channels.
LEMMA SumCounts ==
    ASSUME IInv, NEW u \in Users
    PROVE  own_workspace_stats(u) = Cardinality(Within(counted, u, convs))
  <1> DEFINE w == scoped[u]
             g == [C \in SUBSET convs |-> Cardinality(Within(counted, u, C))]
  <1>1. /\ IsFiniteSet(convs) /\ convs \subseteq Convs /\ counted \subseteq Events
        /\ \A c \in convs : w[c] \in Int
    BY ConvsAssumption, FS_Subset DEF IInv, TypeOK
  <1>2. \A c \in convs : w[c] = Cardinality(Messages(In(counted, c), u))
    BY <1>1 DEF IInv, ConversationsAgree, conversation_stats
  <1>3. ASSUME NEW C \in SUBSET convs
        PROVE  g[C] = SumAt(g, w, C)
    <2>1. CASE C = {}
      <3>1. Within(counted, u, {}) = {}
        BY DEF Within
      <3> QED
        BY <2>1, <3>1, FS_EmptySet DEF SumAt
    <2>2. CASE C # {}
      <3>1. PICK c \in C : c = Chosen(C)
        BY <2>2 DEF Chosen
      <3>2. Cardinality(Within(counted, u, C)) =
                Cardinality(Messages(In(counted, c), u)) + Cardinality(Within(counted, u, C \ {c}))
        BY <1>1, ScopesAdd
      <3>3. w[c] = Cardinality(Messages(In(counted, c), u)) /\ C \ {c} \in SUBSET convs
        BY <1>2
      <3> QED
        BY <2>2, <3>1, <3>2, <3>3 DEF SumAt
    <2> QED
      BY <2>1, <2>2
  <1> HIDE DEF g
  <1>4. Sums(g, w, SUBSET convs)
    BY <1>3 DEF Sums
  <1>5. SumOf(w, convs) = g[convs]
    <2> HIDE DEF w
    <2> QED
      BY <1>1, <1>4, SumDetermined
  <1>6. own_workspace_stats(u) = SumOf(w, convs)
    BY DEF own_workspace_stats, conversation_stats, SumOf
  <1> QED
    BY <1>5, <1>6 DEF g

\* A workspace's sum is exact, over the channels that still exist, at every
\* point of every fold and deletion.
THEOREM ScopesExact == Spec => []ScopesAgree
  <1>1. IInv => ScopesAgree
    <2> SUFFICES ASSUME IInv
                 PROVE  ScopesAgree
      OBVIOUS
    <2>1. ConversationsAgree
      BY DEF IInv
    <2>2. \A u \in Users :
             own_workspace_stats(u) =
                Cardinality({e \in Messages(counted, u) : about[e] \in convs})
      BY SumCounts DEF Within
    <2> QED
      BY <2>1, <2>2 DEF ScopesAgree
  <1> QED
    BY <1>1, Invariance, PTL

=============================================================================
