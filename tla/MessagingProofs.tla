--------------------------- MODULE MessagingProofs ---------------------------
(***************************************************************************)
(* The properties of Messaging hold for every set of users, conversations, *)
(* keys and requests: IInv is inductive.  And Messaging implements         *)
(* ConversationLog: a step of a transaction is a step of one conversation's*)
(* log, or changes nothing that a client can see.                          *)
(***************************************************************************)
EXTENDS MessagingLog, TLAPS, FunctionTheorems, FiniteSetTheorems

USE DEF Seat, Live, Stored, tables, locks, history
USE NoneAssumption

\* What TransactionInv says of one request.
RequestOK(r) ==
    /\ CallTyped(r)
    /\ AdmittedPinned(r)
    /\ NumberReserved(r)
    /\ CommitFresh(r)
    /\ CascadeComplete(r)
    /\ MarkBounded(r)

\* The empty database satisfies the invariant.
LEMMA InitEstablishes == Init => IInv
  <1> SUFFICES ASSUME Init PROVE IInv
    OBVIOUS
  <1>1. TypeOK
    BY MaxSendsAssumption DEF Init, TypeOK, Steps, Call, Blank, Message, Event, Ack
  <1>2. TransactionInv
    BY DEF Init, TransactionInv, CallTyped, AdmittedPinned, NumberReserved,
           CommitFresh, CascadeComplete, MarkBounded, Sending, Admitted, Numbered, Blank
  <1>3. StoreConsistent
    BY DEF Init, StoreConsistent, Seats
  <1>4. SequencesGapFree /\ AnswersStayTrue /\ OneMessagePerKey
    BY DEF Init, SequencesGapFree, AnswersStayTrue, OneMessagePerKey
  <1>5. OutboxMatchesMessages /\ EventsFollowSequence /\ NothingReadUnasked
    BY DEF Init, OutboxMatchesMessages, EventsFollowSequence, NothingReadUnasked
  <1> QED
    BY <1>1, <1>2, <1>3, <1>4, <1>5 DEF IInv, RowsInv

-----------------------------------------------------------------------------
(* Steps of one request that write no row.                                 *)

\* A request that moves keeps the others' invariant if it leaves their
\* arguments and their locks alone.
LEMMA OthersKept ==
    ASSUME TypeOK, TransactionInv, NEW r \in Reqs, NEW q \in Reqs, q # r,
           UNCHANGED tables, lastEvent' \in Nat, lastEvent <= lastEvent',
           at'[q] = at[q], call'[q] = call[q],
           \A k \in Seats : seatLock[k] = q => seatLock'[k] = q,
           \A c \in Convs : convLock[c] = q => convLock'[c] = q
    PROVE  RequestOK(q)'
  <1>1. RequestOK(q)
    BY DEF RequestOK, TransactionInv
  <1>2. CallTyped(q)'
    BY <1>1 DEF RequestOK, CallTyped
  <1>3. AdmittedPinned(q)' /\ MarkBounded(q)'
    BY <1>1 DEF RequestOK, AdmittedPinned, MarkBounded, TypeOK
  <1>4. NumberReserved(q)'
    BY <1>1 DEF RequestOK, NumberReserved, CallTyped, Sending, Numbered
  <1>5. CommitFresh(q)'
    <2>1. call[q].event \in Nat /\ lastEvent \in Nat
      BY DEF TypeOK, Call
    <2> QED
      BY <1>1, <2>1 DEF RequestOK, CommitFresh
  <1>6. CascadeComplete(q)'
    BY <1>1 DEF RequestOK, CascadeComplete, CallTyped, TypeOK
  <1> QED
    BY <1>2, <1>3, <1>4, <1>5, <1>6 DEF RequestOK

\* Steps that write no row leave every statement about rows as it was.
LEMMA RowsUntouched ==
    ASSUME TypeOK, RowsInv, UNCHANGED <<tables, acked, marked>>,
           lastEvent' \in Nat, lastEvent <= lastEvent'
    PROVE  RowsInv'
  <1>1. \A x \in messages : x.event \in Nat
    BY DEF TypeOK, Message
  <1>2. StoreConsistent'
    BY <1>1 DEF TypeOK, RowsInv, StoreConsistent
  <1> QED
    BY <1>2 DEF RowsInv, SequencesGapFree, AnswersStayTrue, OneMessagePerKey,
         OutboxMatchesMessages, EventsFollowSequence, NothingReadUnasked

\* The two together: what is left to show of such a step is its own request.
LEMMA QuietStep ==
    ASSUME IInv, NEW r \in Reqs,
           UNCHANGED <<tables, acked, marked>>, sends' \in 0 .. MaxSends,
           lastEvent' \in Nat, lastEvent <= lastEvent',
           at' \in [Reqs -> Steps], call' \in [Reqs -> Call],
           seatLock' \in [Seats -> Reqs \cup {None}],
           convLock' \in [Convs -> Reqs \cup {None}],
           \A q \in Reqs \ {r} : at'[q] = at[q] /\ call'[q] = call[q],
           \A q \in Reqs \ {r} : \A k \in Seats : seatLock[k] = q => seatLock'[k] = q,
           \A q \in Reqs \ {r} : \A c \in Convs : convLock[c] = q => convLock'[c] = q,
           RequestOK(r)'
    PROVE  IInv'
  <1>1. TypeOK'
    BY DEF IInv, TypeOK
  <1>2. \A q \in Reqs : RequestOK(q)'
    BY OthersKept DEF IInv
  <1>3. TransactionInv'
    BY <1>2 DEF TransactionInv, RequestOK
  <1>4. RowsInv'
    BY RowsUntouched DEF IInv
  <1> QED
    BY <1>1, <1>3, <1>4 DEF IInv

-----------------------------------------------------------------------------
(* The end of a request.                                                   *)

\* A request that ends keeps its own invariant and touches no lock of another.
LEMMA FinishEffect ==
    ASSUME NEW r \in Reqs, TypeOK, Finish(r)
    PROVE  /\ seatLock' \in [Seats -> Reqs \cup {None}]
           /\ convLock' \in [Convs -> Reqs \cup {None}]
           /\ at' \in [Reqs -> Steps]
           /\ call' \in [Reqs -> Call]
           /\ at'[r] = "idle" /\ call'[r].todo = {}
           /\ \A q \in Reqs \ {r} : at'[q] = at[q] /\ call'[q] = call[q]
           /\ \A k \in Seats : seatLock[k] # r => seatLock'[k] = seatLock[k]
           /\ \A c \in Convs : convLock[c] # r => convLock'[c] = convLock[c]
           /\ RequestOK(r)'
  <1>1. Blank \in Call /\ Blank.todo = {}
    BY DEF Blank, Call
  <1>2. "idle" \in Steps
    BY DEF Steps
  <1>3. at' \in [Reqs -> Steps] /\ call' \in [Reqs -> Call]
    BY <1>1, <1>2 DEF Finish, TypeOK
  <1>4. at'[r] = "idle" /\ call'[r] = Blank
    BY DEF Finish, TypeOK
  <1>5. \A q \in Reqs \ {r} : at'[q] = at[q] /\ call'[q] = call[q]
    BY DEF Finish, TypeOK
  <1>6. seatLock' \in [Seats -> Reqs \cup {None}] /\ convLock' \in [Convs -> Reqs \cup {None}]
    BY DEF Finish, Unlock, TypeOK
  <1>7. /\ \A k \in Seats : seatLock[k] # r => seatLock'[k] = seatLock[k]
        /\ \A c \in Convs : convLock[c] # r => convLock'[c] = convLock[c]
    BY DEF Finish, Unlock, TypeOK
  <1>8. RequestOK(r)'
    BY <1>1, <1>4 DEF RequestOK, CallTyped, AdmittedPinned, NumberReserved, CommitFresh,
       CascadeComplete, MarkBounded, Sending, Admitted, Numbered
  <1> QED
    BY <1>1, <1>3, <1>4, <1>5, <1>6, <1>7, <1>8

\* A rolled back transaction leaves only its released locks behind.
LEMMA RollbackKeeps ==
    ASSUME NEW r \in Reqs, IInv, Finish(r), UNCHANGED <<tables, lastEvent, sends, history>>
    PROVE  IInv'
  <1>1. TypeOK /\ lastEvent \in Nat /\ sends \in 0 .. MaxSends
    BY DEF IInv, TypeOK
  <1> QED
    BY <1>1, FinishEffect, QuietStep

-----------------------------------------------------------------------------
(* The first statement of each operation.                                  *)

\* A request that begins holds nothing and has listed only rows of seats.
LEMMA BeginKeeps ==
    ASSUME IInv, NEW r \in Reqs, NEW step \in {"sendLock", "mark", "kick", "delete"},
           NEW args \in Call, Advance(r, step), call' = [call EXCEPT ![r] = args],
           UNCHANGED <<tables, locks, lastEvent, history>>, sends' \in 0 .. MaxSends,
           CallTyped(r)', MarkBounded(r)'
    PROVE  IInv'
  <1>1. /\ at' \in [Reqs -> Steps] /\ call' \in [Reqs -> Call] /\ at'[r] = step
        /\ \A q \in Reqs \ {r} : at'[q] = at[q] /\ call'[q] = call[q]
    BY DEF IInv, TypeOK, Advance, Steps
  <1>2. RequestOK(r)'
    BY <1>1 DEF RequestOK, AdmittedPinned, NumberReserved, CommitFresh,
       CascadeComplete, Admitted, Numbered
  <1>3. /\ lastEvent \in Nat
        /\ seatLock \in [Seats -> Reqs \cup {None}]
        /\ convLock \in [Convs -> Reqs \cup {None}]
    BY DEF IInv, TypeOK
  <1> QED
    BY <1>1, <1>2, <1>3, QuietStep

\* A send enters with its arguments and nothing else.
LEMMA SendBeginKeeps ==
    ASSUME IInv, NEW r \in Reqs, NEW u \in Users, NEW c \in Convs, NEW m \in ClientIds,
           SendBegin(r, u, c, m)
    PROVE  IInv'
  <1> DEFINE args == [Blank EXCEPT !.user = u, !.conv = c, !.cid = m]
  <1>1. /\ args \in Call /\ args.user = u /\ args.conv = c /\ args.cid = m
        /\ args.todo = {}
    BY DEF Blank, Call
  <1>2. /\ at'[r] = "sendLock" /\ call'[r] = args /\ Advance(r, "sendLock")
        /\ call' = [call EXCEPT ![r] = args]
        /\ UNCHANGED <<tables, locks, lastEvent, history>>
    BY DEF SendBegin, IInv, TypeOK, Advance
  <1>3. sends' \in 0 .. MaxSends
    BY MaxSendsAssumption DEF SendBegin, IInv, TypeOK
  <1>4. CallTyped(r)' /\ MarkBounded(r)'
    BY <1>1, <1>2 DEF CallTyped, MarkBounded, Sending
  <1> QED
    BY <1>1, <1>2, <1>3, <1>4, BeginKeeps

\* mark_read clamps the requested position into the log before it waits.
LEMMA MarkReadBeginKeeps ==
    ASSUME IInv, NEW r \in Reqs, NEW u \in Users, NEW c \in Convs,
           NEW n \in -1 .. MaxSends + 1, MarkReadBegin(r, u, c, n)
    PROVE  IInv'
  <1> DEFINE args == [Blank EXCEPT !.user = u, !.conv = c, !.seq = Clamped(n, c)]
  <1>1. nextSeq[c] \in Nat \ {0} /\ n \in Int
    BY MaxSendsAssumption DEF IInv, TypeOK
  <1>2. Clamped(n, c) \in Nat /\ Clamped(n, c) < nextSeq[c]
    BY <1>1 DEF Clamped, SmallerOf, LargerOf
  <1>3. /\ args \in Call /\ args.user = u /\ args.conv = c /\ args.todo = {}
        /\ args.seq = Clamped(n, c)
    BY <1>2 DEF Blank, Call
  <1>4. /\ at'[r] = "mark" /\ call'[r] = args /\ Advance(r, "mark")
        /\ call' = [call EXCEPT ![r] = args]
        /\ UNCHANGED <<tables, locks, lastEvent, sends, history>>
        /\ <<c, u>> \in seats
    BY DEF MarkReadBegin, IInv, TypeOK, Advance
  <1>5. sends' \in 0 .. MaxSends
    BY <1>4 DEF IInv, TypeOK
  <1>6. CallTyped(r)' /\ MarkBounded(r)'
    BY <1>2, <1>3, <1>4 DEF CallTyped, MarkBounded, Sending
  <1> QED
    BY <1>3, <1>4, <1>5, <1>6, BeginKeeps

\* A kick lists rows of seats that exist.
LEMMA KickBeginKeeps ==
    ASSUME IInv, NEW r \in Reqs, NEW u \in Users, KickBegin(r, u)
    PROVE  IInv'
  <1> DEFINE list == {k \in seats : k[2] = u /\ k[1] \in Channels}
             args == [Blank EXCEPT !.user = u, !.todo = list]
  <1>1. /\ args \in Call /\ args.user = u /\ args.todo = list /\ list \subseteq seats
    BY DEF Blank, Call, IInv, TypeOK
  <1>2. /\ at'[r] = "kick" /\ call'[r] = args /\ Advance(r, "kick")
        /\ call' = [call EXCEPT ![r] = args]
        /\ UNCHANGED <<tables, locks, lastEvent, sends, history>>
    BY DEF KickBegin, IInv, TypeOK, Advance
  <1>3. sends' \in 0 .. MaxSends
    BY <1>2 DEF IInv, TypeOK
  <1>4. CallTyped(r)' /\ MarkBounded(r)'
    BY <1>1, <1>2 DEF CallTyped, MarkBounded, Sending
  <1> HIDE DEF args, list
  <1> QED
    BY <1>1, <1>2, <1>3, <1>4, BeginKeeps

\* A channel delete enters with its conversation and nothing else.
LEMMA DeleteBeginKeeps ==
    ASSUME IInv, NEW r \in Reqs, NEW c \in Convs, DeleteBegin(r, c)
    PROVE  IInv'
  <1> DEFINE args == [Blank EXCEPT !.conv = c]
  <1>1. /\ args \in Call /\ args.conv = c /\ args.todo = {}
    BY DEF Blank, Call
  <1>2. /\ at'[r] = "delete" /\ call'[r] = args /\ Advance(r, "delete")
        /\ call' = [call EXCEPT ![r] = args]
        /\ UNCHANGED <<tables, locks, lastEvent, sends, history>>
    BY DEF DeleteBegin, IInv, TypeOK, Advance
  <1>3. sends' \in 0 .. MaxSends
    BY <1>2 DEF IInv, TypeOK
  <1>4. CallTyped(r)' /\ MarkBounded(r)'
    BY <1>1, <1>2 DEF CallTyped, MarkBounded, Sending
  <1> QED
    BY <1>1, <1>2, <1>3, <1>4, BeginKeeps

-----------------------------------------------------------------------------
(* Statements that lock rows or only read.                                 *)

\* The participant lock pins the seat of an admitted sender.
LEMMA LockParticipantKeeps ==
    ASSUME IInv, NEW r \in Reqs, SendLockParticipant(r)
    PROVE  IInv'
  <1>1. /\ at[r] = "sendLock" /\ UNCHANGED <<tables, lastEvent, sends, history>>
        /\ sends \in 0 .. MaxSends /\ lastEvent \in Nat
    BY DEF SendLockParticipant, IInv, TypeOK
  <1>2. CASE Finish(r)
    BY <1>1, <1>2, RollbackKeeps
  <1>3. CASE /\ Seat(r) \in seats
             /\ TakeSeatLock(r, Seat(r))
             /\ Advance(r, "sendFind")
             /\ UNCHANGED <<convLock, call>>
    <2>1. /\ at' \in [Reqs -> Steps] /\ at'[r] = "sendFind"
          /\ \A q \in Reqs \ {r} : at'[q] = at[q]
      BY <1>3 DEF Advance, IInv, TypeOK, Steps
    <2>2. Seat(r) \in Seats
      BY <1>3 DEF IInv, TypeOK
    <2>3. /\ seatLock' \in [Seats -> Reqs \cup {None}]
          /\ seatLock'[Seat(r)] = r
          /\ \A k \in Seats : seatLock[k] # None => seatLock'[k] = seatLock[k]
      BY <1>3, <2>2 DEF TakeSeatLock, IInv, TypeOK
    <2>4. RequestOK(r)
      BY DEF IInv, TransactionInv, RequestOK
    <2>5. RequestOK(r)'
      BY <1>1, <1>3, <2>1, <2>3, <2>4 DEF RequestOK, CallTyped, AdmittedPinned,
         NumberReserved, CommitFresh, CascadeComplete, MarkBounded,
         Sending, Admitted, Numbered
    <2>6. /\ call' \in [Reqs -> Call]
          /\ convLock' \in [Convs -> Reqs \cup {None}]
      BY <1>3 DEF IInv, TypeOK
    <2> QED
      BY <1>1, <1>3, <2>1, <2>3, <2>5, <2>6, QuietStep
  <1> QED
    BY <1>2, <1>3 DEF SendLockParticipant

\* The answer to a retry is one more true answer.
LEMMA FindExistingKeeps ==
    ASSUME IInv, NEW r \in Reqs, SendFindExisting(r)
    PROVE  IInv'
  <1> DEFINE c == call[r].conv
             m == call[r].cid
             report(x) == [conv |-> c, cid |-> m, seq |-> x.seq, created |-> FALSE]
  <1>1. /\ at[r] = "sendFind" /\ UNCHANGED <<tables, lastEvent, sends, marked>>
        /\ sends \in 0 .. MaxSends /\ lastEvent \in Nat
    BY DEF SendFindExisting, IInv, TypeOK
  <1>2. /\ RequestOK(r)
        /\ c \in Convs /\ m \in ClientIds
    BY <1>1 DEF IInv, TransactionInv, RequestOK, CallTyped, Sending
  <1>3. CASE /\ \E x \in Stored(c, m) : Answer(r, x.seq, FALSE)
             /\ Finish(r)
    <2>1. PICK x \in messages : /\ x.conv = c /\ x.cid = m
                                /\ acked' \in {acked, acked \cup {report(x)}}
      BY <1>3 DEF Answer
    <2>2. x \in Message /\ report(x) \in Ack
      BY <1>2, <2>1 DEF IInv, TypeOK, Message, Ack
    <2>3. TypeOK'
      BY <1>1, <1>3, <2>1, <2>2, FinishEffect DEF IInv, TypeOK
    <2>4. \A q \in Reqs : RequestOK(q)'
      BY <1>1, <1>3, FinishEffect, OthersKept DEF IInv
    <2>5. TransactionInv'
      BY <2>4 DEF TransactionInv, RequestOK
    <2>6. AnswersStayTrue'
      BY <1>1, <2>1 DEF IInv, RowsInv, AnswersStayTrue
    <2>7. StoreConsistent'
      BY <1>1, <2>1 DEF IInv, RowsInv, StoreConsistent
    <2>8. RowsInv'
      BY <1>1, <2>6, <2>7 DEF IInv, RowsInv, SequencesGapFree, OneMessagePerKey,
         OutboxMatchesMessages, EventsFollowSequence, NothingReadUnasked
    <2> QED
      BY <2>3, <2>5, <2>8 DEF IInv
  <1>4. CASE /\ Advance(r, "sendSeq")
             /\ UNCHANGED <<locks, call, acked>>
    <2>1. /\ at' \in [Reqs -> Steps] /\ at'[r] = "sendSeq"
          /\ \A q \in Reqs \ {r} : at'[q] = at[q]
      BY <1>4 DEF Advance, IInv, TypeOK, Steps
    <2>2. RequestOK(r)'
      BY <1>1, <1>2, <1>4, <2>1 DEF RequestOK, CallTyped, AdmittedPinned,
         NumberReserved, CommitFresh, CascadeComplete, MarkBounded,
         Sending, Admitted, Numbered
    <2>3. /\ call' \in [Reqs -> Call]
          /\ seatLock' \in [Seats -> Reqs \cup {None}]
          /\ convLock' \in [Convs -> Reqs \cup {None}]
      BY <1>4 DEF IInv, TypeOK
    <2> QED
      BY <1>1, <1>4, <2>1, <2>2, <2>3, QuietStep
  <1> QED
    BY <1>3, <1>4 DEF SendFindExisting

\* The conversation lock reserves the number that the sender has read.
LEMMA TakeSeqKeeps ==
    ASSUME IInv, NEW r \in Reqs, SendTakeSeq(r)
    PROVE  IInv'
  <1> DEFINE c == call[r].conv
  <1>1. /\ at[r] = "sendSeq" /\ UNCHANGED <<tables, lastEvent, sends, history>>
        /\ sends \in 0 .. MaxSends /\ lastEvent \in Nat
    BY DEF SendTakeSeq, IInv, TypeOK
  <1>2. RequestOK(r) /\ c \in Convs /\ nextSeq[c] \in Nat
    BY <1>1 DEF IInv, TypeOK, TransactionInv, RequestOK, CallTyped, Sending
  <1>3. CASE Finish(r)
    BY <1>1, <1>3, RollbackKeeps
  <1>4. CASE /\ TakeConvLock(r, c)
             /\ Advance(r, "sendInsert")
             /\ call' = [call EXCEPT ![r].seq = nextSeq[c]]
             /\ UNCHANGED seatLock
    <2>1. /\ at' \in [Reqs -> Steps] /\ at'[r] = "sendInsert"
          /\ \A q \in Reqs \ {r} : at'[q] = at[q]
      BY <1>4 DEF Advance, IInv, TypeOK, Steps
    <2>2. /\ call' \in [Reqs -> Call] /\ call'[r] = [call[r] EXCEPT !.seq = nextSeq[c]]
          /\ \A q \in Reqs \ {r} : call'[q] = call[q]
      BY <1>2, <1>4 DEF IInv, TypeOK, Call
    <2>3. /\ call'[r].user = call[r].user /\ call'[r].conv = c
          /\ call'[r].cid = call[r].cid /\ call'[r].todo = call[r].todo
          /\ call'[r].seq = nextSeq[c]
      BY <2>2 DEF IInv, TypeOK, Call
    <2>4. /\ convLock' \in [Convs -> Reqs \cup {None}] /\ convLock'[c] = r
          /\ \A d \in Convs : convLock[d] # None => convLock'[d] = convLock[d]
      BY <1>2, <1>4 DEF TakeConvLock, IInv, TypeOK
    <2>5. RequestOK(r)'
      BY <1>1, <1>2, <1>4, <2>1, <2>3, <2>4 DEF RequestOK, CallTyped, AdmittedPinned,
         NumberReserved, CommitFresh, CascadeComplete, MarkBounded,
         Sending, Admitted, Numbered
    <2>6. seatLock' \in [Seats -> Reqs \cup {None}]
      BY <1>4 DEF IInv, TypeOK
    <2> QED
      BY <1>1, <1>4, <2>1, <2>2, <2>4, <2>5, <2>6, QuietStep
  <1> QED
    BY <1>3, <1>4 DEF SendTakeSeq

\* The insert finds the key unused and allocates the newest event id.
LEMMA InsertKeeps ==
    ASSUME IInv, NEW r \in Reqs, SendInsert(r)
    PROVE  IInv'
  <1> DEFINE c == call[r].conv
  <1>1. /\ at[r] = "sendInsert" /\ UNCHANGED <<tables, sends, history>>
        /\ sends \in 0 .. MaxSends /\ lastEvent \in Nat
    BY DEF SendInsert, IInv, TypeOK
  <1>2. RequestOK(r)
    BY DEF IInv, TransactionInv, RequestOK
  <1>3. CASE Finish(r) /\ UNCHANGED lastEvent
    BY <1>1, <1>3, RollbackKeeps
  <1>4. CASE /\ Stored(c, call[r].cid) = {}
             /\ lastEvent' = lastEvent + 1
             /\ call' = [call EXCEPT ![r].event = lastEvent + 1]
             /\ Advance(r, "sendCommit")
             /\ UNCHANGED locks
    <2>1. /\ at' \in [Reqs -> Steps] /\ at'[r] = "sendCommit"
          /\ \A q \in Reqs \ {r} : at'[q] = at[q]
      BY <1>4 DEF Advance, IInv, TypeOK, Steps
    <2>2. /\ call' \in [Reqs -> Call]
          /\ call'[r] = [call[r] EXCEPT !.event = lastEvent + 1]
          /\ \A q \in Reqs \ {r} : call'[q] = call[q]
      <3>1. ASSUME NEW e \in Nat
            PROVE  [call[r] EXCEPT !.event = e] \in Call
        BY DEF IInv, TypeOK, Call
      <3>2. [call[r] EXCEPT !.event = lastEvent + 1] \in Call
        BY <1>1, <3>1
      <3> QED
        BY <1>4, <3>2 DEF IInv, TypeOK
    <2>3. /\ call'[r].user = call[r].user /\ call'[r].conv = c
          /\ call'[r].cid = call[r].cid /\ call'[r].todo = call[r].todo
          /\ call'[r].seq = call[r].seq /\ call'[r].event = lastEvent + 1
      BY <2>2 DEF IInv, TypeOK, Call
    <2>4. \A x \in messages : x.event \in Nat /\ x.event <= lastEvent
      BY DEF IInv, TypeOK, Message, RowsInv, StoreConsistent
    <2>5. CallTyped(r)' /\ AdmittedPinned(r)' /\ NumberReserved(r)'
      BY <1>1, <1>2, <1>4, <2>1, <2>3 DEF RequestOK, CallTyped, AdmittedPinned,
         NumberReserved, Sending, Admitted, Numbered
    <2>6. CommitFresh(r)'
      BY <1>1, <1>4, <2>1, <2>3, <2>4 DEF CommitFresh
    <2>7. RequestOK(r)'
      BY <2>1, <2>5, <2>6 DEF RequestOK, CascadeComplete, MarkBounded
    <2>8. /\ seatLock' \in [Seats -> Reqs \cup {None}]
          /\ convLock' \in [Convs -> Reqs \cup {None}]
      BY <1>4 DEF IInv, TypeOK
    <2> QED
      BY <1>1, <1>4, <2>1, <2>2, <2>7, <2>8, QuietStep
  <1> QED
    BY <1>3, <1>4 DEF SendInsert

\* A kick or a cascade moves a row from its list to its locks.
LEMMA LockNextSeatKeeps ==
    ASSUME IInv, NEW r \in Reqs, LockNextSeat(r)
    PROVE  IInv'
  <1>1. PICK k \in call[r].todo : /\ TakeSeatLock(r, k)
                                  /\ call' = [call EXCEPT ![r].todo = @ \ {k}]
    BY DEF LockNextSeat
  <1>2. /\ at[r] \in {"kick", "cascade"}
        /\ UNCHANGED <<tables, convLock, at, lastEvent, sends, history>>
        /\ sends \in 0 .. MaxSends /\ lastEvent \in Nat
    BY DEF LockNextSeat, IInv, TypeOK
  <1>3. RequestOK(r) /\ k \in Seats
    BY DEF IInv, TransactionInv, RequestOK, TypeOK, Call
  <1>4. /\ call' \in [Reqs -> Call] /\ call'[r] = [call[r] EXCEPT !.todo = @ \ {k}]
        /\ \A q \in Reqs \ {r} : call'[q] = call[q]
    <2>1. call \in [Reqs -> Call]
      BY DEF IInv, TypeOK
    <2>2. [call[r] EXCEPT !.todo = @ \ {k}] \in Call
      <3>1. call[r] \in Call /\ call[r].todo \ {k} \in SUBSET Seats
        BY <2>1 DEF Call
      <3> QED
        BY <3>1 DEF Call
    <2> QED
      BY <1>1, <2>1, <2>2
  <1>5. /\ call'[r].user = call[r].user /\ call'[r].conv = call[r].conv
        /\ call'[r].todo = call[r].todo \ {k}
    BY <1>4 DEF IInv, TypeOK, Call
  <1>6. /\ seatLock' \in [Seats -> Reqs \cup {None}] /\ seatLock'[k] = r
        /\ \A j \in Seats : seatLock[j] # None => seatLock'[j] = seatLock[j]
    BY <1>1, <1>3 DEF TakeSeatLock, IInv, TypeOK
  <1>7. CallTyped(r)' /\ AdmittedPinned(r)' /\ NumberReserved(r)' /\ CommitFresh(r)'
           /\ MarkBounded(r)'
    BY <1>2, <1>3, <1>5 DEF RequestOK, CallTyped, AdmittedPinned, NumberReserved,
       CommitFresh, MarkBounded, Sending, Admitted, Numbered
  <1>8. CascadeComplete(r)'
    BY <1>2, <1>3, <1>5, <1>6 DEF RequestOK, CascadeComplete, IInv, TypeOK
  <1>9. /\ at' \in [Reqs -> Steps] /\ convLock' \in [Convs -> Reqs \cup {None}]
        /\ \A q \in Reqs \ {r} : at'[q] = at[q]
    BY <1>2 DEF IInv, TypeOK
  <1>10. RequestOK(r)'
    BY <1>7, <1>8 DEF RequestOK
  <1> QED
    BY <1>2, <1>4, <1>6, <1>9, <1>10, QuietStep

\* A delete that owns the conversation row lists every seat of it.
LEMMA DeleteLockKeeps ==
    ASSUME IInv, NEW r \in Reqs, DeleteLockConversation(r)
    PROVE  IInv'
  <1> DEFINE c == call[r].conv
             list == {k \in seats : k[1] = c}
  <1>1. /\ at[r] = "delete" /\ UNCHANGED <<tables, lastEvent, sends, history>>
        /\ sends \in 0 .. MaxSends /\ lastEvent \in Nat
    BY DEF DeleteLockConversation, IInv, TypeOK
  <1>2. c \in Convs
    BY <1>1 DEF IInv, TransactionInv, CallTyped
  <1>3. CASE Finish(r)
    BY <1>1, <1>3, RollbackKeeps
  <1>4. CASE /\ Live(c)
             /\ TakeConvLock(r, c)
             /\ Advance(r, "cascade")
             /\ call' = [call EXCEPT ![r].todo = list]
             /\ UNCHANGED seatLock
    <2>1. /\ at' \in [Reqs -> Steps] /\ at'[r] = "cascade"
          /\ \A q \in Reqs \ {r} : at'[q] = at[q]
      BY <1>4 DEF Advance, IInv, TypeOK, Steps
    <2>2. /\ call' \in [Reqs -> Call] /\ call'[r] = [call[r] EXCEPT !.todo = list]
          /\ \A q \in Reqs \ {r} : call'[q] = call[q]
      BY <1>4 DEF IInv, TypeOK, Call
    <2>3. call'[r].conv = c /\ call'[r].todo = list
      BY <2>2 DEF IInv, TypeOK, Call
    <2>4. /\ convLock' \in [Convs -> Reqs \cup {None}] /\ convLock'[c] = r
          /\ \A d \in Convs : convLock[d] # None => convLock'[d] = convLock[d]
      BY <1>2, <1>4 DEF TakeConvLock, IInv, TypeOK
    <2>5. RequestOK(r)'
      BY <1>1, <1>2, <1>4, <2>1, <2>3, <2>4 DEF RequestOK, CallTyped, AdmittedPinned,
         NumberReserved, CommitFresh, CascadeComplete, MarkBounded,
         Sending, Admitted, Numbered
    <2>6. seatLock' \in [Seats -> Reqs \cup {None}]
      BY <1>4 DEF IInv, TypeOK
    <2> QED
      BY <1>1, <1>4, <2>1, <2>2, <2>4, <2>5, <2>6, QuietStep
  <1> QED
    BY <1>3, <1>4 DEF DeleteLockConversation

-----------------------------------------------------------------------------
(* Commits.                                                                *)

\* The commit of a send appends one message at the end of its log.
LEMMA SendCommitKeeps ==
    ASSUME IInv, NEW r \in Reqs, SendCommit(r)
    PROVE  IInv'
  <1> DEFINE c == call[r].conv
             u == call[r].user
             m == call[r].cid
             s == call[r].seq
             e == call[r].event
             new == [conv |-> c, sender |-> u, seq |-> s, cid |-> m, event |-> e]
             report == [conv |-> c, cid |-> m, seq |-> s, created |-> TRUE]
  <1> USE DEF IInv
  <1>1. /\ at[r] = "sendCommit" /\ UNCHANGED <<convs, seats, published, lastEvent, sends, marked>>
        /\ Finish(r)
        /\ nextSeq' = [nextSeq EXCEPT ![c] = s + 1]
        /\ messages' = messages \cup {new}
        /\ outbox' = outbox \cup {[event |-> e, conv |-> c, seq |-> s]}
        /\ lastRead' = [lastRead EXCEPT ![<<c, u>>] = MarkerAfterSend(r)]
        /\ acked' \in {acked, acked \cup {report}}
    BY DEF SendCommit, Answer
  <1>2. RequestOK(r)
    BY DEF TransactionInv, RequestOK
  <1>a. /\ convs' = convs /\ seats' = seats /\ published' = published
        /\ lastEvent' = lastEvent /\ sends' = sends /\ marked' = marked
    BY <1>1
  <1>b. /\ seatLock' \in [Seats -> Reqs \cup {None}]
        /\ convLock' \in [Convs -> Reqs \cup {None}]
        /\ at' \in [Reqs -> Steps] /\ call' \in [Reqs -> Call]
        /\ \A q \in Reqs \ {r} : at'[q] = at[q] /\ call'[q] = call[q]
        /\ \A k \in Seats : seatLock[k] # r => seatLock'[k] = seatLock[k]
        /\ \A d \in Convs : convLock[d] # r => convLock'[d] = convLock[d]
        /\ RequestOK(r)'
    <2>1. TypeOK /\ Finish(r)
      BY <1>1
    <2> HIDE DEF IInv
    <2> QED
      BY <2>1, FinishEffect
  <1>3. /\ c \in Convs /\ u \in Users /\ m \in ClientIds /\ s \in Nat /\ e \in Nat
        /\ <<c, u>> \in seats /\ <<c, u>> \in Seats
        /\ seatLock[<<c, u>>] = r /\ convLock[c] = r
        /\ s = nextSeq[c] /\ s > 0 /\ Live(c)
        /\ Stored(c, m) = {} /\ e <= lastEvent
        /\ \A x \in messages : x.conv = c => x.event < e
    <2>1. c \in Convs /\ u \in Users /\ m \in ClientIds /\ s \in Nat /\ e \in Nat
      BY <1>1, <1>2 DEF RequestOK, CallTyped, Sending, TypeOK, Call
    <2>2. <<c, u>> \in seats /\ seatLock[<<c, u>>] = r /\ convLock[c] = r /\ s = nextSeq[c]
      BY <1>1, <1>2 DEF RequestOK, AdmittedPinned, NumberReserved, Admitted, Numbered
    <2>3. <<c, u>> \in Seats /\ s > 0
      BY <2>1, <2>2 DEF TypeOK
    <2>4. Live(c)
      BY <2>2 DEF RowsInv, StoreConsistent
    <2> QED
      BY <1>1, <1>2, <2>1, <2>2, <2>3, <2>4 DEF RequestOK, CommitFresh
  <1>4. MarkerAfterSend(r) \in Nat /\ MarkerAfterSend(r) < s + 1
    BY <1>3 DEF MarkerAfterSend, TypeOK, RowsInv, StoreConsistent, Seats
  <1>5. TypeOK'
    <2>1. new \in Message /\ [event |-> e, conv |-> c, seq |-> s] \in Event /\ report \in Ack
      BY <1>3 DEF Message, Event, Ack
    <2>2. nextSeq' \in [Convs -> Nat \ {0}] /\ lastRead' \in [Seats -> Nat]
      BY <1>1, <1>3, <1>4 DEF TypeOK
    <2> QED
      BY <1>1, <2>1, <2>2, FinishEffect DEF TypeOK
  <1>6. ASSUME NEW q \in Reqs, q # r
        PROVE  RequestOK(q)'
    <2> HIDE DEF c, u, m, s, e, new, report
    <2>1. RequestOK(q) /\ at'[q] = at[q] /\ call'[q] = call[q]
      BY <1>6, <1>b DEF TransactionInv, RequestOK
    <2>2. CallTyped(q)'
      BY <1>a, <2>1 DEF RequestOK, CallTyped
    <2>3. AdmittedPinned(q)'
      BY <1>6, <1>a, <1>b, <2>1 DEF RequestOK, AdmittedPinned, TypeOK
    <2>4. NumberReserved(q)' /\ CommitFresh(q)' /\ CascadeComplete(q)'
      <3>1. CASE at[q] \in Numbered \cup {"cascade"}
        <4>1. call[q].conv \in Convs /\ convLock[call[q].conv] = q
          BY <2>1, <3>1 DEF RequestOK, CallTyped, NumberReserved, CascadeComplete,
             Sending, Numbered
        <4>2. call[q].conv # c
          BY <1>3, <1>6, <4>1
        <4>3. convLock'[call[q].conv] = q
          BY <1>6, <1>b, <4>1
        <4>4. /\ nextSeq'[call[q].conv] = nextSeq[call[q].conv]
              /\ \A x \in messages' : x.conv = call[q].conv => x \in messages
          BY <1>1, <1>3, <4>1, <4>2 DEF TypeOK, new
        <4>5. \A k \in seats : seatLock[k] = q => seatLock'[k] = q
          BY <1>6, <1>b DEF TypeOK
        <4>6. NumberReserved(q)' /\ CommitFresh(q)'
          BY <1>a, <2>1, <4>3, <4>4 DEF RequestOK, NumberReserved, CommitFresh
        <4>7. CascadeComplete(q)'
          BY <1>a, <2>1, <4>3, <4>5 DEF RequestOK, CascadeComplete
        <4> QED
          BY <4>6, <4>7
      <3>2. CASE at[q] \notin Numbered \cup {"cascade"}
        BY <2>1, <3>2 DEF NumberReserved, CommitFresh, CascadeComplete, Numbered
      <3> QED
        BY <3>1, <3>2
    <2>5. MarkBounded(q)'
      BY <1>1, <1>3, <2>1 DEF RequestOK, MarkBounded, CallTyped, TypeOK, Call
    <2> QED
      BY <2>2, <2>3, <2>4, <2>5 DEF RequestOK
  <1>7. TransactionInv'
    BY <1>6, <1>b DEF TransactionInv, RequestOK
  <1>8. StoreConsistent'
    <2>1. /\ \A k \in seats' : Live(k[1])'
          /\ \A d \in Convs : convs'[d] = "unborn" => nextSeq'[d] = 1
          /\ \A a \in acked' : convs'[a.conv] # "unborn"
      BY <1>1, <1>3 DEF RowsInv, StoreConsistent, TypeOK
    <2>2. \A k \in Seats : lastRead'[k] < nextSeq'[k[1]]
      BY <1>1, <1>3, <1>4 DEF RowsInv, StoreConsistent, TypeOK, Seats
    <2>3. \A x \in messages' : /\ Live(x.conv)' /\ x.seq < nextSeq'[x.conv]
                               /\ x.seq > 0 /\ x.event <= lastEvent'
      BY <1>1, <1>3 DEF RowsInv, StoreConsistent, TypeOK, Message
    <2> QED
      BY <2>1, <2>2, <2>3 DEF StoreConsistent
  <1>9. SequencesGapFree'
    <2>1. \A x \in messages : x.conv \in Convs /\ x.seq \in Nat /\ x.seq < nextSeq[x.conv]
      BY DEF RowsInv, StoreConsistent, TypeOK, Message
    <2>2. ASSUME NEW d \in Convs, Live(d)
          PROVE  {x.seq : x \in {y \in messages' : y.conv = d}} = 1 .. nextSeq'[d] - 1
      <3>1. {x.seq : x \in {y \in messages : y.conv = d}} = 1 .. nextSeq[d] - 1
        BY <2>2 DEF RowsInv, SequencesGapFree
      <3>2. CASE d # c
        <4>1. nextSeq'[d] = nextSeq[d]
          BY <1>1, <3>2 DEF TypeOK
        <4>2. {y \in messages' : y.conv = d} = {y \in messages : y.conv = d}
          BY <1>1, <3>2
        <4> QED
          BY <3>1, <4>1, <4>2
      <3>3. CASE d = c
        <4>1. nextSeq'[d] - 1 = s /\ nextSeq[d] = s /\ s \in Nat \ {0}
          BY <1>1, <1>3, <3>3 DEF TypeOK
        <4>2. {y \in messages' : y.conv = d} = {y \in messages : y.conv = d} \cup {new}
          BY <1>1, <3>3
        <4>3. {x.seq : x \in {y \in messages' : y.conv = d}} = (1 .. s - 1) \cup {s}
          <5> DEFINE old == {y \in messages : y.conv = d}
                     now == {y \in messages' : y.conv = d}
          <5>1. now = old \cup {new} /\ new.seq = s /\ {x.seq : x \in old} = 1 .. s - 1
            BY <3>1, <4>1, <4>2
          <5> HIDE DEF old, now, new, s
          <5>2. {x.seq : x \in now} = (1 .. s - 1) \cup {s}
            BY <5>1
          <5> QED
            BY <5>2 DEF now
        <4> QED
          BY <4>1, <4>3
      <3> QED
        BY <3>2, <3>3
    <2>3. ASSUME NEW d \in Convs, Live(d), NEW x \in messages', NEW y \in messages',
                 x.conv = d, y.conv = d, x.seq = y.seq
          PROVE  x = y
      BY <1>1, <1>3, <2>1, <2>3 DEF RowsInv, SequencesGapFree
    <2> QED
      BY <1>1, <2>2, <2>3 DEF SequencesGapFree
  <1>10. AnswersStayTrue'
    <2>1. new \in messages' /\ messages \subseteq messages' /\ new.conv = report.conv
             /\ new.cid = report.cid /\ new.seq = report.seq
      BY <1>1
    <2>2. acked' \subseteq acked \cup {report}
      BY <1>1
    <2> HIDE DEF new, report
    <2> QED
      BY <1>a, <2>1, <2>2 DEF RowsInv, AnswersStayTrue
  <1>11. OneMessagePerKey'
    BY <1>1, <1>3 DEF RowsInv, OneMessagePerKey
  <1>12. OutboxMatchesMessages'
    <2> DEFINE event == [event |-> e, conv |-> c, seq |-> s]
    <2>1. /\ [event |-> new.event, conv |-> new.conv, seq |-> new.seq] = event
          /\ event.event = new.event /\ event.conv = new.conv /\ event.seq = new.seq
          /\ outbox' = outbox \cup {event}
      BY <1>1
    <2>2. messages' = messages \cup {new}
      BY <1>1
    <2> HIDE DEF new, event
    <2>3. ASSUME NEW x \in messages'
          PROVE  [event |-> x.event, conv |-> x.conv, seq |-> x.seq] \in outbox'
      BY <2>1, <2>2 DEF RowsInv, OutboxMatchesMessages
    <2>4. ASSUME NEW f \in outbox', f.event \notin published'
          PROVE  \E x \in messages' :
                    x.event = f.event /\ x.conv = f.conv /\ x.seq = f.seq
      BY <1>a, <2>1, <2>2, <2>4 DEF RowsInv, OutboxMatchesMessages
    <2> QED
      BY <2>3, <2>4 DEF OutboxMatchesMessages
  <1>13. EventsFollowSequence'
    <2>1. \A x \in messages : /\ x.seq \in Nat /\ x.event \in Nat
                              /\ x.conv = c => x.seq < s /\ x.event < e
      BY <1>3 DEF RowsInv, StoreConsistent, TypeOK, Message
    <2> QED
      BY <1>1, <1>3, <2>1 DEF RowsInv, EventsFollowSequence
  <1>14. NothingReadUnasked'
    <2>1. ASSUME NEW x \in messages', NEW v \in Users, <<x.conv, v>> \in seats',
                 x.seq <= lastRead'[<<x.conv, v>>]
          PROVE  x.sender = v \/ x.seq <= marked'[<<x.conv, v>>]
      <3> DEFINE k == <<x.conv, v>>
      <3>1. k \in Seats /\ lastRead[k] \in Nat /\ lastRead[k] < nextSeq[x.conv]
        BY <1>1, <2>1 DEF RowsInv, StoreConsistent, TypeOK, Seats
      <3>2. CASE x = new
        BY <1>1, <1>3, <2>1, <3>1, <3>2 DEF TypeOK
      <3>3. CASE x \in messages
        <4>1. x.seq \in Nat /\ (x.conv = c => x.seq < s)
          BY <1>3, <3>3 DEF RowsInv, StoreConsistent, TypeOK, Message
        <4>2. x.seq <= lastRead[k]
          BY <1>1, <1>3, <2>1, <3>1, <4>1 DEF MarkerAfterSend, TypeOK
        <4> QED
          BY <1>1, <2>1, <3>3, <4>2 DEF RowsInv, NothingReadUnasked
      <3> QED
        BY <1>1, <3>2, <3>3
    <2> QED
      BY <2>1 DEF NothingReadUnasked
  <1> QED
    BY <1>5, <1>7, <1>8, <1>9, <1>10, <1>11, <1>12, <1>13, <1>14 DEF RowsInv
\* The effect of a commit that takes rows away on locks and other requests.
LEMMA RemovingEffect ==
    ASSUME NEW r \in Reqs, NEW gone \in SUBSET Seats, IInv, FinishRemoving(r, gone),
           seats' = seats \ gone
    PROVE  /\ seatLock' \in [Seats -> Reqs \cup {None}]
           /\ convLock' \in [Convs -> Reqs \cup {None}]
           /\ at' \in [Reqs -> Steps]
           /\ call' \in [Reqs -> Call]
           /\ \A k \in Seats : seatLock[k] # r => seatLock'[k] = seatLock[k]
           /\ \A c \in Convs : convLock[c] # r => convLock'[c] = convLock[c]
           /\ RequestOK(r)'
           /\ \A q \in Reqs \ {r} :
                 \/ /\ at'[q] = "idle" /\ RequestOK(q)'
                 \/ /\ at'[q] = at[q]
                    /\ at[q] = "mark" => Seat(q) \notin gone
                    /\ call'[q] = [call[q] EXCEPT !.todo = @ \ gone]
  <1> USE DEF IInv
  <1>1. Blank \in Call /\ Blank.todo = {} /\ "idle" \in Steps
    BY DEF Blank, Call, Steps
  <1> DEFINE orphan(q) == at[q] = "mark" /\ Seat(q) \in gone
  <1>2. /\ at' = [q \in Reqs |-> IF q = r \/ orphan(q) THEN "idle" ELSE at[q]]
        /\ call' = [q \in Reqs |-> IF q = r \/ orphan(q) THEN Blank
                                   ELSE [call[q] EXCEPT !.todo = @ \ gone]]
        /\ Unlock(r)
    BY DEF FinishRemoving
  <1>3. at' \in [Reqs -> Steps]
    BY <1>1, <1>2 DEF TypeOK
  <1>4. \A q \in Reqs : [call[q] EXCEPT !.todo = @ \ gone] \in Call
    <2>1. ASSUME NEW x \in Call
          PROVE  [x EXCEPT !.todo = @ \ gone] \in Call
      <3>1. x.todo \ gone \in SUBSET Seats
        BY DEF Call
      <3> QED
        BY <3>1 DEF Call
    <2>2. call \in [Reqs -> Call]
      BY DEF TypeOK
    <2> QED
      BY <2>1, <2>2
  <1>5. call' \in [Reqs -> Call]
    BY <1>1, <1>2, <1>4
  <1>6. ASSUME NEW q \in Reqs, q = r \/ orphan(q)
        PROVE  at'[q] = "idle" /\ RequestOK(q)'
    <2>1. at'[q] = "idle" /\ call'[q] = Blank
      BY <1>2, <1>6
    <2> QED
      BY <1>1, <2>1 DEF RequestOK, CallTyped, AdmittedPinned, NumberReserved, CommitFresh,
         CascadeComplete, MarkBounded, Sending, Admitted, Numbered
  <1>7. ASSUME NEW q \in Reqs, q # r, ~orphan(q)
        PROVE  /\ at'[q] = at[q] /\ call'[q] = [call[q] EXCEPT !.todo = @ \ gone]
               /\ at[q] = "mark" => Seat(q) \notin gone
    BY <1>2, <1>7
  <1>8. /\ seatLock' \in [Seats -> Reqs \cup {None}]
        /\ convLock' \in [Convs -> Reqs \cup {None}]
        /\ \A k \in Seats : seatLock[k] # r => seatLock'[k] = seatLock[k]
        /\ \A c \in Convs : convLock[c] # r => convLock'[c] = convLock[c]
    BY <1>2 DEF Unlock, TypeOK
  <1> QED
    BY <1>3, <1>5, <1>6, <1>7, <1>8

\* Another request keeps its invariant when a removal commits: its own locks
\* show that its seat and its conversation are not among what goes.
LEMMA SurvivesRemoval ==
    ASSUME IInv, NEW r \in Reqs, NEW q \in Reqs, q # r,
           at'[q] = at[q], at[q] = "mark" => Seat(q) \notin Held(r),
           call'[q] = [call[q] EXCEPT !.todo = @ \ Held(r)],
           seats' = seats \ Held(r), nextSeq' = nextSeq, lastEvent' = lastEvent,
           messages' \subseteq messages,
           \A k \in Seats : seatLock[k] # r => seatLock'[k] = seatLock[k],
           \A c \in Convs : convLock[c] # r => convLock'[c] = convLock[c],
           \A c \in Convs : convLock[c] # r => convs'[c] = convs[c]
    PROVE  RequestOK(q)'
  <1>1. RequestOK(q) /\ TypeOK
    BY DEF IInv, TransactionInv, RequestOK
  <1>2. /\ call'[q].user = call[q].user /\ call'[q].conv = call[q].conv
        /\ call'[q].cid = call[q].cid /\ call'[q].seq = call[q].seq
        /\ call'[q].event = call[q].event /\ call'[q].todo = call[q].todo \ Held(r)
    BY <1>1 DEF TypeOK, Call
  <1>3. CallTyped(q)'
    BY <1>1, <1>2 DEF RequestOK, CallTyped
  <1>4. AdmittedPinned(q)'
    BY <1>1, <1>2 DEF RequestOK, AdmittedPinned, Held, TypeOK
  <1>5. MarkBounded(q)'
    BY <1>1, <1>2 DEF RequestOK, MarkBounded
  <1>6. CASE at[q] \in Numbered \cup {"cascade"}
    <2>1. call[q].conv \in Convs /\ convLock[call[q].conv] = q
      BY <1>1, <1>6 DEF RequestOK, CallTyped, NumberReserved, CascadeComplete,
         Sending, Numbered
    <2>2. convLock'[call[q].conv] = q /\ convs'[call[q].conv] = convs[call[q].conv]
      BY <2>1
    <2>3. NumberReserved(q)' /\ CommitFresh(q)'
      BY <1>1, <1>2, <2>2 DEF RequestOK, NumberReserved, CommitFresh
    <2>4. \A k \in seats' : k \in Seats /\ (seatLock[k] = q => seatLock'[k] = q)
      BY <1>1 DEF TypeOK
    <2>5. CascadeComplete(q)'
      BY <1>1, <1>2, <2>2, <2>4 DEF RequestOK, CascadeComplete
    <2> QED
      BY <1>3, <1>4, <1>5, <2>3, <2>5 DEF RequestOK
  <1>7. CASE at[q] \notin Numbered \cup {"cascade"}
    BY <1>3, <1>4, <1>5, <1>7 DEF RequestOK, NumberReserved, CommitFresh, CascadeComplete,
       Numbered
  <1> QED
    BY <1>6, <1>7

\* The commit of a kick takes only seats whose rows it has locked.
LEMMA KickCommitKeeps ==
    ASSUME IInv, NEW r \in Reqs, KickCommit(r)
    PROVE  IInv'
  <1>1. /\ at[r] = "kick" /\ FinishRemoving(r, Held(r)) /\ seats' = seats \ Held(r)
        /\ convs' = convs /\ nextSeq' = nextSeq /\ lastRead' = lastRead
        /\ messages' = messages /\ outbox' = outbox /\ published' = published
        /\ lastEvent' = lastEvent /\ sends' = sends /\ acked' = acked /\ marked' = marked
    BY DEF KickCommit
  <1>2. Held(r) \in SUBSET Seats /\ TypeOK
    BY DEF Held, IInv
  <1>3. TypeOK'
    BY <1>1, <1>2, RemovingEffect DEF TypeOK
  <1>4. \A q \in Reqs : RequestOK(q)'
    <2>0. /\ \A k \in Seats : seatLock[k] # r => seatLock'[k] = seatLock[k]
          /\ \A d \in Convs : convLock[d] # r => convLock'[d] = convLock[d]
          /\ RequestOK(r)'
          /\ \A q \in Reqs \ {r} :
                \/ /\ at'[q] = "idle" /\ RequestOK(q)'
                \/ /\ at'[q] = at[q]
                   /\ at[q] = "mark" => Seat(q) \notin Held(r)
                   /\ call'[q] = [call[q] EXCEPT !.todo = @ \ Held(r)]
      BY <1>1, <1>2, RemovingEffect
    <2>1. ASSUME NEW q \in Reqs, q # r, ~RequestOK(q)'
          PROVE  FALSE
      <3>1. /\ at'[q] = at[q]
            /\ at[q] = "mark" => Seat(q) \notin Held(r)
            /\ call'[q] = [call[q] EXCEPT !.todo = @ \ Held(r)]
        BY <2>0, <2>1
      <3> QED
        BY <1>1, <2>0, <2>1, <3>1, SurvivesRemoval
    <2> QED
      BY <2>0, <2>1
  <1>5. TransactionInv'
    BY <1>4 DEF TransactionInv, RequestOK
  <1>6. RowsInv'
    BY <1>1 DEF IInv, RowsInv, StoreConsistent, SequencesGapFree, AnswersStayTrue,
       OneMessagePerKey, OutboxMatchesMessages, EventsFollowSequence, NothingReadUnasked
  <1> QED
    BY <1>3, <1>5, <1>6 DEF IInv

\* Every seat of the conversation is locked by the cascade, so none is left.
LEMMA DeleteCommitKeeps ==
    ASSUME IInv, NEW r \in Reqs, DeleteCommit(r)
    PROVE  IInv'
  <1> DEFINE c == call[r].conv
  <1>1. /\ at[r] = "cascade" /\ call[r].todo = {} /\ FinishRemoving(r, Held(r))
        /\ convs' = [convs EXCEPT ![c] = "deleted"]
        /\ seats' = seats \ Held(r)
        /\ messages' = {x \in messages : x.conv # c}
        /\ outbox' = {e \in outbox : e.conv # c \/ e.event \in published}
        /\ nextSeq' = nextSeq /\ lastRead' = lastRead /\ published' = published
        /\ lastEvent' = lastEvent /\ sends' = sends /\ acked' = acked /\ marked' = marked
    BY DEF DeleteCommit, OutboxWithout
  <1>2. Held(r) \in SUBSET Seats /\ TypeOK
    BY DEF Held, IInv
  <1>3. c \in Convs /\ convLock[c] = r /\ RequestOK(r)
    BY <1>1 DEF IInv, TransactionInv, RequestOK, CallTyped, CascadeComplete
  <1>4. /\ convs' \in [Convs -> {"unborn", "live", "deleted"}] /\ convs'[c] = "deleted"
        /\ \A d \in Convs : d # c => convs'[d] = convs[d]
    BY <1>1, <1>2, <1>3 DEF TypeOK
  <1>5. \A k \in seats' : k[1] # c /\ k \in seats
    BY <1>1, <1>2, <1>3 DEF RequestOK, CascadeComplete, Held, TypeOK
  <1>6. TypeOK'
    BY <1>1, <1>2, <1>4, RemovingEffect DEF TypeOK
  <1>7. \A q \in Reqs : RequestOK(q)'
    <2>0. /\ \A k \in Seats : seatLock[k] # r => seatLock'[k] = seatLock[k]
          /\ \A d \in Convs : convLock[d] # r => convLock'[d] = convLock[d]
          /\ RequestOK(r)'
          /\ \A q \in Reqs \ {r} :
                \/ /\ at'[q] = "idle" /\ RequestOK(q)'
                \/ /\ at'[q] = at[q]
                   /\ at[q] = "mark" => Seat(q) \notin Held(r)
                   /\ call'[q] = [call[q] EXCEPT !.todo = @ \ Held(r)]
      BY <1>1, <1>2, RemovingEffect
    <2>1. ASSUME NEW q \in Reqs, q # r, ~RequestOK(q)'
          PROVE  FALSE
      <3>0. /\ at'[q] = at[q]
            /\ at[q] = "mark" => Seat(q) \notin Held(r)
            /\ call'[q] = [call[q] EXCEPT !.todo = @ \ Held(r)]
        BY <2>0, <2>1
      <3>1. \A d \in Convs : convLock[d] # r => convs'[d] = convs[d]
        BY <1>3, <1>4
      <3> HIDE DEF c
      <3>2. messages' \subseteq messages
        BY <1>1
      <3> QED
        BY <1>1, <2>0, <2>1, <3>0, <3>1, <3>2, SurvivesRemoval
    <2> QED
      BY <2>0, <2>1
  <1>8. TransactionInv'
    BY <1>7 DEF TransactionInv, RequestOK
  <1> HIDE DEF c
  <1>9. \A x \in messages' : x \in messages /\ x.conv # c /\ x.conv \in Convs
    BY <1>1, <1>2 DEF TypeOK, Message
  <1>10. StoreConsistent'
    <2>1. \A k \in seats : k \in Seats /\ k[1] \in Convs
      BY <1>2 DEF TypeOK, Seats
    <2>2. \A a \in acked : a.conv \in Convs
      BY <1>2 DEF TypeOK, Ack
    <2> QED
      BY <1>1, <1>4, <1>5, <1>9, <2>1, <2>2 DEF IInv, RowsInv, StoreConsistent
  <1>11. SequencesGapFree'
    <2>1. ASSUME NEW d \in Convs, Live(d)'
          PROVE  /\ Live(d)
                 /\ {y \in messages' : y.conv = d} = {y \in messages : y.conv = d}
      BY <1>1, <1>4, <2>1
    <2> QED
      BY <1>1, <1>9, <2>1 DEF IInv, RowsInv, SequencesGapFree
  <1>12. AnswersStayTrue'
    <2>1. \A a \in acked : a.conv \in Convs
      BY <1>2 DEF TypeOK, Ack
    <2> QED
      BY <1>1, <1>4, <2>1 DEF IInv, RowsInv, AnswersStayTrue
  <1>13. OutboxMatchesMessages'
    BY <1>1, <1>9 DEF IInv, RowsInv, OutboxMatchesMessages
  <1>14. OneMessagePerKey' /\ EventsFollowSequence'
    BY <1>9 DEF IInv, RowsInv, OneMessagePerKey, EventsFollowSequence
  <1>15. NothingReadUnasked'
    BY <1>1, <1>5, <1>9 DEF IInv, RowsInv, NothingReadUnasked
  <1> QED
    BY <1>6, <1>8, <1>10, <1>11, <1>12, <1>13, <1>14, <1>15 DEF IInv, RowsInv

\* The target of a mark_read lies inside the log, so the marker stays there.
LEMMA MarkReadApplyKeeps ==
    ASSUME IInv, NEW r \in Reqs, MarkReadApply(r)
    PROVE  IInv'
  <1> DEFINE k == Seat(r)
             n == call[r].seq
  <1>1. /\ at[r] = "mark" /\ Finish(r)
        /\ lastRead' = [lastRead EXCEPT ![k] = LargerOf(lastRead[k], n)]
        /\ marked' = [marked EXCEPT ![k] = LargerOf(marked[k], n)]
        /\ UNCHANGED <<convs, nextSeq, seats, messages, outbox, published>>
        /\ lastEvent' = lastEvent /\ sends' = sends /\ acked' = acked
    BY DEF MarkReadApply, MarkerAfterRead
  <1>2. RequestOK(r) /\ TypeOK
    BY DEF IInv, TransactionInv, RequestOK
  <1>3. k \in Seats /\ n \in Nat /\ n < nextSeq[k[1]]
    BY <1>1, <1>2 DEF RequestOK, MarkBounded, TypeOK, Call
  <1>4. /\ seatLock' \in [Seats -> Reqs \cup {None}]
        /\ convLock' \in [Convs -> Reqs \cup {None}]
        /\ at' \in [Reqs -> Steps] /\ call' \in [Reqs -> Call]
        /\ \A q \in Reqs \ {r} : at'[q] = at[q] /\ call'[q] = call[q]
        /\ \A j \in Seats : seatLock[j] # r => seatLock'[j] = seatLock[j]
        /\ \A d \in Convs : convLock[d] # r => convLock'[d] = convLock[d]
        /\ RequestOK(r)'
    BY <1>1, <1>2, FinishEffect
  <1> HIDE DEF k, n
  <1>5. /\ lastRead' \in [Seats -> Nat] /\ marked' \in [Seats -> Nat]
        /\ \A j \in Seats \ {k} : lastRead'[j] = lastRead[j] /\ marked'[j] = marked[j]
        /\ \/ lastRead'[k] = lastRead[k] /\ marked'[k] >= marked[k]
           \/ lastRead'[k] = n /\ marked'[k] >= n
    BY <1>1, <1>2, <1>3 DEF TypeOK, LargerOf
  <1>6. TypeOK'
    BY <1>1, <1>2, <1>4, <1>5 DEF TypeOK
  <1>7. ASSUME NEW q \in Reqs, q # r
        PROVE  RequestOK(q)'
    <2>1. RequestOK(q) /\ at'[q] = at[q] /\ call'[q] = call[q]
      BY <1>4, <1>7 DEF IInv, TransactionInv, RequestOK
    <2>2. CallTyped(q)' /\ MarkBounded(q)' /\ CommitFresh(q)'
      BY <1>1, <2>1 DEF RequestOK, CallTyped, MarkBounded, CommitFresh
    <2>3. AdmittedPinned(q)'
      BY <1>1, <1>2, <1>4, <1>7, <2>1 DEF RequestOK, AdmittedPinned, TypeOK
    <2>4. NumberReserved(q)'
      BY <1>1, <1>4, <1>7, <2>1 DEF RequestOK, NumberReserved, CallTyped, Sending, Numbered
    <2>5. CascadeComplete(q)'
      BY <1>1, <1>2, <1>4, <1>7, <2>1 DEF RequestOK, CascadeComplete, CallTyped, TypeOK
    <2> QED
      BY <2>2, <2>3, <2>4, <2>5 DEF RequestOK
  <1>8. TransactionInv'
    BY <1>4, <1>7 DEF TransactionInv, RequestOK
  <1>9. StoreConsistent'
    <2>1. \A j \in Seats : lastRead'[j] < nextSeq'[j[1]]
      BY <1>1, <1>3, <1>5 DEF IInv, RowsInv, StoreConsistent
    <2> QED
      BY <1>1, <2>1 DEF IInv, RowsInv, StoreConsistent
  <1>10. NothingReadUnasked'
    <2>1. ASSUME NEW x \in messages, NEW v \in Users, <<x.conv, v>> \in seats,
                 x.seq <= lastRead'[<<x.conv, v>>]
          PROVE  x.sender = v \/ x.seq <= marked'[<<x.conv, v>>]
      <3> DEFINE j == <<x.conv, v>>
      <3>1. /\ j \in Seats /\ x.seq \in Nat
            /\ lastRead[j] \in Nat /\ marked[j] \in Nat /\ marked'[j] \in Nat
        BY <1>2, <1>5, <2>1 DEF TypeOK, Message
      <3>2. x.seq <= lastRead[j] => x.sender = v \/ x.seq <= marked[j]
        BY <2>1 DEF IInv, RowsInv, NothingReadUnasked
      <3> HIDE DEF j
      <3>3. CASE j # k
        <4>1. lastRead'[j] = lastRead[j] /\ marked'[j] = marked[j]
          BY <1>5, <3>1, <3>3
        <4> QED
          BY <2>1, <3>2, <4>1 DEF j
      <3>4. CASE j = k
        <4>1. x.seq <= lastRead'[k]
          BY <2>1, <3>4 DEF j
        <4>2. lastRead'[k] = n => x.seq <= n
          BY <4>1
        <4>3. CASE lastRead'[k] = lastRead[k] /\ marked'[k] >= marked[k]
          BY <3>1, <3>2, <3>4, <4>1, <4>3 DEF j
        <4>4. CASE lastRead'[k] = n /\ marked'[k] >= n
          BY <1>3, <3>1, <3>4, <4>2, <4>4 DEF j
        <4> QED
          BY <1>5, <4>3, <4>4
      <3> QED
        BY <3>3, <3>4 DEF j
    <2> QED
      BY <1>1, <2>1 DEF NothingReadUnasked
  <1>11. SequencesGapFree' /\ AnswersStayTrue' /\ OneMessagePerKey' /\ OutboxMatchesMessages'
         /\ EventsFollowSequence'
    BY <1>1 DEF IInv, RowsInv, SequencesGapFree, AnswersStayTrue, OneMessagePerKey,
       OutboxMatchesMessages, EventsFollowSequence
  <1> QED
    BY <1>6, <1>8, <1>9, <1>10, <1>11 DEF IInv, RowsInv

-----------------------------------------------------------------------------
(* Steps outside the requests modelled statement by statement.             *)

\* Open transactions do not notice new seats, as long as no cascade is under
\* way on their conversation.
LEMMA NewSeatsKeep ==
    ASSUME TypeOK, TransactionInv, NEW new \in SUBSET Seats, seats' = seats \cup new,
           UNCHANGED <<nextSeq, messages, locks, at, call, lastEvent>>,
           \A c \in Convs : Live(c) => Live(c)',
           \A q \in Reqs, k \in new : at[q] = "cascade" => k[1] # call[q].conv
    PROVE  TransactionInv'
  <1>1. ASSUME NEW q \in Reqs
        PROVE  RequestOK(q)'
    <2>1. RequestOK(q)
      BY DEF TransactionInv, RequestOK
    <2>2. CallTyped(q)' /\ AdmittedPinned(q)' /\ MarkBounded(q)'
      BY <2>1 DEF RequestOK, CallTyped, AdmittedPinned, MarkBounded
    <2>3. NumberReserved(q)' /\ CommitFresh(q)'
      BY <2>1 DEF RequestOK, NumberReserved, CommitFresh
    <2>4. CascadeComplete(q)'
      BY <2>1 DEF RequestOK, CascadeComplete, CallTyped
    <2> QED
      BY <2>2, <2>3, <2>4 DEF RequestOK
  <1> QED
    BY <1>1 DEF TransactionInv, RequestOK

\* A new conversation has no messages, and no answer speaks of it.
LEMMA CreateConversationKeeps ==
    ASSUME IInv, NEW c \in Convs, NEW creator \in Users, NEW members \in SUBSET Users,
           CreateConversation(c, creator, members)
    PROVE  IInv'
  <1> DEFINE new == {c} \X (members \cup {creator})
  <1>1. /\ convs[c] = "unborn" /\ convs' = [convs EXCEPT ![c] = "live"]
        /\ seats' = seats \cup new
        /\ UNCHANGED <<nextSeq, messages, locks, at, call, lastEvent>>
        /\ UNCHANGED <<lastRead, outbox, published, sends, acked, marked>>
    BY DEF CreateConversation
  <1>2. /\ TypeOK /\ TransactionInv /\ new \in SUBSET Seats
        /\ \A k \in new : k[1] = c
    BY DEF IInv, Seats
  <1>3. /\ convs' \in [Convs -> {"unborn", "live", "deleted"}] /\ convs'[c] = "live"
        /\ \A d \in Convs : d # c => convs'[d] = convs[d]
    BY <1>1, <1>2 DEF TypeOK
  <1> HIDE DEF new
  <1>4. TypeOK'
    BY <1>1, <1>2, <1>3 DEF TypeOK
  <1>5. TransactionInv'
    <2>1. \A q \in Reqs, k \in new : at[q] = "cascade" => k[1] # call[q].conv
      BY <1>1, <1>2 DEF TransactionInv, CascadeComplete
    <2>2. \A d \in Convs : Live(d) => Live(d)'
      BY <1>3
    <2> QED
      BY <1>1, <1>2, <2>1, <2>2, NewSeatsKeep
  <1>6. \A x \in messages : x.conv \in Convs /\ x.conv # c
    BY <1>1, <1>2 DEF TypeOK, Message, IInv, RowsInv, StoreConsistent
  <1>7. \A a \in acked : a.conv \in Convs /\ a.conv # c
    BY <1>1, <1>2 DEF TypeOK, Ack, IInv, RowsInv, StoreConsistent
  <1>8. \A k \in seats : k[1] \in Convs
    BY <1>2 DEF TypeOK, Seats
  <1>9. StoreConsistent'
    BY <1>1, <1>2, <1>3, <1>6, <1>7, <1>8 DEF IInv, RowsInv, StoreConsistent
  <1>10. SequencesGapFree'
    <2>1. ASSUME NEW d \in Convs, d # c, Live(d)'
          PROVE  /\ {x.seq : x \in {y \in messages' : y.conv = d}} = 1 .. nextSeq'[d] - 1
                 /\ \A x, y \in messages' :
                      x.conv = d /\ y.conv = d /\ x.seq = y.seq => x = y
      BY <1>1, <1>3, <2>1 DEF IInv, RowsInv, SequencesGapFree
    <2>2. /\ {x.seq : x \in {y \in messages' : y.conv = c}} = 1 .. nextSeq'[c] - 1
          /\ \A x, y \in messages' :
                x.conv = c /\ y.conv = c /\ x.seq = y.seq => x = y
      <3>1. nextSeq'[c] = 1
        BY <1>1 DEF IInv, RowsInv, StoreConsistent
      <3>2. {y \in messages' : y.conv = c} = {}
        BY <1>1, <1>6
      <3>3. 1 .. nextSeq'[c] - 1 = {}
        BY <3>1
      <3> QED
        BY <1>1, <1>6, <3>2, <3>3
    <2> QED
      BY <2>1, <2>2 DEF SequencesGapFree
  <1>11. AnswersStayTrue'
    BY <1>1, <1>3, <1>7 DEF IInv, RowsInv, AnswersStayTrue
  <1>12. OneMessagePerKey' /\ OutboxMatchesMessages' /\ EventsFollowSequence'
    BY <1>1 DEF IInv, RowsInv, OneMessagePerKey, OutboxMatchesMessages, EventsFollowSequence
  <1>13. NothingReadUnasked'
    BY <1>1, <1>2, <1>6 DEF IInv, RowsInv, NothingReadUnasked
  <1> QED
    BY <1>4, <1>5, <1>9, <1>10, <1>11, <1>12, <1>13 DEF IInv, RowsInv

\* A seat that returns starts with nothing read, in a channel nobody deletes.
LEMMA ReseatKeeps ==
    ASSUME IInv, NEW u \in Users, Reseat(u)
    PROVE  IInv'
  <1> DEFINE open == {c \in Channels : Live(c)}
             new == (open \X {u}) \ seats
  <1>1. /\ seats' = seats \cup new
        /\ lastRead' = [k \in Seats |-> IF k \in new THEN 0 ELSE lastRead[k]]
        /\ marked' = [k \in Seats |-> IF k \in new THEN 0 ELSE marked[k]]
        /\ UNCHANGED <<nextSeq, messages, locks, at, call, lastEvent>>
        /\ UNCHANGED <<convs, outbox, published, sends, acked>>
        /\ \A c \in open : ~BeingDeleted(c)
    BY DEF Reseat
  <1>2. /\ TypeOK /\ TransactionInv /\ new \in SUBSET Seats
        /\ \A k \in new : k[1] \in open
    BY ChannelsAssumption DEF IInv, Seats
  <1>3. \A c \in open : Live(c) /\ c \in Convs
    BY ChannelsAssumption
  <1> HIDE DEF new, open
  <1>4. /\ lastRead' \in [Seats -> Nat] /\ marked' \in [Seats -> Nat]
        /\ \A k \in new : lastRead'[k] = 0 /\ marked'[k] = 0
        /\ \A k \in Seats \ new : lastRead'[k] = lastRead[k] /\ marked'[k] = marked[k]
    BY <1>1, <1>2 DEF TypeOK
  <1>5. TypeOK'
    BY <1>1, <1>2, <1>4 DEF TypeOK
  <1>6. TransactionInv'
    <2>1. ASSUME NEW q \in Reqs, NEW k \in new, at[q] = "cascade", k[1] = call[q].conv
          PROVE  FALSE
      <3>1. convLock[k[1]] = q
        BY <1>2, <2>1 DEF TransactionInv, CascadeComplete
      <3> QED
        BY <1>1, <1>2, <2>1, <3>1 DEF BeingDeleted
    <2> QED
      BY <1>1, <1>2, <2>1, NewSeatsKeep
  <1>7. StoreConsistent'
    <2>1. \A k \in Seats : lastRead'[k] < nextSeq'[k[1]]
      <3>1. ASSUME NEW k \in Seats
            PROVE  lastRead'[k] < nextSeq[k[1]]
        <4>1. nextSeq[k[1]] \in Nat \ {0} /\ lastRead[k] < nextSeq[k[1]]
          BY <1>2 DEF TypeOK, Seats, IInv, RowsInv, StoreConsistent
        <4> QED
          BY <1>4, <4>1
      <3> QED
        BY <1>1, <3>1
    <2> QED
      BY <1>1, <1>2, <1>3, <2>1 DEF IInv, RowsInv, StoreConsistent
  <1>8. NothingReadUnasked'
    <2>1. ASSUME NEW x \in messages, NEW v \in Users, <<x.conv, v>> \in seats',
                 x.seq <= lastRead'[<<x.conv, v>>], x.sender # v
          PROVE  x.seq <= marked'[<<x.conv, v>>]
      <3> DEFINE k == <<x.conv, v>>
      <3>1. k \in Seats /\ x.seq \in Nat /\ x.seq > 0
        BY <1>2, <1>5, <2>1 DEF TypeOK, Message, IInv, RowsInv, StoreConsistent
      <3>2. k \notin new
        BY <1>4, <2>1, <3>1
      <3>3. k \in seats /\ lastRead'[k] = lastRead[k] /\ marked'[k] = marked[k]
        BY <1>1, <1>4, <2>1, <3>1, <3>2
      <3> QED
        BY <2>1, <3>3 DEF IInv, RowsInv, NothingReadUnasked
    <2> QED
      BY <1>1, <2>1 DEF NothingReadUnasked
  <1>9. SequencesGapFree' /\ AnswersStayTrue' /\ OneMessagePerKey' /\ OutboxMatchesMessages'
         /\ EventsFollowSequence'
    BY <1>1 DEF IInv, RowsInv, SequencesGapFree, AnswersStayTrue, OneMessagePerKey,
       OutboxMatchesMessages, EventsFollowSequence
  <1> QED
    BY <1>5, <1>6, <1>7, <1>8, <1>9 DEF IInv, RowsInv

\* Stamping events as published relieves them of having a message.
LEMMA MarkPublishedKeeps ==
    ASSUME IInv, NEW ids \in SUBSET Unpublished, MarkPublished(ids)
    PROVE  IInv'
  <1>1. /\ published' = published \cup ids
        /\ UNCHANGED <<convs, nextSeq, seats, lastRead, messages, outbox>>
        /\ UNCHANGED <<locks, at, call, lastEvent, sends, acked, marked>>
    BY DEF MarkPublished
  <1>2. ids \subseteq Nat
    BY DEF Unpublished, IInv, TypeOK, Event
  <1>3. TypeOK'
    BY <1>1, <1>2 DEF IInv, TypeOK
  <1>4. TransactionInv'
    BY <1>1 DEF IInv, TransactionInv, CallTyped, AdmittedPinned, NumberReserved,
       CommitFresh, CascadeComplete, MarkBounded
  <1>5. OutboxMatchesMessages'
    BY <1>1 DEF IInv, RowsInv, OutboxMatchesMessages
  <1>6. StoreConsistent' /\ SequencesGapFree' /\ AnswersStayTrue' /\ OneMessagePerKey'
        /\ EventsFollowSequence' /\ NothingReadUnasked'
    BY <1>1 DEF IInv, RowsInv, StoreConsistent, SequencesGapFree, AnswersStayTrue,
       OneMessagePerKey, EventsFollowSequence, NothingReadUnasked
  <1> QED
    BY <1>3, <1>4, <1>5, <1>6 DEF IInv, RowsInv

-----------------------------------------------------------------------------
(* The theorems.                                                           *)

\* IInv is inductive: every step of every request keeps it.
LEMMA NextKeeps == IInv /\ [Next]_vars => IInv'
  <1> SUFFICES ASSUME IInv, [Next]_vars PROVE IInv'
    OBVIOUS
  <1>1. ASSUME NEW r \in Reqs, Begin(r)
        PROVE  IInv'
    BY <1>1, KickBeginKeeps, DeleteBeginKeeps, SendBeginKeeps, MarkReadBeginKeeps DEF Begin
  <1>2. ASSUME NEW r \in Reqs, Proceed(r)
        PROVE  IInv'
    BY <1>2, LockNextSeatKeeps, KickCommitKeeps, DeleteLockKeeps, DeleteCommitKeeps,
       LockParticipantKeeps, FindExistingKeeps, TakeSeqKeeps, InsertKeeps,
       SendCommitKeeps, MarkReadApplyKeeps DEF Proceed
  <1>3. ASSUME NEW r \in Reqs, Rollback(r)
        PROVE  IInv'
    BY <1>3, RollbackKeeps DEF Rollback
  <1>4. ASSUME NEW c \in Convs, NEW creator \in Users, NEW members \in SUBSET Users,
               CreateConversation(c, creator, members)
        PROVE  IInv'
    BY <1>4, CreateConversationKeeps
  <1>5. ASSUME NEW u \in Users, Reseat(u)
        PROVE  IInv'
    BY <1>5, ReseatKeeps
  <1>6. ASSUME NEW ids \in SUBSET Unpublished, MarkPublished(ids)
        PROVE  IInv'
    BY <1>6, MarkPublishedKeeps
  <1>7. CASE UNCHANGED vars
    BY <1>7 DEF vars, IInv, TypeOK, TransactionInv, CallTyped, AdmittedPinned,
       NumberReserved, CommitFresh, CascadeComplete, MarkBounded, RowsInv,
       StoreConsistent, SequencesGapFree, AnswersStayTrue, OneMessagePerKey,
       OutboxMatchesMessages, EventsFollowSequence, NothingReadUnasked
  <1> QED
    BY <1>1, <1>2, <1>3, <1>4, <1>5, <1>6, <1>7 DEF Next

\* Whatever requests run, in whatever order their statements interleave and
\* wherever they roll back, the inductive invariant holds.
THEOREM Invariance == Spec => []IInv
  BY InitEstablishes, NextKeeps, PTL DEF Spec

\* Every variable keeps its type; in particular the number of a request is
\* always one that next_seq has handed out.
THEOREM TypeCorrect == Spec => []TypeOK
  <1>1. IInv => TypeOK
    BY DEF IInv
  <1> QED
    BY <1>1, Invariance, PTL

\* send_message numbers the messages of a conversation 1, 2, 3, ... without a
\* gap and without a repetition.
THEOREM GapFree == Spec => []SequencesGapFree
  <1>1. IInv => SequencesGapFree
    BY DEF IInv, RowsInv
  <1> QED
    BY <1>1, Invariance, PTL

\* What send_message answered, to the first request or to a retry, stays true.
THEOREM AnswersTrue == Spec => []AnswersStayTrue
  <1>1. IInv => AnswersStayTrue
    BY DEF IInv, RowsInv
  <1> QED
    BY <1>1, Invariance, PTL

\* An idempotency key names at most one stored message of its conversation.
THEOREM KeysUnique == Spec => []OneMessagePerKey
  <1>1. IInv => OneMessagePerKey
    BY DEF IInv, RowsInv
  <1> QED
    BY <1>1, Invariance, PTL

\* Messages and outbox events are written, and removed, together.
THEOREM OutboxTransactional == Spec => []OutboxMatchesMessages
  <1>1. IInv => OutboxMatchesMessages
    BY DEF IInv, RowsInv
  <1> QED
    BY <1>1, Invariance, PTL

\* The order of event ids is the order of the log in every conversation.
THEOREM EventOrder == Spec => []EventsFollowSequence
  <1>1. IInv => EventsFollowSequence
    BY DEF IInv, RowsInv
  <1> QED
    BY <1>1, Invariance, PTL

\* No message of someone else is read that its reader did not ask for.
THEOREM UnreadStaysUnread == Spec => []NothingReadUnasked
  <1>1. IInv => NothingReadUnasked
    BY DEF IInv, RowsInv
  <1> QED
    BY <1>1, Invariance, PTL

\* A read marker never points past the end of its conversation.
THEOREM MarkersInside == Spec => []MarkersWithinLog
  <1>1. IInv => MarkersWithinLog
    BY DEF IInv, RowsInv, StoreConsistent, TypeOK, MarkersWithinLog
  <1> QED
    BY <1>1, Invariance, PTL

-----------------------------------------------------------------------------
(* Properties of steps.                                                    *)

\* No statement but the two that write a marker, and the seat that is given
\* anew, changes a marker; those two move it forward.
LEMMA MarkersStep ==
    IInv /\ [Next]_vars => \A k \in seats \cap seats' : lastRead'[k] >= lastRead[k]
  <1> SUFFICES ASSUME IInv, [Next]_vars, NEW k \in seats \cap seats'
               PROVE  lastRead'[k] >= lastRead[k]
    OBVIOUS
  <1>1. k \in Seats /\ lastRead \in [Seats -> Nat] /\ call \in [Reqs -> Call]
    BY DEF IInv, TypeOK
  <1>2. CASE lastRead' = lastRead
    BY <1>1, <1>2
  <1>3. ASSUME NEW r \in Reqs, SendCommit(r)
        PROVE  lastRead'[k] >= lastRead[k]
    <2>1. call[r].seq \in Nat
      BY <1>1 DEF Call
    <2>2. \/ lastRead'[k] = lastRead[k]
          \/ k = Seat(r) /\ lastRead'[k] = MarkerAfterSend(r)
      BY <1>1, <1>3 DEF SendCommit
    <2> QED
      BY <1>1, <2>1, <2>2 DEF MarkerAfterSend
  <1>4. ASSUME NEW r \in Reqs, MarkReadApply(r)
        PROVE  lastRead'[k] >= lastRead[k]
    <2>1. call[r].seq \in Nat
      BY <1>1 DEF Call
    <2>2. \/ lastRead'[k] = lastRead[k]
          \/ k = Seat(r) /\ lastRead'[k] = MarkerAfterRead(r)
      BY <1>1, <1>4 DEF MarkReadApply
    <2> QED
      BY <1>1, <2>1, <2>2 DEF MarkerAfterRead, LargerOf
  <1>5. ASSUME NEW u \in Users, Reseat(u)
        PROVE  lastRead'[k] >= lastRead[k]
    BY <1>1, <1>5 DEF Reseat
  <1>6. ASSUME NEW r \in Reqs, Begin(r)
        PROVE  lastRead' = lastRead
    BY <1>6, Zenon DEF Begin, KickBegin, DeleteBegin, SendBegin, MarkReadBegin
  <1>7. ASSUME NEW r \in Reqs, Proceed(r)
        PROVE  lastRead' = lastRead \/ SendCommit(r) \/ MarkReadApply(r)
    BY <1>7, Zenon DEF Proceed, LockNextSeat, KickCommit, DeleteLockConversation, DeleteCommit,
       SendLockParticipant, SendFindExisting, SendTakeSeq, SendInsert
  <1>8. ASSUME NEW r \in Reqs, Rollback(r)
        PROVE  lastRead' = lastRead
    BY <1>8, Zenon DEF Rollback
  <1>9. ASSUME NEW c \in Convs, NEW creator \in Users, NEW members \in SUBSET Users,
               CreateConversation(c, creator, members)
        PROVE  lastRead' = lastRead
    BY <1>9, Zenon DEF CreateConversation
  <1>10. ASSUME NEW ids \in SUBSET Unpublished, MarkPublished(ids)
         PROVE  lastRead' = lastRead
    BY <1>10 DEF MarkPublished
  <1>11. CASE UNCHANGED vars
    BY <1>2, <1>11 DEF vars
  <1> QED
    BY <1>2, <1>3, <1>4, <1>5, <1>6, <1>7, <1>8, <1>9, <1>10, <1>11, Zenon DEF Next

\* Marking as read and sending never take back what was read.
THEOREM MarkersAdvance == Spec => MarkersNeverRewind
  <1>1. IInv /\ [Next]_vars => [\A k \in seats \cap seats' : lastRead'[k] >= lastRead[k]]_vars
    BY MarkersStep
  <1> QED
    BY <1>1, Invariance, PTL DEF Spec, MarkersNeverRewind

\* Only the commit of a send adds a message.
LEMMA OnlySendsAdd ==
    ASSUME [Next]_vars, NEW x \in messages' \ messages
    PROVE  \E r \in Reqs : SendCommit(r)
  <1>1. messages' # messages
    OBVIOUS
  <1>2. ASSUME NEW r \in Reqs, Begin(r)
        PROVE  messages' = messages
    BY <1>2, Zenon DEF Begin, KickBegin, DeleteBegin, SendBegin, MarkReadBegin
  <1>3. ASSUME NEW r \in Reqs, Proceed(r)
        PROVE  messages' = messages \/ SendCommit(r) \/ DeleteCommit(r)
    BY <1>3, Zenon DEF Proceed, LockNextSeat, KickCommit, DeleteLockConversation,
       SendLockParticipant, SendFindExisting, SendTakeSeq, SendInsert, MarkReadApply
  <1>4. ASSUME NEW r \in Reqs, DeleteCommit(r)
        PROVE  messages' \subseteq messages
    BY <1>4 DEF DeleteCommit
  <1>5. ASSUME NEW r \in Reqs, Rollback(r)
        PROVE  messages' = messages
    BY <1>5, Zenon DEF Rollback
  <1>6. ASSUME NEW c \in Convs, NEW creator \in Users, NEW members \in SUBSET Users,
               CreateConversation(c, creator, members)
        PROVE  messages' = messages
    BY <1>6, Zenon DEF CreateConversation
  <1>7. ASSUME NEW u \in Users, Reseat(u)
        PROVE  messages' = messages
    BY <1>7, Zenon DEF Reseat
  <1>8. ASSUME NEW ids \in SUBSET Unpublished, MarkPublished(ids)
        PROVE  messages' = messages
    BY <1>8, Zenon DEF MarkPublished
  <1>9. ~ UNCHANGED vars
    BY <1>1, Zenon DEF vars
  <1>10. \A r \in Reqs : ~ DeleteCommit(r)
    BY <1>4
  <1> QED
    BY <1>1, <1>2, <1>3, <1>5, <1>6, <1>7, <1>8, <1>9, <1>10, Zenon DEF Next

\* The seat lock that a send takes with its first statement is still its own
\* when it commits, so no removal can be on its way.
LEMMA CommitSeated ==
    ASSUME IInv, [Next]_vars, NEW x \in messages' \ messages
    PROVE  LET k == <<x.conv, x.sender>>
           IN  /\ k \in seats /\ k \in seats'
               /\ \A r \in Reqs : at[r] \in {"kick", "cascade"} => seatLock[k] # r
  <1>1. PICK r \in Reqs : SendCommit(r)
    BY OnlySendsAdd
  <1>2. x.conv = call[r].conv /\ x.sender = call[r].user
    BY <1>1 DEF SendCommit
  <1>3. <<x.conv, x.sender>> = Seat(r)
    BY <1>2
  <1>4. at[r] = "sendCommit" /\ seats' = seats
    BY <1>1 DEF SendCommit
  <1>5. Seat(r) \in seats /\ seatLock[Seat(r)] = r
    BY <1>4 DEF IInv, TransactionInv, AdmittedPinned, Admitted
  <1> QED
    BY <1>3, <1>4, <1>5

\* A send and the removal of its sender have only two orders.
THEOREM SendersSeated == Spec => SenderSeatedAtCommit
  <1>1. IInv /\ [Next]_vars =>
          [\A x \in messages' \ messages :
             LET k == <<x.conv, x.sender>> IN k \in seats /\ k \in seats'
                /\ \A r \in Reqs : at[r] \in {"kick", "cascade"} => seatLock[k] # r]_vars
    BY CommitSeated
  <1> QED
    BY <1>1, Invariance, PTL DEF Spec, SenderSeatedAtCommit

-----------------------------------------------------------------------------
(* The log of a conversation.                                              *)

\* The entry that a stored message is in its log.
EntryOf(x) == [pos |-> x.seq, sender |-> x.sender, cid |-> x.cid]

LEMMA LogEntries ==
    ASSUME NEW c \in Convs
    PROVE  LogOf(c) = {EntryOf(x) : x \in {y \in messages : y.conv = c}}
  BY DEF LogOf, EntryOf

\* A conversation that does not exist has no entries.
LEMMA ClosedIsEmpty ==
    ASSUME IInv, NEW c \in Convs, ~Live(c)
    PROVE  LogOf(c) = {}
  BY DEF IInv, RowsInv, StoreConsistent, LogOf

\* Positions count: the next number of a conversation is one more than its log
\* has entries, because numbering has no gap and no repetition.
LEMMA LogCardinality ==
    ASSUME IInv, NEW c \in Convs, Live(c)
    PROVE  Cardinality(LogOf(c)) = nextSeq[c] - 1
  <1> DEFINE n == nextSeq[c] - 1
             f == [e \in LogOf(c) |-> e.pos]
  <1>1. n \in Nat /\ nextSeq[c] \in Nat \ {0}
    BY DEF IInv, TypeOK
  <1>2. \A x \in messages : x.seq \in Nat
    BY DEF IInv, TypeOK, Message
  <1>3. \A e \in LogOf(c) : e.pos \in 1 .. n
    BY DEF IInv, RowsInv, SequencesGapFree, LogOf
  <1>4. ASSUME NEW i \in 1 .. n
        PROVE  \E e \in LogOf(c) : e.pos = i
    <2>1. PICK x \in messages : x.conv = c /\ x.seq = i
      BY DEF IInv, RowsInv, SequencesGapFree
    <2>2. EntryOf(x) \in LogOf(c) /\ EntryOf(x).pos = i
      BY <2>1, LogEntries DEF EntryOf
    <2> QED
      BY <2>2
  <1>5. \A d, e \in LogOf(c) : d.pos = e.pos => d = e
    BY DEF IInv, RowsInv, SequencesGapFree, LogOf
  <1>6. f \in Bijection(LogOf(c), 1 .. n)
    <2>1. f \in [LogOf(c) -> 1 .. n]
      BY <1>3
    <2> QED
      BY <1>4, <1>5, <2>1 DEF Bijection, Injection, Surjection, IsInjective
  <1>7. ExistsBijection(1 .. n, LogOf(c))
    BY <1>6, Fun_ExistsBijSymmetric DEF ExistsBijection
  <1>8. IsFiniteSet(1 .. n) /\ Cardinality(1 .. n) = n
    <2>1. 1 \in Int /\ n \in Int /\ n - 1 + 1 = n /\ (1 > n => n = 0)
      BY <1>1
    <2> HIDE DEF n
    <2> QED
      BY <2>1, FS_Interval
  <1> QED
    BY <1>7, <1>8, FS_Bijection

\* ConversationLog counts with the same operator.
LEMMA SameCount ==
    ASSUME NEW S
    PROVE  Log!Cardinality(S) = Cardinality(S)
  BY DEF Log!Cardinality, Cardinality

-----------------------------------------------------------------------------
(* The steps.                                                              *)

\* Conversations, messages and answers are all that a log shows.
LEMMA Invisible ==
    ASSUME UNCHANGED <<convs, messages, acked>>
    PROVE  UNCHANGED Log!logVars
  BY DEF Log!logVars, LogOf

\* A conversation is created with an empty log.
LEMMA CreateOpens ==
    ASSUME NEW c \in Convs, NEW creator \in Users, NEW members \in SUBSET Users,
           IInv, CreateConversation(c, creator, members)
    PROVE  Log!LogNext
  <1>1. UNCHANGED <<messages, acked>> /\ convs' = [convs EXCEPT ![c] = "live"]
    BY DEF CreateConversation
  <1>2. {d \in Convs : Live(d)}' = {d \in Convs : Live(d)} \cup {c}
    BY <1>1 DEF IInv, TypeOK
  <1>3. UNCHANGED [d \in Convs |-> LogOf(d)]
    BY <1>1 DEF LogOf
  <1>4. Log!Open(c)
    BY <1>1, <1>2, <1>3 DEF Log!Open
  <1> QED
    BY <1>4 DEF Log!LogNext

\* A deleted channel takes its log along.
LEMMA DeleteDiscards ==
    ASSUME NEW r \in Reqs, IInv, DeleteCommit(r)
    PROVE  Log!LogNext
  <1>1. PICK c \in Convs : c = call[r].conv
    BY DEF DeleteCommit, IInv, TransactionInv, CallTyped
  <1>2. /\ convs' = [convs EXCEPT ![c] = "deleted"]
        /\ messages' = {x \in messages : x.conv # c}
        /\ UNCHANGED acked
    BY <1>1 DEF DeleteCommit
  <1>3. {d \in Convs : Live(d)}' = {d \in Convs : Live(d)} \ {c}
    BY <1>1, <1>2 DEF IInv, TypeOK
  <1>4. (LogOf(c))' = {} /\ \A d \in Convs \ {c} : (LogOf(d))' = LogOf(d)
    BY <1>2 DEF LogOf
  <1>5. [d \in Convs |-> LogOf(d)]' = [[d \in Convs |-> LogOf(d)] EXCEPT ![c] = {}]
    BY <1>1, <1>4
  <1>6. Log!Discard(c)
    BY <1>2, <1>3, <1>5 DEF Log!Discard
  <1> QED
    BY <1>1, <1>6 DEF Log!LogNext

\* A send whose key is stored is answered with the entry of that key.
LEMMA FindRetries ==
    ASSUME NEW r \in Reqs, IInv, SendFindExisting(r), acked' # acked
    PROVE  Log!LogNext
  <1> DEFINE c == call[r].conv
             m == call[r].cid
  <1>1. c \in Convs /\ m \in ClientIds /\ Live(c)
    BY DEF SendFindExisting, IInv, TypeOK, TransactionInv, CallTyped, AdmittedPinned,
       Sending, Admitted, RowsInv, StoreConsistent
  <1>2. UNCHANGED <<convs, messages>>
    BY DEF SendFindExisting
  <1>3. PICK x \in Stored(c, m) : Answer(r, x.seq, FALSE)
    BY DEF SendFindExisting
  <1>4. EntryOf(x) \in LogOf(c) /\ EntryOf(x).cid = m /\ EntryOf(x).pos = x.seq
    BY <1>1, <1>3, LogEntries DEF EntryOf
  <1>5. Log!MayReport(c, m, EntryOf(x).pos, FALSE)
    BY <1>3, <1>4 DEF Log!MayReport, Answer
  <1>6. UNCHANGED <<{d \in Convs : Live(d)}, [d \in Convs |-> LogOf(d)]>>
    BY <1>2 DEF LogOf
  <1>7. Log!Retry(c, m)
    BY <1>1, <1>4, <1>5, <1>6 DEF Log!Retry
  <1> QED
    BY <1>1, <1>7 DEF Log!LogNext

\* The commit of a send appends its key at the next position: the key is new and
\* the number it reserved is still the next one.
LEMMA CommitAppends ==
    ASSUME NEW r \in Reqs, IInv, SendCommit(r)
    PROVE  Log!LogNext
  <1>1. PICK c \in Convs, u \in Users, m \in ClientIds, s \in Nat, e \in Nat :
           /\ c = call[r].conv /\ u = call[r].user /\ m = call[r].cid
           /\ s = call[r].seq /\ e = call[r].event
           /\ Live(c) /\ s = nextSeq[c] /\ Stored(c, m) = {}
    <2>1. at[r] = "sendCommit" /\ call[r] \in Call
      BY DEF SendCommit, IInv, TypeOK
    <2>2. /\ call[r].conv \in Convs /\ call[r].user \in Users
          /\ call[r].cid \in ClientIds /\ call[r].seq = nextSeq[call[r].conv]
          /\ Stored(call[r].conv, call[r].cid) = {} /\ Seat(r) \in seats
      BY <2>1 DEF IInv, TransactionInv, CallTyped, AdmittedPinned, NumberReserved,
         CommitFresh, Sending, Admitted, Numbered
    <2>3. Live(call[r].conv)
      BY <2>2 DEF IInv, RowsInv, StoreConsistent
    <2>4. call[r].seq \in Nat /\ call[r].event \in Nat
      BY <2>1 DEF Call
    <2> QED
      BY <2>2, <2>3, <2>4
  <1> DEFINE x == [conv |-> c, sender |-> u, seq |-> s, cid |-> m, event |-> e]
  <1>2. messages' = messages \cup {x} /\ UNCHANGED convs /\ Answer(r, s, TRUE)
    BY <1>1 DEF SendCommit
  <1>3. (LogOf(c))' = LogOf(c) \cup {[pos |-> s, sender |-> u, cid |-> m]}
    <2>1. {y \in messages' : y.conv = c} = {y \in messages : y.conv = c} \cup {x}
      BY <1>2
    <2>2. EntryOf(x) = [pos |-> s, sender |-> u, cid |-> m]
      BY DEF EntryOf
    <2> QED
      BY <2>1, <2>2 DEF LogOf, EntryOf
  <1>4. \A d \in Convs \ {c} : (LogOf(d))' = LogOf(d)
    BY <1>2 DEF LogOf
  <1>5. Log!Cardinality(LogOf(c)) + 1 = s
    BY <1>1, SameCount, LogCardinality DEF IInv, TypeOK
  <1>6. \A y \in LogOf(c) : y.cid # m
    BY <1>1 DEF LogOf
  <1>7. Log!MayReport(c, m, s, TRUE)
    BY <1>1, <1>2 DEF Log!MayReport, Answer
  <1>8. UNCHANGED {d \in Convs : Live(d)}
    BY <1>2
  <1>9. [d \in Convs |-> LogOf(d)]' =
           [[d \in Convs |-> LogOf(d)] EXCEPT
              ![c] = @ \cup {[pos |-> s, sender |-> u, cid |-> m]}]
    BY <1>1, <1>3, <1>4
  <1>10. Log!Append(c, u, m)
    BY <1>1, <1>5, <1>6, <1>7, <1>8, <1>9 DEF Log!Append
  <1> QED
    BY <1>1, <1>10 DEF Log!LogNext

\* Every step of the store is a step of one log, or changes no log.
LEMMA StepRefines == IInv /\ [Next]_vars => [Log!LogNext]_(Log!logVars)
  <1> SUFFICES ASSUME IInv, [Next]_vars
               PROVE  Log!LogNext \/ UNCHANGED Log!logVars
    OBVIOUS
  <1>1. ASSUME NEW r \in Reqs, Begin(r)
        PROVE  UNCHANGED <<convs, messages, acked>>
    BY <1>1, Zenon DEF Begin, KickBegin, DeleteBegin, SendBegin, MarkReadBegin
  <1>2. ASSUME NEW r \in Reqs, Proceed(r)
        PROVE  \/ UNCHANGED <<convs, messages, acked>>
               \/ DeleteCommit(r) \/ SendCommit(r) \/ SendFindExisting(r)
    BY <1>2, Zenon DEF Proceed, LockNextSeat, KickCommit, DeleteLockConversation,
       SendLockParticipant, SendTakeSeq, SendInsert, MarkReadApply
  <1>3. ASSUME NEW r \in Reqs, SendFindExisting(r), acked' = acked
        PROVE  UNCHANGED <<convs, messages, acked>>
    BY <1>3, Zenon DEF SendFindExisting
  <1>4. ASSUME NEW r \in Reqs, Rollback(r)
        PROVE  UNCHANGED <<convs, messages, acked>>
    BY <1>4, Zenon DEF Rollback
  <1>5. ASSUME NEW u \in Users, Reseat(u)
        PROVE  UNCHANGED <<convs, messages, acked>>
    BY <1>5, Zenon DEF Reseat
  <1>6. ASSUME NEW ids \in SUBSET Unpublished, MarkPublished(ids)
        PROVE  UNCHANGED <<convs, messages, acked>>
    BY <1>6, Zenon DEF MarkPublished
  <1>7. ASSUME UNCHANGED vars
        PROVE  UNCHANGED <<convs, messages, acked>>
    BY <1>7, Zenon DEF vars
  <1>8. \/ UNCHANGED <<convs, messages, acked>>
        \/ \E r \in Reqs : \/ DeleteCommit(r) \/ SendCommit(r)
                           \/ SendFindExisting(r) /\ acked' # acked
        \/ \E c \in Convs, creator \in Users, members \in SUBSET Users :
              CreateConversation(c, creator, members)
    BY <1>1, <1>2, <1>3, <1>4, <1>5, <1>6, <1>7, Zenon DEF Next
  <1> QED
    BY <1>8, Invisible, CreateOpens, DeleteDiscards, FindRetries, CommitAppends

\* The empty database shows the empty logs.
LEMMA InitRefines == Init => Log!LogInit
  BY DEF Init, Log!LogInit, LogOf

\* For any number of users, conversations, keys and concurrent requests, what
\* clients see of the store is one append-only log per conversation, in which a
\* key has one position and every answer reports the true one.
THEOREM StoreImplementsLog == Spec => ImplementsLog
  BY InitRefines, StepRefines, Invariance, PTL DEF Spec, ImplementsLog, Log!LogSpec
=============================================================================
