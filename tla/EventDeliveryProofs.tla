------------------------- MODULE EventDeliveryProofs -------------------------
(***************************************************************************)
(* Proofs about EventDelivery, for all numbers of clients and events and   *)
(* all sizes of batches, subscriptions, pages and memories.                *)
(***************************************************************************)
EXTENDS EventDelivery, SumProofs

\* What TypeOK leaves open: the shapes of the values that it bounds, and that
\* the events a connection holds are stored.
Shapes ==
    /\ inbox \in [Clients -> Seq(Events)]
    /\ seen \in [Clients -> Seq(Events)]
    /\ got \in [Clients -> SUBSET Events]
    /\ last \in [Clients -> Nat]
    /\ owed \in [Clients -> SUBSET Events]
    /\ behind \in [Clients -> SUBSET Events]
    /\ late \in [Clients -> Nat]
    /\ \A c \in Clients : /\ conn[c].page \subseteq Stored
                          /\ conn[c].at = "sending" => conn[c].cur \in Stored

\* Nothing is owed to a client without access, nor what its connection
\* remembers having sent; and between two sends a connection holds no event.
Owing(c) ==
    /\ ~access[c] => owed[c] = {}
    /\ Range(seen[c]) \cap owed[c] = {}
    /\ conn[c].at # "sending" => conn[c].cur = 0

\* A connection vets before it sends, so at most that one send comes late.
Vetted(c) ==
    /\ late[c] <= 1
    /\ MaySend(c) \/ conn[c].at = "sending" => late[c] = 0

\* What a streaming connection has not told its client.
Streams(c) ==
    conn[c].at \in {"pump", "sending"} =>
        \A e \in owed[c] : OnItsWay(c, e) \/ (e \in behind[c] /\ histories[c] # "read")

\* The inductive invariant.
IInv ==
    /\ TypeOK
    /\ Shapes
    /\ \A c \in Clients : Owing(c) /\ Vetted(c) /\ Streams(c)

-----------------------------------------------------------------------------
(* Events and sequences of them.                                           *)

\* Sets of events are finite and have a least and a greatest element.
LEMMA EventSets ==
    ASSUME NEW S, S \subseteq Events
    PROVE  /\ IsFiniteSet(S) /\ S \subseteq Nat \ {0} /\ Cardinality(S) \in Nat
           /\ S # {} => /\ Min(S) \in S /\ \A e \in S : Min(S) <= e
                        /\ Max(S) \in S /\ \A e \in S : e <= Max(S)
  <1>1. MaxEvents \in Nat
    BY SizesAssumption
  <1>2. IsFiniteSet(Events) /\ Events \subseteq Nat \ {0}
    BY <1>1, FS_Interval DEF Events
  <1>3. IsFiniteSet(S) /\ S \in SUBSET Int /\ S \subseteq Nat \ {0}
    <2>1. IsFiniteSet(S)
      BY <1>2, FS_Subset
    <2>2. S \subseteq Nat \ {0}
      BY <1>2
    <2> QED
      BY <2>1, <2>2
  <1>4. Cardinality(S) \in Nat
    BY <1>3, FS_CardinalityType
  <1>5. ASSUME S # {}
        PROVE  /\ Min(S) \in S /\ \A e \in S : Min(S) <= e
               /\ Max(S) \in S /\ \A e \in S : Max(S) >= e
    BY <1>3, <1>5, Extremes
  <1>6. ASSUME S # {}, NEW e \in S
        PROVE  e <= Max(S)
    <2>1. e \in Int /\ Max(S) \in Int /\ Max(S) >= e
      BY <1>3, <1>5, <1>6
    <2> QED
      BY <2>1
  <1> QED
    BY <1>3, <1>4, <1>5, <1>6

\* What appending adds.
LEMMA AppendAdds ==
    ASSUME NEW S, NEW s \in Seq(S), NEW e \in S
    PROVE  /\ Append(s, e) \in Seq(S) /\ Len(Append(s, e)) = Len(s) + 1
           /\ Range(Append(s, e)) = Range(s) \cup {e}
  <1>1. /\ Append(s, e) \in Seq(S) /\ Len(Append(s, e)) = Len(s) + 1 /\ Len(s) \in Nat
        /\ \A i \in 1..Len(s) : Append(s, e)[i] = s[i]
        /\ Append(s, e)[Len(s) + 1] = e
    OBVIOUS
  <1>2. DOMAIN s = 1..Len(s) /\ DOMAIN Append(s, e) = 1..(Len(s) + 1)
    BY <1>1
  <1>3. 1..(Len(s) + 1) = (1..Len(s)) \cup {Len(s) + 1}
    BY <1>1
  <1> QED
    BY <1>1, <1>2, <1>3 DEF Range

\* What taking the head leaves.
LEMMA TailLeaves ==
    ASSUME NEW S, NEW s \in Seq(S), s # <<>>
    PROVE  /\ Tail(s) \in Seq(S) /\ Len(Tail(s)) = Len(s) - 1 /\ Head(s) \in S
           /\ Range(s) = {Head(s)} \cup Range(Tail(s))
  <1>1. /\ Tail(s) \in Seq(S) /\ Len(Tail(s)) = Len(s) - 1 /\ Len(s) \in Nat \ {0}
        /\ \A i \in 1..(Len(s) - 1) : Tail(s)[i] = s[i + 1]
        /\ Head(s) = s[1]
    OBVIOUS
  <1>2. DOMAIN s = 1..Len(s) /\ DOMAIN Tail(s) = 1..(Len(s) - 1) /\ s[1] \in S
    BY <1>1
  <1>3. Range(s) \subseteq {Head(s)} \cup Range(Tail(s))
    <2> SUFFICES ASSUME NEW i \in 1..Len(s), i # 1
                 PROVE  s[i] \in Range(Tail(s))
      BY <1>1, <1>2 DEF Range
    <2>1. i - 1 \in 1..(Len(s) - 1) /\ s[i] = Tail(s)[i - 1]
      BY <1>1
    <2> QED
      BY <1>2, <2>1 DEF Range
  <1>4. Range(Tail(s)) \subseteq Range(s)
    <2> SUFFICES ASSUME NEW i \in 1..(Len(s) - 1)
                 PROVE  Tail(s)[i] \in Range(s)
      BY <1>2 DEF Range
    <2>1. i + 1 \in 1..Len(s) /\ Tail(s)[i] = s[i + 1]
      BY <1>1
    <2> QED
      BY <1>2, <2>1 DEF Range
  <1>5. Head(s) \in Range(s)
    <2>1. 1 \in 1..Len(s)
      BY <1>1
    <2> QED
      BY <1>1, <1>2, <2>1 DEF Range
  <1> QED
    BY <1>1, <1>2, <1>3, <1>4, <1>5

-----------------------------------------------------------------------------
(* Steps that concern one client.                                          *)

\* The values of one client.
ClientOK(c) ==
    /\ conn[c] \in Connection /\ conn[c].page \subseteq Stored
    /\ conn[c].at = "sending" => conn[c].cur \in Stored
    /\ inbox[c] \in Seq(Events) /\ seen[c] \in Seq(Events)
    /\ Range(inbox[c]) \cup Range(seen[c]) \cup got[c] \subseteq Stored
    /\ Len(inbox[c]) <= HubCapacity /\ Len(seen[c]) <= SeenCap
    /\ got[c] \in SUBSET Events
    /\ last[c] \in Nat /\ last[c] \in got[c] \cup {0}
    /\ behind[c] \in SUBSET Events /\ owed[c] \in SUBSET Events
    /\ behind[c] \subseteq owed[c] /\ owed[c] \subseteq Stored
    /\ late[c] \in Nat
    /\ lagged[c] \in BOOLEAN /\ live[c] \in BOOLEAN
    /\ access[c] \in BOOLEAN
    /\ histories[c] \in {"read", "due", "failed"} /\ reads[c] \in 0..2

LEMMA Typed ==
    ASSUME IInv, NEW c \in Clients
    PROVE  ClientOK(c)
  BY DEF IInv, TypeOK, Shapes, ClientOK

\* A step changes what belongs to c and nothing else.
Only(c) ==
    /\ conn' = [conn EXCEPT ![c] = conn'[c]]
    /\ inbox' = [inbox EXCEPT ![c] = inbox'[c]]
    /\ lagged' = [lagged EXCEPT ![c] = lagged'[c]]
    /\ seen' = [seen EXCEPT ![c] = seen'[c]]
    /\ got' = [got EXCEPT ![c] = got'[c]]
    /\ last' = [last EXCEPT ![c] = last'[c]]
    /\ histories' = [histories EXCEPT ![c] = histories'[c]]
    /\ reads' = [reads EXCEPT ![c] = reads'[c]]
    /\ live' = [live EXCEPT ![c] = live'[c]]
    /\ access' = [access EXCEPT ![c] = access'[c]]
    /\ owed' = [owed EXCEPT ![c] = owed'[c]]
    /\ behind' = [behind EXCEPT ![c] = behind'[c]]
    /\ late' = [late EXCEPT ![c] = late'[c]]
    /\ UNCHANGED <<outbox, batch, todo>>

\* Then only c needs a look.
LEMMA ClientStep ==
    ASSUME IInv, NEW c \in Clients, Only(c), faults' \in 0..MaxFaults,
           ClientOK(c)', Owing(c)', Vetted(c)', Streams(c)'
    PROVE  IInv'
  <1>1. ASSUME NEW d \in Clients, d # c
        PROVE  /\ conn'[d] = conn[d] /\ inbox'[d] = inbox[d] /\ lagged'[d] = lagged[d]
               /\ seen'[d] = seen[d] /\ got'[d] = got[d] /\ last'[d] = last[d]
               /\ histories'[d] = histories[d] /\ reads'[d] = reads[d]
               /\ live'[d] = live[d] /\ access'[d] = access[d]
               /\ owed'[d] = owed[d] /\ behind'[d] = behind[d] /\ late'[d] = late[d]
    BY <1>1 DEF Only, IInv, TypeOK, Shapes
  <1>2. Stored' = Stored /\ In("unpublished")' = In("unpublished")
    BY DEF Only, Stored, In
  <1>3. ASSUME NEW d \in Clients
        PROVE  ClientOK(d)'
    BY <1>1, <1>2, <1>3, Typed DEF ClientOK
  <1>4. TypeOK' /\ Shapes'
    <2>1. conn' \in [Clients -> Connection]
      BY <1>3 DEF Only, IInv, TypeOK, ClientOK
    <2>2. /\ {lagged, live, access}' \subseteq [Clients -> BOOLEAN]
          /\ histories' \in [Clients -> {"read", "due", "failed"}] /\ reads' \in [Clients -> 0..2]
      BY <1>3 DEF Only, IInv, TypeOK, ClientOK
    <2>3. Shapes'
      BY <1>3 DEF Only, IInv, Shapes, ClientOK
    <2>4. /\ outbox' \in [Events -> {"unallocated", "open", "unpublished", "published", "gone"}]
          /\ batch' \subseteq In("unpublished")' /\ todo' \subseteq batch'
      BY <1>2 DEF Only, IInv, TypeOK
    <2> QED
      BY <1>3, <2>1, <2>2, <2>3, <2>4 DEF TypeOK, ClientOK
  <1>5. ASSUME NEW d \in Clients, d # c
        PROVE  Owing(d)' /\ Vetted(d)'
    BY <1>1, <1>5 DEF IInv, Owing, Vetted, MaySend
  <1>6. ASSUME NEW d \in Clients, d # c
        PROVE  Streams(d)'
    <2>1. \A e : OnItsWay(d, e)' <=> OnItsWay(d, e)
      BY <1>1, <1>2, <1>6 DEF OnItsWay, Only
    <2>2. Streams(d)
      BY DEF IInv
    <2> QED
      BY <1>1, <1>6, <2>1, <2>2 DEF Streams
  <1> QED
    BY <1>4, <1>5, <1>6 DEF IInv

\* A variable that does not change changes for c alone.
LEMMA Still ==
    ASSUME NEW c \in Clients, NEW S, NEW f \in [Clients -> S]
    PROVE  f = [f EXCEPT ![c] = f[c]]
  OBVIOUS

\* So does one whose value at c is replaced.
LEMMA Replaced ==
    ASSUME NEW c \in Clients, NEW S, NEW f \in [Clients -> S], NEW x, NEW g,
           g = [f EXCEPT ![c] = x]
    PROVE  g = [f EXCEPT ![c] = g[c]] /\ g[c] = x
  OBVIOUS

\* The domains of the variables of clients.
LEMMA Domains ==
    ASSUME IInv
    PROVE  /\ conn \in [Clients -> Connection]
           /\ inbox \in [Clients -> Seq(Events)] /\ seen \in [Clients -> Seq(Events)]
           /\ lagged \in [Clients -> BOOLEAN] /\ live \in [Clients -> BOOLEAN]
           /\ access \in [Clients -> BOOLEAN]
           /\ histories \in [Clients -> {"read", "due", "failed"}]
           /\ reads \in [Clients -> 0..2]
           /\ got \in [Clients -> SUBSET Events] /\ last \in [Clients -> Nat]
           /\ owed \in [Clients -> SUBSET Events] /\ behind \in [Clients -> SUBSET Events]
           /\ late \in [Clients -> Nat]
  BY DEF IInv, TypeOK, Shapes

\* Rights that go: nothing is sent, and what is owed only shrinks.
LEMMA RevokeStep ==
    ASSUME IInv, NEW c \in Clients, Revoke(c)
    PROVE  IInv'
  <1>1. /\ live[c] /\ live'[c] = FALSE /\ live' = [live EXCEPT ![c] = live'[c]]
        /\ UNCHANGED <<outbox, worker, pump, client, access, history, faults>>
    BY Domains, Replaced DEF Revoke
  <1>2. Only(c)
    BY <1>1, Domains, Still DEF Only, worker, pump, client, history
  <1>3. ClientOK(c)'
    <2>1. ClientOK(c) /\ Stored' = Stored
      BY <1>1, Typed DEF Stored, In
    <2>2. live'[c] \in BOOLEAN
      BY <1>1, Zenon
    <2> QED
      BY <1>1, <2>1, <2>2 DEF ClientOK, pump, client, history
  <1>4. Owing(c)' /\ Vetted(c)' /\ Streams(c)'
    BY <1>1 DEF IInv, Owing, Vetted, Streams, MaySend, OnItsWay, In, worker, pump, client,
                history
  <1> QED
    BY <1>1, <1>2, <1>3, <1>4, ClientStep DEF IInv, TypeOK

LEMMA KickStep ==
    ASSUME IInv, NEW c \in Clients, Kick(c)
    PROVE  IInv'
  <1>1. /\ access'[c] = FALSE /\ access' = [access EXCEPT ![c] = access'[c]]
        /\ owed'[c] = {} /\ owed' = [owed EXCEPT ![c] = owed'[c]]
        /\ behind'[c] = {} /\ behind' = [behind EXCEPT ![c] = behind'[c]]
        /\ UNCHANGED <<outbox, worker, pump, client, live, late>>
    BY Domains, Replaced DEF Kick
  <1>2. Only(c)
    BY <1>1, Domains, Still DEF Only, worker, pump, client
  <1>3. ClientOK(c)'
    <2>1. ClientOK(c) /\ Stored' = Stored
      BY <1>1, Typed DEF Stored, In
    <2>2. access'[c] \in BOOLEAN
      BY <1>1, Zenon
    <2> QED
      BY <1>1, <2>1, <2>2 DEF ClientOK, pump, client
  <1>4. Owing(c)' /\ Vetted(c)' /\ Streams(c)'
    BY <1>1 DEF IInv, Owing, Vetted, Streams, MaySend, pump
  <1>5. faults' \in 0..MaxFaults
    BY MaxFaultsAssumption DEF IInv, TypeOK, Kick, Fault
  <1> QED
    BY <1>2, <1>3, <1>4, <1>5, ClientStep

LEMMA ReadmitStep ==
    ASSUME IInv, NEW c \in Clients, Readmit(c)
    PROVE  IInv'
  <1>1. /\ access'[c] = TRUE /\ access' = [access EXCEPT ![c] = access'[c]]
        /\ late'[c] = 0 /\ late' = [late EXCEPT ![c] = late'[c]]
        /\ UNCHANGED <<outbox, worker, pump, client, live, owed, behind, faults>>
    BY Domains, Replaced DEF Readmit
  <1>2. Only(c)
    BY <1>1, Domains, Still DEF Only, worker, pump, client
  <1>3. ClientOK(c)'
    <2>1. ClientOK(c) /\ Stored' = Stored
      BY <1>1, Typed DEF Stored, In
    <2>2. access'[c] \in BOOLEAN
      BY <1>1, Zenon
    <2>3. late'[c] \in Nat
      BY <1>1
    <2> QED
      BY <1>1, <2>1, <2>2, <2>3 DEF ClientOK, pump, client
  <1>4. Owing(c)' /\ Vetted(c)' /\ Streams(c)'
    BY <1>1 DEF IInv, Owing, Vetted, Streams, MaySend, OnItsWay, In, worker, pump, client
  <1> QED
    BY <1>1, <1>2, <1>3, <1>4, ClientStep DEF IInv, TypeOK

LEMMA ReconcileStep ==
    ASSUME IInv, NEW c \in Clients, Reconcile(c)
    PROVE  IInv'
  <1>1. /\ histories'[c] = "read" /\ histories' = [histories EXCEPT ![c] = histories'[c]]
        /\ reads'[c] = reads[c] - 1 /\ reads' = [reads EXCEPT ![c] = reads'[c]]
        /\ reads[c] > 0
        /\ owed'[c] = {} /\ owed' = [owed EXCEPT ![c] = owed'[c]]
        /\ behind'[c] = {} /\ behind' = [behind EXCEPT ![c] = behind'[c]]
        /\ UNCHANGED <<outbox, worker, pump, got, last, rights, late, faults>>
    BY Domains, Replaced DEF Reconcile
  <1>2. Only(c)
    BY <1>1, Domains, Still DEF Only, worker, pump, rights
  <1>3. ClientOK(c)'
    BY <1>1, Typed DEF ClientOK, Stored, In, worker, pump, rights
  <1>4. Owing(c)' /\ Vetted(c)' /\ Streams(c)'
    BY <1>1 DEF IInv, Owing, Vetted, Streams, MaySend, pump, rights
  <1> QED
    BY <1>1, <1>2, <1>3, <1>4, ClientStep DEF IInv, TypeOK

\* A failed reading takes nothing for read that it did not read.
LEMMA ReadFailsStep ==
    ASSUME IInv, NEW c \in Clients, ReadFails(c)
    PROVE  IInv'
  <1>1. PICK unread \in SUBSET owed[c] :
           /\ owed' = [owed EXCEPT ![c] = unread]
           /\ behind' = [behind EXCEPT ![c] = @ \cap unread]
    BY DEF ReadFails
  <1>2. /\ reads[c] > 0 /\ reads'[c] = reads[c] - 1
        /\ reads' = [reads EXCEPT ![c] = reads'[c]]
        /\ histories'[c] = IF histories[c] = "due" /\ reads[c] = 1 THEN "failed"
                           ELSE histories[c]
        /\ histories' = [histories EXCEPT ![c] = histories'[c]]
        /\ UNCHANGED <<outbox, worker, pump, got, last, rights, late>>
    BY Domains, Replaced DEF ReadFails
  <1>3. /\ owed'[c] = unread /\ owed' = [owed EXCEPT ![c] = owed'[c]]
        /\ behind'[c] = behind[c] \cap unread
        /\ behind' = [behind EXCEPT ![c] = behind'[c]]
    BY <1>1, Domains, Replaced
  <1>4. Only(c)
    BY <1>2, <1>3, Domains, Still DEF Only, worker, pump, rights
  <1>5. ClientOK(c)'
    <2>1. ClientOK(c) /\ Stored' = Stored
      BY <1>2, Typed DEF Stored, In
    <2>2. histories'[c] \in {"read", "due", "failed"} /\ reads'[c] \in 0..2
      BY <1>2, <2>1 DEF ClientOK
    <2> QED
      BY <1>2, <1>3, <2>1, <2>2 DEF ClientOK, pump, rights
  <1>6. Owing(c)' /\ Vetted(c)'
    BY <1>2, <1>3 DEF IInv, Owing, Vetted, MaySend, pump, rights
  <1>7. Streams(c)'
    <2>1. histories[c] # "read" => histories'[c] # "read"
      BY <1>2
    <2> QED
      BY <1>2, <1>3, <2>1 DEF IInv, Streams, OnItsWay, In, worker, pump
  <1>8. faults' \in 0..MaxFaults
    BY MaxFaultsAssumption DEF IInv, TypeOK, ReadFails, Fault
  <1> QED
    BY <1>4, <1>5, <1>6, <1>7, <1>8, ClientStep

\* A history that the user opens owes nothing any more.
LEMMA SelectStep ==
    ASSUME IInv, NEW c \in Clients, Select(c)
    PROVE  IInv'
  <1>1. PICK e \in owed[c] :
           /\ owed' = [owed EXCEPT ![c] = @ \ {e}]
           /\ behind' = [behind EXCEPT ![c] = @ \ {e}]
    BY DEF Select
  <1>2. /\ owed'[c] = owed[c] \ {e} /\ owed' = [owed EXCEPT ![c] = owed'[c]]
        /\ behind'[c] = behind[c] \ {e} /\ behind' = [behind EXCEPT ![c] = behind'[c]]
        /\ UNCHANGED <<outbox, worker, pump, client, rights, late, faults>>
    BY <1>1, Domains, Replaced DEF Select
  <1>3. Only(c)
    BY <1>2, Domains, Still DEF Only, worker, pump, client, rights
  <1>4. ClientOK(c)'
    BY <1>2, Typed DEF ClientOK, Stored, In, worker, pump, client, rights
  <1>5. Owing(c)' /\ Vetted(c)' /\ Streams(c)'
    BY <1>2 DEF IInv, Owing, Vetted, Streams, MaySend, OnItsWay, In, worker, pump, client,
                rights
  <1> QED
    BY <1>2, <1>3, <1>4, <1>5, ClientStep DEF IInv, TypeOK

\* A connection that is off.
LEMMA OffIsOff ==
    /\ Off \in Connection
    /\ Off.at = "off" /\ Off.cur = 0 /\ Off.page = {} /\ Off.done = FALSE
  BY DEF Off, Connection

\* An empty queue.
LEMMA NothingQueued ==
    ASSUME NEW S
    PROVE  <<>> \in Seq(S) /\ Len(<<>>) = 0 /\ Range(<<>>) = {}
  <1>1. <<>> \in Seq(S) /\ Len(<<>>) = 0 /\ DOMAIN <<>> = {}
    OBVIOUS
  <1> QED
    BY <1>1 DEF Range

\* A connection that ends leaves nothing behind.
LEMMA CloseStep ==
    ASSUME IInv, NEW c \in Clients, Close(c), faults' \in 0..MaxFaults
    PROVE  IInv'
  <1>1. /\ conn'[c] = Off /\ conn' = [conn EXCEPT ![c] = conn'[c]]
        /\ inbox'[c] = <<>> /\ inbox' = [inbox EXCEPT ![c] = inbox'[c]]
        /\ lagged'[c] = FALSE /\ lagged' = [lagged EXCEPT ![c] = lagged'[c]]
        /\ seen'[c] = <<>> /\ seen' = [seen EXCEPT ![c] = seen'[c]]
        /\ UNCHANGED <<outbox, worker, client, rights, history>>
    BY Domains, Replaced DEF Close
  <1>2. Only(c)
    BY <1>1, Domains, Still DEF Only, worker, client, rights, history
  <1>3. Off \in Connection /\ Range(<<>>) = {} /\ Len(<<>>) = 0 /\ <<>> \in Seq(Events)
    BY OffIsOff, NothingQueued
  <1>4. ClientOK(c)'
    <2>1. ClientOK(c) /\ Stored' = Stored
      BY <1>1, Typed DEF Stored, In
    <2>2. lagged'[c] \in BOOLEAN
      BY <1>1, Zenon
    <2>3. 0 <= HubCapacity /\ 0 <= SeenCap
      BY SizesAssumption
    <2>4. conn'[c].page \subseteq Stored /\ conn'[c].at = "off"
      BY <1>1, OffIsOff
    <2> QED
      BY <1>1, <1>3, <2>1, <2>2, <2>3, <2>4 DEF ClientOK, client, rights, history
  <1>5. conn'[c].at = "off" /\ conn'[c].cur = 0
    BY <1>1 DEF Off
  <1>6. Owing(c)' /\ Vetted(c)' /\ Streams(c)'
    BY <1>1, <1>3, <1>5 DEF IInv, Owing, Vetted, Streams, MaySend, client, rights, history
  <1> QED
    BY <1>2, <1>4, <1>6, ClientStep

\* A network failure, and a session that is noticed to be gone.
LEMMA BreakNoticeStep ==
    ASSUME IInv, NEW c \in Clients, Break(c) \/ Notice(c)
    PROVE  IInv'
  <1>1. Close(c)
    BY DEF Break, Notice
  <1>2. faults' \in 0..MaxFaults
    BY MaxFaultsAssumption DEF IInv, TypeOK, Break, Notice, Fault
  <1> QED
    BY <1>1, <1>2, CloseStep

\* A step that changes only the connection record of c.
LEMMA ConnStep ==
    ASSUME IInv, NEW c \in Clients, NEW x \in Connection, conn' = [conn EXCEPT ![c] = x],
           UNCHANGED <<outbox, worker, inbox, lagged, seen, client, rights, history, faults>>,
           x.at # "sending" => x.cur = 0,
           x.at = "sending" => late[c] = 0 /\ x.cur \in Stored, x.page \subseteq Stored,
           x.at \in {"pump", "sending"} =>
              \A e \in owed[c] : OnItsWay(c, e)' \/ (e \in behind[c] /\ histories[c] # "read")
    PROVE  IInv'
  <1>1. conn'[c] = x /\ conn' = [conn EXCEPT ![c] = conn'[c]]
    BY Domains, Replaced
  <1>2. Only(c)
    BY <1>1, Domains, Still DEF Only, worker, client, rights, history
  <1>3. ClientOK(c)'
    <2>1. ClientOK(c) /\ Stored' = Stored
      BY Typed DEF Stored, In
    <2> QED
      BY <1>1, <2>1 DEF ClientOK, client, rights, history
  <1>4. Owing(c)' /\ Vetted(c)'
    BY <1>1 DEF IInv, Owing, Vetted, MaySend, client, rights, history
  <1>5. Streams(c)'
    BY <1>1 DEF Streams, client, history
  <1> QED
    BY <1>2, <1>3, <1>4, <1>5, ClientStep DEF IInv, TypeOK

\* A subscription precedes the replay.
LEMMA ConnectStep ==
    ASSUME IInv, NEW c \in Clients, Connect(c)
    PROVE  IInv'
  <1> DEFINE x == [conn[c] EXCEPT !.at = "joined"]
  <1>1. conn[c] \in Connection /\ conn[c].cur = 0 /\ conn[c].page \subseteq Stored
    BY Typed DEF ClientOK, IInv, Owing, Connect
  <1>2. x \in Connection /\ x.at = "joined" /\ x.cur = 0 /\ x.page \subseteq Stored
    BY <1>1 DEF Connection
  <1>3. conn' = [conn EXCEPT ![c] = x]
    BY Domains DEF Connect
  <1> HIDE DEF x
  <1> QED
    BY <1>2, <1>3, ConnStep DEF Connect

\* A replay covers every stored event above its cursor.
LEMMA ReplayCovers ==
    ASSUME IInv, NEW c \in Clients, NEW cursor \in Nat, StartReplay(c, cursor)
    PROVE  \E x \in Connection :
              /\ conn' = [conn EXCEPT ![c] = x] /\ x.at = "pump" /\ x.cur = 0 /\ x.page = {}
              /\ \A e \in Stored : e > cursor =>
                    x.cursor < e /\ e <= x.ceiling /\ ~x.done
  <1> DEFINE top == IF Stored = {} THEN 0 ELSE Max(Stored)
             x == [Off EXCEPT !.at = "pump", !.cursor = cursor, !.ceiling = top,
                              !.done = top = 0]
  <1>1. Stored \subseteq Events
    BY DEF Stored, In
  <1>2. /\ top \in Nat /\ \A e \in Stored : e <= top /\ e \in Nat
        /\ Stored # {} => top # 0
    BY <1>1, EventSets
  <1>3. conn' = [conn EXCEPT ![c] = x]
    BY DEF StartReplay
  <1> HIDE DEF top
  <1>4. /\ x \in Connection /\ x.at = "pump" /\ x.cur = 0 /\ x.page = {}
        /\ x.cursor = cursor /\ x.ceiling = top
    BY <1>2 DEF Off, Connection
  <1>5. x.done <=> top = 0
    BY DEF Off
  <1> HIDE DEF x
  <1>6. \A e \in Stored : e > cursor => x.cursor < e /\ e <= x.ceiling /\ ~x.done
    BY <1>2, <1>4, <1>5
  <1> QED
    BY <1>3, <1>4, <1>6

\* A rescan after lag starts at the first event.
LEMMA LagStep ==
    ASSUME IInv, NEW c \in Clients, Lag(c)
    PROVE  IInv'
  <1>1. StartReplay(c, 0)
    BY DEF Lag, AfterLag
  <1>2. PICK x \in Connection :
           /\ conn' = [conn EXCEPT ![c] = x] /\ x.at = "pump" /\ x.cur = 0 /\ x.page = {}
           /\ \A e \in Stored : e > 0 => x.cursor < e /\ e <= x.ceiling /\ ~x.done
    BY <1>1, ReplayCovers
  <1>3. /\ lagged'[c] = FALSE /\ lagged' = [lagged EXCEPT ![c] = lagged'[c]]
        /\ conn'[c] = x /\ conn' = [conn EXCEPT ![c] = conn'[c]]
        /\ UNCHANGED <<outbox, worker, inbox, seen, client, rights, history, faults>>
    BY <1>2, Domains, Replaced DEF Lag
  <1>4. Only(c)
    BY <1>3, Domains, Still DEF Only, worker, client, rights, history
  <1>5. ClientOK(c)'
    <2>1. ClientOK(c) /\ Stored' = Stored
      BY <1>3, Typed DEF Stored, In
    <2>2. lagged'[c] \in BOOLEAN
      BY <1>3, Zenon
    <2> QED
      BY <1>2, <1>3, <2>1, <2>2 DEF ClientOK, client, rights, history
  <1>6. Owing(c)' /\ Vetted(c)'
    BY <1>2, <1>3 DEF IInv, Owing, Vetted, MaySend, client, rights, history
  <1>7. Streams(c)'
    <2>1. \A e \in owed[c] : e \in Stored /\ e > 0
      <3>1. owed[c] \subseteq Stored /\ owed[c] \subseteq Events
        BY Typed DEF ClientOK
      <3>2. \A e \in owed[c] : e \in Nat \ {0}
        BY <3>1, EventSets
      <3>3. \A e \in Nat \ {0} : e > 0
        OBVIOUS
      <3> QED
        BY <3>1, <3>2, <3>3
    <2> QED
      BY <1>2, <1>3, <2>1 DEF Streams, OnItsWay, history
  <1> QED
    BY <1>3, <1>4, <1>5, <1>6, <1>7, ClientStep DEF IInv, TypeOK

\* What the replay of a resume skips, the histories will tell.
LEMMA IdentifyStep ==
    ASSUME IInv, NEW c \in Clients, Identify(c)
    PROVE  IInv'
  <1>1. last[c] \in Nat
    BY Domains
  <1>2. PICK x \in Connection :
           /\ conn' = [conn EXCEPT ![c] = x] /\ x.at = "pump" /\ x.cur = 0 /\ x.page = {}
           /\ \A e \in Stored : e > last[c] => x.cursor < e /\ e <= x.ceiling /\ ~x.done
    BY <1>1, ReplayCovers DEF Identify
  <1>3. /\ histories'[c] = "due" /\ histories' = [histories EXCEPT ![c] = histories'[c]]
        /\ reads'[c] = Earned(reads[c]) /\ reads' = [reads EXCEPT ![c] = reads'[c]]
        /\ behind'[c] = {e \in owed[c] : e <= last[c]}
        /\ behind' = [behind EXCEPT ![c] = behind'[c]]
        /\ conn'[c] = x /\ conn' = [conn EXCEPT ![c] = conn'[c]]
        /\ UNCHANGED <<outbox, worker, inbox, lagged, seen, got, last, rights, owed, late,
                       faults>>
    BY <1>2, Domains, Replaced DEF Identify
  <1>4. Only(c)
    BY <1>3, Domains, Still DEF Only, worker, rights
  <1>5. ClientOK(c)'
    <2>1. ClientOK(c) /\ Stored' = Stored
      BY <1>3, Typed DEF Stored, In
    <2>2. histories'[c] \in {"read", "due", "failed"} /\ reads'[c] \in 0..2
      BY <1>3 DEF Earned
    <2>3. behind'[c] \in SUBSET Events /\ behind'[c] \subseteq owed[c]
      BY <1>3, <2>1 DEF ClientOK
    <2> QED
      BY <1>2, <1>3, <2>1, <2>2, <2>3 DEF ClientOK, rights
  <1>6. Owing(c)' /\ Vetted(c)'
    BY <1>2, <1>3 DEF IInv, Owing, Vetted, MaySend, rights, Identify
  <1>7. Streams(c)'
    <2>1. \A e \in owed[c] : e \in Stored /\ e \in Nat
      BY Typed, EventSets DEF ClientOK
    <2>2. \A e \in owed[c] : e <= last[c] \/ e > last[c]
      BY <1>1, <2>1
    <2> QED
      BY <1>2, <1>3, <2>1, <2>2 DEF Streams, OnItsWay
  <1> QED
    BY <1>3, <1>4, <1>5, <1>6, <1>7, ClientStep DEF IInv, TypeOK

\* The first of a page, and how far it reaches.
LEMMA Pages ==
    ASSUME NEW S, S \subseteq Events, NEW n \in Nat \ {0}
    PROVE  /\ S # {} => Min(S) \in FirstOf(n, S)
           /\ \A e \in S, m \in FirstOf(n, S) : e <= m => e \in FirstOf(n, S)
  <1> DEFINE below(e) == {f \in S : f < e}
  <1>1. ASSUME S # {}
        PROVE  Min(S) \in FirstOf(n, S)
    <2>1. Min(S) \in S /\ \A e \in S : Min(S) <= e /\ e \in Nat /\ Min(S) \in Nat
      BY <1>1, EventSets
    <2>2. below(Min(S)) = {}
      BY <2>1
    <2>3. Cardinality(below(Min(S))) = 0
      BY <2>2, FS_EmptySet
    <2> QED
      BY <2>1, <2>3 DEF FirstOf
  <1>2. ASSUME NEW e \in S, NEW m \in FirstOf(n, S), e <= m
        PROVE  e \in FirstOf(n, S)
    <2>1. m \in S /\ Cardinality(below(m)) < n
      BY DEF FirstOf
    <2>2. \A f \in S : f \in Nat
      BY EventSets
    <2>3. below(e) \subseteq below(m)
      BY <1>2, <2>1, <2>2
    <2>4. below(m) \subseteq Events /\ below(e) \subseteq Events
      OBVIOUS
    <2> HIDE DEF below
    <2>5. /\ IsFiniteSet(below(m))
          /\ Cardinality(below(m)) \in Nat /\ Cardinality(below(e)) \in Nat
      BY <2>4, EventSets
    <2>6. Cardinality(below(e)) <= Cardinality(below(m))
      BY <2>3, <2>5, FS_Subset
    <2>7. Cardinality(below(e)) < n
      BY <2>1, <2>5, <2>6
    <2> QED
      BY <2>7 DEF FirstOf, below
  <1> QED
    BY <1>1, <1>2

\* A page takes the cursor past what it holds and past nothing else; an empty
\* page ends the replay only when nothing is left below the ceiling.
LEMMA ReadPageStep ==
    ASSUME IInv, NEW c \in Clients, ReadPage(c)
    PROVE  IInv'
  <1> DEFINE rest == {f \in Stored : access[c] /\ f > conn[c].cursor}
             next == NextPage(c)
  <1>1. /\ conn[c] \in Connection /\ conn[c].at = "pump" /\ conn[c].cur = 0
        /\ conn[c].cursor \in Nat /\ conn[c].ceiling \in Nat
        /\ ~conn[c].done /\ conn[c].page = {}
    BY Domains DEF IInv, Owing, ReadPage, Connection
  <1>2. /\ rest \subseteq Events /\ next \subseteq Events /\ next \subseteq Stored
        /\ next = {e \in FirstOf(Page, rest) : e <= conn[c].ceiling}
    BY DEF Stored, In, NextPage, FirstOf
  <1>3. \A e \in owed[c] : e \in Stored /\ e \in Events /\ access[c] /\ e \in Nat
    <2>1. owed[c] \subseteq Stored /\ owed[c] \subseteq Events
      BY Typed DEF ClientOK
    <2>2. \A e \in owed[c] : e \in Nat
      BY <2>1, EventSets
    <2>3. \A e \in owed[c] : access[c]
      BY DEF IInv, Owing
    <2> QED
      BY <2>1, <2>2, <2>3
  <1>4. Streams(c)
    BY DEF IInv
  <1>5. Page \in Nat \ {0}
    BY SizesAssumption
  <1>6. UNCHANGED <<outbox, worker, inbox, lagged, seen, client, rights, history, faults>>
    BY DEF ReadPage
  <1>7. ASSUME NEW e \in owed[c], conn[c].cursor < e, e <= conn[c].ceiling
        PROVE  /\ next # {} /\ ~(conn[c].cursor >= conn[c].ceiling)
               /\ e \in next \/ e > Max(next)
    <2>1. e \in rest
      BY <1>1, <1>3, <1>7
    <2>2. conn[c].ceiling \in Nat /\ e \in Nat
      BY <1>1, <1>3, <1>7
    <2>3. Min(rest) \in next
      <3> DEFINE S == rest
      <3>1. S \subseteq Events /\ e \in S
        BY <1>2, <2>1
      <3>2. next = {f \in FirstOf(Page, S) : f <= conn[c].ceiling}
        BY <1>2
      <3> HIDE DEF S, next
      <3>3. Min(S) \in FirstOf(Page, S)
        BY <1>5, <3>1, Pages
      <3>4. Min(S) <= e /\ Min(S) \in Nat
        BY <3>1, EventSets
      <3>5. Min(S) <= conn[c].ceiling
        BY <1>7, <2>2, <3>4
      <3> QED
        BY <3>2, <3>3, <3>5 DEF S
    <2>4. Max(next) \in next /\ Max(next) \in Nat
      BY <1>2, <2>3, EventSets
    <2>5. e <= Max(next) => e \in next
      <3>1. Max(next) \in FirstOf(Page, rest)
        BY <1>2, <2>4
      <3>2. e <= Max(next) => e \in FirstOf(Page, rest)
        BY <1>2, <1>5, <2>1, <3>1, Pages
      <3> QED
        BY <1>2, <1>7, <3>2
    <2> HIDE DEF next, rest
    <2> QED
      BY <1>1, <1>3, <1>7, <2>3, <2>4, <2>5
  <1> HIDE DEF next, rest
  <1>8. CASE conn[c].cursor >= conn[c].ceiling \/ next = {}
    <2> DEFINE x == [conn[c] EXCEPT !.done = TRUE]
    <2>1. conn' = [conn EXCEPT ![c] = x]
      BY <1>8, Domains DEF ReadPage, next
    <2>2. /\ x \in Connection /\ x.at = "pump" /\ x.cur = 0 /\ x.page = {}
      BY <1>1 DEF Connection
    <2> HIDE DEF x
    <2>3. \A e \in owed[c] : ~(conn[c].cursor < e /\ e <= conn[c].ceiling)
      BY <1>7, <1>8
    <2>4. ASSUME NEW e \in owed[c]
          PROVE  OnItsWay(c, e)' \/ (e \in behind[c] /\ histories[c] # "read")
      <3>1. OnItsWay(c, e) \/ (e \in behind[c] /\ histories[c] # "read")
        BY <1>1, <1>4 DEF Streams
      <3>2. e # 0
        BY <1>3 DEF Events
      <3> QED
        BY <1>1, <1>6, <2>3, <3>1, <3>2 DEF OnItsWay, In, worker
    <2> QED
      BY <1>6, <2>1, <2>2, <2>4, ConnStep
  <1>9. CASE ~(conn[c].cursor >= conn[c].ceiling \/ next = {})
    <2> DEFINE top == Max(next)
               x == [conn[c] EXCEPT !.page = next, !.cursor = top]
    <2>1. top \in Nat
      BY <1>2, <1>9, EventSets
    <2>2. conn' = [conn EXCEPT ![c] = x]
      BY <1>9, Domains DEF ReadPage, next
    <2> HIDE DEF top
    <2>3. /\ x \in Connection /\ x.at = "pump" /\ x.cur = 0 /\ x.page = next
          /\ x.cursor = top /\ x.ceiling = conn[c].ceiling /\ x.done = conn[c].done
      BY <1>1, <1>2, <2>1 DEF Connection
    <2>4. conn'[c] = x
      BY <2>2, Domains
    <2> HIDE DEF x
    <2>5. ASSUME NEW e \in owed[c]
          PROVE  OnItsWay(c, e)' \/ (e \in behind[c] /\ histories[c] # "read")
      <3>1. OnItsWay(c, e) \/ (e \in behind[c] /\ histories[c] # "read")
        BY <1>1, <1>4 DEF Streams
      <3>2. e # 0 /\ e \in Nat
        BY <1>3 DEF Events
      <3>3. conn[c].cursor < e /\ e <= conn[c].ceiling => e \in next \/ top < e
        BY <1>7, <2>1, <3>2 DEF top
      <3> QED
        BY <1>1, <1>6, <2>3, <2>4, <3>1, <3>2, <3>3 DEF OnItsWay, In, worker
    <2> QED
      BY <1>2, <1>6, <2>2, <2>3, <2>5, ConnStep
  <1> QED
    BY <1>8, <1>9

\* An event that is taken goes to the client, or it is not owed to it, or the
\* connection ends.
LEMMA TakeStep ==
    ASSUME IInv, NEW c \in Clients, NEW e \in Stored, NEW next \in Connection,
           NEW rest \in Seq(Events), conn[c].at = "pump", Vet(c, e, next), Taken(c, rest),
           next.at = "pump", next.cur = 0, next.page \subseteq Stored,
           Len(rest) <= HubCapacity, Range(rest) \subseteq Range(inbox[c]),
           \A d \in owed[c] : d # e =>
              \/ d \in In("unpublished") \ (batch \ todo)
              \/ d \in Range(rest) \/ lagged[c] \/ d \in next.page
              \/ next.cursor < d /\ d <= next.ceiling /\ ~next.done
              \/ d \in behind[c] /\ histories[c] # "read"
    PROVE  IInv'
  <1>1. UNCHANGED <<outbox, worker, client, rights, history, faults>>
    BY DEF Taken
  <1>2. CASE \E x \in Connection :
                /\ conn' = [conn EXCEPT ![c] = x] /\ x.at # "off"
                /\ x.page = next.page /\ x.cursor = next.cursor
                /\ x.ceiling = next.ceiling /\ x.done = next.done
                /\ \/ x.at = "pump" /\ x.cur = 0 /\ e \notin owed[c]
                   \/ x.at = "sending" /\ x.cur = e /\ MaySend(c)
    <2>1. PICK x \in Connection :
                /\ conn' = [conn EXCEPT ![c] = x] /\ x.at # "off"
                /\ x.page = next.page /\ x.cursor = next.cursor
                /\ x.ceiling = next.ceiling /\ x.done = next.done
                /\ \/ x.at = "pump" /\ x.cur = 0 /\ e \notin owed[c]
                   \/ x.at = "sending" /\ x.cur = e /\ MaySend(c)
      BY <1>2
    <2>2. conn'[c] = x /\ conn' = [conn EXCEPT ![c] = conn'[c]]
      BY <2>1, Domains, Replaced
    <2>3. inbox'[c] = rest /\ inbox' = [inbox EXCEPT ![c] = inbox'[c]]
      BY <2>1, <2>2, Domains, Replaced DEF Taken
    <2>4. lagged' = lagged
      <3>1. lagged \in [Clients -> BOOLEAN] /\ lagged' = [lagged EXCEPT ![c] = lagged[c] /\ TRUE]
        BY <2>1, <2>2, Domains DEF Taken
      <3>2. (lagged[c] /\ TRUE) = lagged[c]
        BY <3>1
      <3> QED
        BY <3>1, <3>2
    <2>5. seen' = seen
      BY <2>1, <2>2, Domains DEF Taken
    <2>6. Only(c)
      BY <1>1, <2>2, <2>3, <2>4, <2>5, Domains, Still
         DEF Only, worker, client, rights, history
    <2>7. ClientOK(c)'
      <3>1. ClientOK(c) /\ Stored' = Stored
        BY <1>1, Typed DEF Stored, In
      <3> QED
        BY <1>1, <2>1, <2>2, <2>3, <2>4, <2>5, <3>1 DEF ClientOK, client, rights, history
    <2>8. Owing(c)' /\ Vetted(c)'
      BY <1>1, <2>1, <2>2, <2>5 DEF IInv, Owing, Vetted, MaySend, client, rights, history
    <2>9. Streams(c)'
      BY <1>1, <2>1, <2>2, <2>3, <2>4 DEF Streams, OnItsWay, In, worker, client, history
    <2> QED
      BY <1>1, <2>6, <2>7, <2>8, <2>9, ClientStep DEF IInv, TypeOK
  <1>3. CASE e \in Range(seen[c]) \/ ~access[c]
    <2>1. conn' = [conn EXCEPT ![c] = next]
      BY <1>3 DEF Vet
    <2>2. e \notin owed[c]
      BY <1>3 DEF IInv, Owing
    <2> QED
      BY <1>2, <2>1, <2>2
  <1>4. CASE ~(e \in Range(seen[c]) \/ ~access[c]) /\ MaySend(c)
    <2> DEFINE x == [next EXCEPT !.at = "sending", !.cur = e]
    <2>1. conn' = [conn EXCEPT ![c] = x]
      BY <1>4 DEF Vet
    <2>2. /\ x \in Connection /\ x.at = "sending" /\ x.cur = e
          /\ x.page = next.page /\ x.cursor = next.cursor
          /\ x.ceiling = next.ceiling /\ x.done = next.done
      <3>1. e \in Nat
        BY EventSets DEF Stored, In
      <3> QED
        BY <3>1 DEF Connection
    <2> HIDE DEF x
    <2>3. x.at # "off"
      BY <2>2
    <2> QED
      BY <1>2, <1>4, <2>1, <2>2, <2>3
  <1>5. CASE ~(e \in Range(seen[c]) \/ ~access[c]) /\ ~MaySend(c)
    <2>1. conn' = [conn EXCEPT ![c] = Off]
      BY <1>5 DEF Vet
    <2>2. conn'[c].at = "off"
      BY <2>1, Domains, OffIsOff
    <2>3. inbox' = [inbox EXCEPT ![c] = <<>>] /\ seen' = [seen EXCEPT ![c] = <<>>]
      BY <2>2 DEF Taken
    <2>4. lagged' = [lagged EXCEPT ![c] = FALSE]
      BY <2>2 DEF Taken
    <2>5. Close(c)
      BY <1>1, <2>1, <2>3, <2>4 DEF Close
    <2> QED
      BY <1>1, <2>5, CloseStep DEF IInv, TypeOK
  <1> QED
    BY <1>3, <1>4, <1>5

\* From the page of a replay.
LEMMA TakeReplayedStep ==
    ASSUME IInv, NEW c \in Clients, TakeReplayed(c)
    PROVE  IInv'
  <1> DEFINE e == Min(conn[c].page)
             next == [conn[c] EXCEPT !.page = @ \ {e}]
  <1>1. /\ conn[c] \in Connection /\ conn[c].at = "pump" /\ conn[c].cur = 0
        /\ conn[c].page # {} /\ conn[c].page \subseteq Events
        /\ conn[c].page \subseteq Stored
    BY Typed DEF ClientOK, IInv, Owing, TakeReplayed, Connection
  <1>2. e \in conn[c].page
    BY <1>1, EventSets
  <1>3. Vet(c, e, next) /\ Taken(c, inbox[c])
    BY DEF TakeReplayed
  <1> HIDE DEF e
  <1>4. /\ next \in Connection /\ next.at = "pump" /\ next.cur = 0
        /\ next.page \subseteq Stored /\ next.page = conn[c].page \ {e}
        /\ next.cursor = conn[c].cursor
        /\ next.ceiling = conn[c].ceiling /\ next.done = conn[c].done
    BY <1>1 DEF Connection
  <1> HIDE DEF next
  <1>5. inbox[c] \in Seq(Events) /\ Len(inbox[c]) <= HubCapacity
    BY Typed DEF ClientOK
  <1>6. ASSUME NEW d \in owed[c], d # e
        PROVE  \/ d \in In("unpublished") \ (batch \ todo)
               \/ d \in Range(inbox[c]) \/ lagged[c] \/ d \in next.page
               \/ next.cursor < d /\ d <= next.ceiling /\ ~next.done
               \/ d \in behind[c] /\ histories[c] # "read"
    <2>1. OnItsWay(c, d) \/ (d \in behind[c] /\ histories[c] # "read")
      BY <1>1 DEF IInv, Streams
    <2>2. d # 0
      BY Typed, EventSets DEF ClientOK
    <2> QED
      BY <1>1, <1>4, <1>6, <2>1, <2>2 DEF OnItsWay
  <1> QED
    BY <1>1, <1>2, <1>3, <1>4, <1>5, <1>6, TakeStep

\* From the subscription.
LEMMA TakeLiveStep ==
    ASSUME IInv, NEW c \in Clients, TakeLive(c)
    PROVE  IInv'
  <1>1. /\ conn[c] \in Connection /\ conn[c].at = "pump" /\ conn[c].cur = 0
        /\ inbox[c] \in Seq(Events) /\ inbox[c] # <<>> /\ Len(inbox[c]) <= HubCapacity
        /\ Range(inbox[c]) \subseteq Stored /\ conn[c].page \subseteq Stored
    BY Typed DEF ClientOK, IInv, Owing, TakeLive
  <1>2. /\ Tail(inbox[c]) \in Seq(Events) /\ Len(Tail(inbox[c])) <= HubCapacity
        /\ Head(inbox[c]) \in Stored
        /\ Range(inbox[c]) = {Head(inbox[c])} \cup Range(Tail(inbox[c]))
    <2>1. /\ Tail(inbox[c]) \in Seq(Events) /\ Len(Tail(inbox[c])) = Len(inbox[c]) - 1
          /\ Head(inbox[c]) \in Events
          /\ Range(inbox[c]) = {Head(inbox[c])} \cup Range(Tail(inbox[c]))
      BY <1>1, TailLeaves
    <2>2. Len(inbox[c]) \in Nat /\ HubCapacity \in Nat
      BY <1>1, SizesAssumption
    <2> QED
      BY <1>1, <2>1, <2>2
  <1>3. ASSUME NEW d \in owed[c], d # Head(inbox[c])
        PROVE  \/ d \in In("unpublished") \ (batch \ todo)
               \/ d \in Range(Tail(inbox[c])) \/ lagged[c] \/ d \in conn[c].page
               \/ conn[c].cursor < d /\ d <= conn[c].ceiling /\ ~conn[c].done
               \/ d \in behind[c] /\ histories[c] # "read"
    <2>1. OnItsWay(c, d) \/ (d \in behind[c] /\ histories[c] # "read")
      BY <1>1 DEF IInv, Streams
    <2>2. d # 0
      BY Typed, EventSets DEF ClientOK
    <2> QED
      BY <1>1, <1>2, <1>3, <2>1, <2>2 DEF OnItsWay
  <1>4. Vet(c, Head(inbox[c]), conn[c]) /\ Taken(c, Tail(inbox[c]))
    BY DEF TakeLive
  <1>5. Range(Tail(inbox[c])) \subseteq Range(inbox[c])
    BY <1>2
  <1> QED
    BY <1>1, <1>2, <1>3, <1>4, <1>5, TakeStep

\* What a full memory forgets and remembers.
LEMMA Remembered ==
    ASSUME NEW s \in Seq(Events), Len(s) <= SeenCap, NEW e \in Events,
           NEW t, t = IF Len(s) = SeenCap THEN Append(Tail(s), e) ELSE Append(s, e)
    PROVE  t \in Seq(Events) /\ Len(t) <= SeenCap /\ Range(t) \subseteq Range(s) \cup {e}
  <1>1. Len(s) \in Nat /\ SeenCap \in Nat \ {0}
    BY SizesAssumption
  <1>2. CASE Len(s) = SeenCap
    <2>1. s # <<>>
      BY <1>1, <1>2, NothingQueued
    <2>2. /\ Tail(s) \in Seq(Events) /\ Len(Tail(s)) = Len(s) - 1
          /\ Range(s) = {Head(s)} \cup Range(Tail(s))
      BY <2>1, TailLeaves
    <2> DEFINE u == Tail(s)
    <2>3. t = Append(u, e) /\ u \in Seq(Events)
      BY <1>2, <2>2
    <2> HIDE DEF u
    <2>4. t \in Seq(Events) /\ Len(t) = Len(u) + 1 /\ Range(t) = Range(u) \cup {e}
      <3>1. /\ Append(u, e) \in Seq(Events) /\ Len(Append(u, e)) = Len(u) + 1
            /\ Range(Append(u, e)) = Range(u) \cup {e}
        BY <2>3, AppendAdds
      <3> QED
        BY <2>3, <3>1
    <2> USE DEF u
    <2> QED
      BY <1>1, <1>2, <2>2, <2>4
  <1>3. CASE Len(s) # SeenCap
    <2>1. t \in Seq(Events) /\ Len(t) = Len(s) + 1 /\ Range(t) = Range(s) \cup {e}
      BY <1>3, AppendAdds
    <2> QED
      BY <1>1, <1>3, <2>1
  <1> QED
    BY <1>2, <1>3

\* What is sent is heard of; of the rest nothing changes.
LEMMA SendStep ==
    ASSUME IInv, NEW c \in Clients, Send(c)
    PROVE  IInv'
  <1> DEFINE e == conn[c].cur
             x == [conn[c] EXCEPT !.at = "pump", !.cur = 0]
             s == IF Len(seen[c]) = SeenCap THEN Append(Tail(seen[c]), e)
                                            ELSE Append(seen[c], e)
             l == IF live[c] /\ access[c] THEN late[c] ELSE late[c] + 1
  <1>1. /\ conn[c] \in Connection /\ conn[c].at = "sending" /\ e \in Stored /\ e \in Events
        /\ conn[c].page \subseteq Stored /\ e \in Nat
    <2>1. conn[c] \in Connection /\ conn[c].at = "sending" /\ e \in Stored
          /\ conn[c].page \subseteq Stored
      BY Typed DEF ClientOK, Send
    <2>2. e \in Events
      BY <2>1 DEF Stored, In
    <2> QED
      BY <2>1, <2>2, EventSets
  <1>2. conn' = [conn EXCEPT ![c] = x]
    BY Domains DEF Send
  <1>3. /\ x \in Connection /\ x.at = "pump" /\ x.cur = 0 /\ x.page = conn[c].page
        /\ x.cursor = conn[c].cursor /\ x.ceiling = conn[c].ceiling /\ x.done = conn[c].done
    BY <1>1 DEF Connection
  <1>4. seen' = [seen EXCEPT ![c] = s]
    BY Domains DEF Send
  <1>5. s \in Seq(Events) /\ Len(s) <= SeenCap /\ Range(s) \subseteq Range(seen[c]) \cup {e}
    <2>1. seen[c] \in Seq(Events) /\ Len(seen[c]) <= SeenCap
      BY Typed DEF ClientOK
    <2> HIDE DEF e
    <2>2. e \in Events
      BY <1>1
    <2> QED
      BY <2>1, <2>2, Remembered
  <1>6. late' = [late EXCEPT ![c] = l]
    BY Domains DEF Send
  <1>7. l \in Nat /\ l <= 1 /\ (MaySend(c) => l = 0)
    <2>1. late[c] = 0
      BY <1>1 DEF IInv, Vetted
    <2> QED
      BY <2>1 DEF MaySend
  <1> HIDE DEF x, s, l
  <1>8. /\ conn'[c] = x /\ conn' = [conn EXCEPT ![c] = conn'[c]]
        /\ seen'[c] = s /\ seen' = [seen EXCEPT ![c] = seen'[c]]
        /\ late'[c] = l /\ late' = [late EXCEPT ![c] = late'[c]]
    BY <1>2, <1>4, <1>6, Domains, Replaced
  <1> HIDE DEF e
  <1>9. /\ got'[c] = got[c] \cup {e} /\ got' = [got EXCEPT ![c] = got'[c]]
        /\ owed'[c] = owed[c] \ {e} /\ owed' = [owed EXCEPT ![c] = owed'[c]]
        /\ behind'[c] = behind[c] \ {e} /\ behind' = [behind EXCEPT ![c] = behind'[c]]
    BY Domains DEF Send, e
  <1>10. last'[c] \in {last[c], e} /\ last' = [last EXCEPT ![c] = last'[c]]
    BY Domains DEF Send, e
  <1>11. UNCHANGED <<outbox, worker, inbox, lagged, histories, reads, rights, faults>>
    BY DEF Send
  <1>12. Only(c)
    BY <1>8, <1>9, <1>10, <1>11, Domains, Still DEF Only, worker, rights
  <1>13. ClientOK(c)'
    <2>1. ClientOK(c) /\ Stored' = Stored
      BY <1>11, Typed DEF Stored, In
    <2> QED
      BY <1>1, <1>3, <1>5, <1>7, <1>8, <1>9, <1>10, <1>11, <2>1 DEF ClientOK, rights
  <1>14. Owing(c)' /\ Vetted(c)'
    BY <1>3, <1>5, <1>7, <1>8, <1>9, <1>11 DEF IInv, Owing, Vetted, MaySend, rights
  <1>15. Streams(c)'
    <2>1. ASSUME NEW d \in owed[c], d # e
          PROVE  OnItsWay(c, d)' \/ (d \in behind'[c] /\ histories'[c] # "read")
      <3>1. OnItsWay(c, d) \/ (d \in behind[c] /\ histories[c] # "read")
        BY <1>1 DEF IInv, Streams
      <3> QED
        BY <1>3, <1>8, <1>9, <1>11, <2>1, <3>1 DEF OnItsWay, In, worker, e
    <2> QED
      BY <1>9, <2>1 DEF Streams
  <1> QED
    BY <1>11, <1>12, <1>13, <1>14, <1>15, ClientStep DEF IInv, TypeOK

-----------------------------------------------------------------------------
(* Steps that concern all clients.                                         *)

\* A step that leaves the clients and the worker's batch alone, and lets the
\* rows of the outbox pass on.
LEMMA RowStep ==
    ASSUME IInv, NEW e \in Events, NEW s \in {"open", "gone"},
           outbox[e] \in {"unallocated", "open"},
           outbox' = [outbox EXCEPT ![e] = s],
           UNCHANGED <<worker, pump, client, rights, history, faults>>
    PROVE  IInv'
  <1>1. outbox \in [Events -> {"unallocated", "open", "unpublished", "published", "gone"}]
    BY DEF IInv, TypeOK
  <1>2. outbox' \in [Events -> {"unallocated", "open", "unpublished", "published", "gone"}]
    BY <1>1
  <1>3. In("unpublished")' = In("unpublished") /\ In("published")' = In("published")
    BY <1>1 DEF In
  <1>4. Stored' = Stored
    BY <1>3 DEF Stored
  <1>5. TypeOK'
    BY <1>2, <1>3, <1>4 DEF IInv, TypeOK, worker, pump, client, rights, history
  <1>6. Shapes'
    BY <1>4 DEF IInv, Shapes, pump, client, history
  <1>7. ASSUME NEW c \in Clients
        PROVE  Owing(c)' /\ Vetted(c)' /\ Streams(c)'
    BY <1>3 DEF IInv, Owing, Vetted, MaySend, Streams, OnItsWay, worker, pump, client,
                rights, history
  <1> QED
    BY <1>5, <1>6, <1>7 DEF IInv

\* An id is drawn, or its transaction rolls back: no query sees the row.
LEMMA AllocateAbortStep ==
    ASSUME IInv, Allocate \/ AbortEvent
    PROVE  IInv'
  <1>1. CASE Allocate
    <2>1. PICK e \in In("unallocated") : outbox' = [outbox EXCEPT ![e] = "open"]
      BY <1>1 DEF Allocate
    <2>2. e \in Events /\ outbox[e] = "unallocated"
      BY DEF In
    <2> QED
      BY <1>1, <2>1, <2>2, RowStep DEF Allocate
  <1>2. CASE AbortEvent
    <2>1. PICK e \in In("open") : outbox' = [outbox EXCEPT ![e] = "gone"]
      BY <1>2 DEF AbortEvent
    <2>2. e \in Events /\ outbox[e] = "open"
      BY DEF In
    <2> QED
      BY <1>2, <2>1, <2>2, RowStep DEF AbortEvent
  <1> QED
    BY <1>1, <1>2

\* The next round of the worker will find a row that is committed, whatever
\* ids are taken or replayed already.
LEMMA CommitStep ==
    ASSUME IInv, CommitEvent
    PROVE  IInv'
  <1>1. PICK e \in In("open") :
           /\ outbox' = [outbox EXCEPT ![e] = "unpublished"]
           /\ owed' = [c \in Clients |->
                          IF live[c] /\ access[c] THEN owed[c] \cup {e} ELSE owed[c]]
           /\ UNCHANGED <<worker, pump, client, rights, behind, late, faults>>
    BY DEF CommitEvent
  <1>2. outbox \in [Events -> {"unallocated", "open", "unpublished", "published", "gone"}]
    BY DEF IInv, TypeOK
  <1>3. outbox' \in [Events -> {"unallocated", "open", "unpublished", "published", "gone"}]
    BY <1>1, <1>2
  <1>4. /\ e \in Events /\ e \notin Stored /\ e \notin In("unpublished")
        /\ In("unpublished")' = In("unpublished") \cup {e}
        /\ In("published")' = In("published")
    BY <1>1, <1>2 DEF In, Stored
  <1>5. Stored' = Stored \cup {e}
    BY <1>4 DEF Stored
  <1>6. ASSUME NEW c \in Clients
        PROVE  /\ owed'[c] \in {owed[c], owed[c] \cup {e}} /\ owed[c] \subseteq owed'[c]
               /\ ~access[c] => owed'[c] = owed[c]
    BY <1>1
  <1>7. owed' \in [Clients -> SUBSET Events]
    BY <1>1, <1>4, Domains
  <1>8. ASSUME NEW c \in Clients
        PROVE  ClientOK(c)'
    <2>1. ClientOK(c)
      BY Typed
    <2> QED
      BY <1>1, <1>4, <1>5, <1>6, <2>1 DEF ClientOK, pump, client, rights
  <1>9. TypeOK' /\ Shapes'
    <2>1. conn' \in [Clients -> Connection]
          /\ {lagged, live, access}' \subseteq [Clients -> BOOLEAN]
          /\ histories' \in [Clients -> {"read", "due", "failed"}] /\ reads' \in [Clients -> 0..2]
      BY <1>1 DEF IInv, TypeOK, pump, client, rights
    <2>2. batch' \subseteq In("unpublished")' /\ todo' \subseteq batch' /\ faults' \in 0..MaxFaults
      BY <1>1, <1>4 DEF IInv, TypeOK, worker
    <2>3. TypeOK'
      BY <1>3, <1>8, <2>1, <2>2 DEF TypeOK, ClientOK
    <2>4. Shapes'
      BY <1>1, <1>7, <1>8 DEF IInv, Shapes, ClientOK, pump, client
    <2> QED
      BY <2>3, <2>4
  <1>10. ASSUME NEW c \in Clients
         PROVE  Owing(c)' /\ Vetted(c)'
    <2>1. Range(seen[c]) \subseteq Stored
      BY Typed DEF ClientOK
    <2> QED
      BY <1>1, <1>4, <1>6, <2>1 DEF IInv, Owing, Vetted, MaySend, pump, client, rights
  <1>11. ASSUME NEW c \in Clients
         PROVE  Streams(c)'
    <2>1. batch \subseteq In("unpublished")
      BY DEF IInv, TypeOK
    <2>2. Streams(c)
      BY DEF IInv
    <2> QED
      BY <1>1, <1>4, <1>6, <2>1, <2>2 DEF Streams, OnItsWay, worker, pump, client
  <1> QED
    BY <1>9, <1>10, <1>11 DEF IInv

\* Rows are claimed; or they stay unpublished and are claimed once more.
LEMMA ClaimStep ==
    ASSUME IInv, Claim \/ MarkFails
    PROVE  IInv'
  <1>1. /\ UNCHANGED <<outbox, pump, client, rights, history>>
        /\ faults' \in 0..MaxFaults
    BY MaxFaultsAssumption DEF Claim, MarkFails, Fault, IInv, TypeOK
  <1>2. batch' \subseteq In("unpublished") /\ todo' = batch' /\ todo = {}
    <2>1. ASSUME Claim
          PROVE  batch' \subseteq In("unpublished") /\ todo' = batch' /\ todo = {}
      BY <2>1 DEF Claim, IInv, TypeOK
    <2>2. ASSUME MarkFails
          PROVE  batch' \subseteq In("unpublished") /\ todo' = batch' /\ todo = {}
      BY <2>2 DEF MarkFails
    <2> QED
      BY <2>1, <2>2
  <1>3. In("unpublished")' = In("unpublished") /\ Stored' = Stored
    BY <1>1 DEF In, Stored
  <1>4. TypeOK'
    BY <1>1, <1>2, <1>3 DEF IInv, TypeOK, pump, client, rights, history
  <1>5. Shapes'
    BY <1>1, <1>3 DEF IInv, Shapes, pump, client, history
  <1>6. ASSUME NEW c \in Clients
        PROVE  Owing(c)' /\ Vetted(c)' /\ Streams(c)'
    BY <1>1, <1>2, <1>3 DEF IInv, Owing, Vetted, MaySend, Streams, OnItsWay, pump, client,
                            rights, history
  <1> QED
    BY <1>4, <1>5, <1>6 DEF IInv

\* A row is marked when every subscription has been offered it: it waits in
\* one, or the subscription knows that it lagged.
LEMMA MarkStep ==
    ASSUME IInv, Mark
    PROVE  IInv'
  <1>1. /\ todo = {} /\ batch' = {} /\ UNCHANGED <<todo, pump, client, rights, history, faults>>
        /\ outbox' = [e \in Events |-> IF e \in batch THEN "published" ELSE outbox[e]]
    BY DEF Mark
  <1>2. outbox \in [Events -> {"unallocated", "open", "unpublished", "published", "gone"}]
    BY DEF IInv, TypeOK
  <1>3. outbox' \in [Events -> {"unallocated", "open", "unpublished", "published", "gone"}]
    BY <1>1, <1>2
  <1>4. batch \subseteq In("unpublished")
    BY DEF IInv, TypeOK
  <1>5. /\ In("unpublished")' = In("unpublished") \ batch
        /\ In("published")' = In("published") \cup batch
    BY <1>1, <1>4 DEF In
  <1>6. Stored' = Stored
    BY <1>4, <1>5 DEF Stored
  <1>7. TypeOK'
    BY <1>1, <1>3, <1>6 DEF IInv, TypeOK, pump, client, rights, history
  <1>8. Shapes'
    BY <1>1, <1>6 DEF IInv, Shapes, pump, client, history
  <1>9. ASSUME NEW c \in Clients
        PROVE  Owing(c)' /\ Vetted(c)' /\ Streams(c)'
    BY <1>1, <1>5 DEF IInv, Owing, Vetted, MaySend, Streams, OnItsWay, pump, client,
                      rights, history
  <1> QED
    BY <1>7, <1>8, <1>9 DEF IInv

\* What a crash leaves has no connection.
LEMMA CrashStep ==
    ASSUME IInv, Crash
    PROVE  IInv'
  <1>1. /\ outbox' = [e \in Events |-> IF outbox[e] = "open" THEN "gone" ELSE outbox[e]]
        /\ batch' = {} /\ todo' = {}
        /\ conn' = [c \in Clients |-> Off] /\ inbox' = [c \in Clients |-> <<>>]
        /\ lagged' = [c \in Clients |-> FALSE] /\ seen' = [c \in Clients |-> <<>>]
        /\ UNCHANGED <<client, rights, history>>
    BY DEF Crash
  <1>2. outbox \in [Events -> {"unallocated", "open", "unpublished", "published", "gone"}]
    BY DEF IInv, TypeOK
  <1>3. outbox' \in [Events -> {"unallocated", "open", "unpublished", "published", "gone"}]
    BY <1>1, <1>2
  <1>4. In("unpublished")' = In("unpublished") /\ In("published")' = In("published")
    BY <1>1, <1>2 DEF In
  <1>5. Stored' = Stored
    BY <1>4 DEF Stored
  <1>6. Off \in Connection /\ Off.at = "off" /\ Off.cur = 0 /\ Off.page = {}
    BY OffIsOff
  <1>7. Range(<<>>) = {} /\ Len(<<>>) = 0 /\ <<>> \in Seq(Events)
    BY NothingQueued
  <1>8. 0 <= HubCapacity /\ 0 <= SeenCap /\ faults' \in 0..MaxFaults
    BY SizesAssumption, MaxFaultsAssumption DEF Crash, Fault, IInv, TypeOK
  <1>9. /\ conn' \in [Clients -> Connection] /\ inbox' \in [Clients -> Seq(Events)]
        /\ seen' \in [Clients -> Seq(Events)] /\ lagged' \in [Clients -> BOOLEAN]
    BY <1>1, <1>6, <1>7
  <1>10. ASSUME NEW c \in Clients
         PROVE  conn'[c] = Off /\ inbox'[c] = <<>> /\ seen'[c] = <<>>
    BY <1>1
  <1>11. TypeOK'
    <2>1. /\ {lagged, live, access}' \subseteq [Clients -> BOOLEAN]
          /\ histories' \in [Clients -> {"read", "due", "failed"}] /\ reads' \in [Clients -> 0..2]
      BY <1>1, <1>9, Domains DEF client, rights
    <2>2. ASSUME NEW c \in Clients
          PROVE  /\ (Range(inbox[c]) \cup Range(seen[c]) \cup got[c] \subseteq Stored)'
                 /\ Len(inbox[c])' <= HubCapacity /\ Len(seen[c])' <= SeenCap
                 /\ (last[c] \in got[c] \cup {0})'
                 /\ (behind[c] \subseteq owed[c])' /\ (owed[c] \subseteq Stored)'
                 /\ (late[c] \in Nat)'
      BY <1>1, <1>5, <1>7, <1>8, <1>10, Typed DEF ClientOK, client, rights, history
    <2> QED
      BY <1>1, <1>3, <1>8, <1>9, <2>1, <2>2 DEF TypeOK
  <1>12. Shapes'
    BY <1>1, <1>6, <1>9, <1>10 DEF IInv, Shapes, client, history
  <1>13. ASSUME NEW c \in Clients
         PROVE  Owing(c)' /\ Vetted(c)' /\ Streams(c)'
    BY <1>1, <1>6, <1>7, <1>10 DEF IInv, Owing, Vetted, MaySend, Streams, client, rights,
                                   history
  <1> QED
    BY <1>11, <1>12, <1>13 DEF IInv

\* A subscription takes the broadcast, and knows when it had to drop one.
LEMMA Offered ==
    ASSUME NEW q \in Seq(Events), Len(q) <= HubCapacity, NEW e \in Events
    PROVE  /\ Keep(Append(q, e)) \in Seq(Events) /\ Len(Keep(Append(q, e))) <= HubCapacity
           /\ Range(Keep(Append(q, e))) \subseteq Range(q) \cup {e}
           /\ Len(q) # HubCapacity => Range(Keep(Append(q, e))) = Range(q) \cup {e}
  <1>1. Len(q) \in Nat /\ HubCapacity \in Nat \ {0}
    BY SizesAssumption
  <1> DEFINE p == Append(q, e)
  <1>2. p \in Seq(Events) /\ Len(p) = Len(q) + 1 /\ Range(p) = Range(q) \cup {e}
    BY AppendAdds
  <1> HIDE DEF p
  <1>3. CASE Len(q) = HubCapacity
    <2>1. p # <<>>
      BY <1>1, <1>2, NothingQueued
    <2>2. /\ Tail(p) \in Seq(Events) /\ Len(Tail(p)) = Len(p) - 1
          /\ Range(p) = {Head(p)} \cup Range(Tail(p))
      BY <1>2, <2>1, TailLeaves
    <2>3. Keep(p) = Tail(p)
      BY <1>1, <1>2, <1>3 DEF Keep
    <2> QED
      BY <1>1, <1>2, <1>3, <2>2, <2>3 DEF p
  <1>4. CASE Len(q) # HubCapacity
    <2>1. Keep(p) = p
      BY <1>1, <1>2, <1>4 DEF Keep
    <2> QED
      BY <1>1, <1>2, <1>4, <2>1 DEF p
  <1> QED
    BY <1>3, <1>4

\* A broadcast is offered to every subscription, and a subscription is older
\* than the replay: whoever streams gets it or has lagged.
LEMMA BroadcastStep ==
    ASSUME IInv, Broadcast
    PROVE  IInv'
  <1>1. PICK e \in todo :
           /\ todo' = todo \ {e}
           /\ inbox' = [c \in Clients |->
                           IF Listening(c) THEN Keep(Append(inbox[c], e)) ELSE inbox[c]]
           /\ lagged' = [c \in Clients |->
                            lagged[c] \/ (Listening(c) /\ Len(inbox[c]) = HubCapacity)]
           /\ UNCHANGED <<outbox, batch, conn, seen, client, rights, history, faults>>
    BY DEF Broadcast
  <1>2. todo \subseteq batch /\ batch \subseteq In("unpublished")
    BY DEF IInv, TypeOK
  <1>3. e \in Events /\ e \in Stored
    BY <1>2 DEF In, Stored
  <1>4. In("unpublished")' = In("unpublished") /\ Stored' = Stored
    BY <1>1 DEF In, Stored
  <1>5. ASSUME NEW c \in Clients
        PROVE  /\ inbox'[c] \in Seq(Events) /\ Len(inbox'[c]) <= HubCapacity
               /\ Range(inbox'[c]) \subseteq Range(inbox[c]) \cup {e}
               /\ Range(inbox[c]) \subseteq Range(inbox'[c]) \/ lagged'[c]
               /\ conn[c].at # "off" => e \in Range(inbox'[c]) \/ lagged'[c]
               /\ lagged[c] => lagged'[c]
    <2>1. inbox[c] \in Seq(Events) /\ Len(inbox[c]) <= HubCapacity
      BY Typed DEF ClientOK
    <2> DEFINE k == Keep(Append(inbox[c], e))
    <2>2. /\ k \in Seq(Events) /\ Len(k) <= HubCapacity
          /\ Range(k) \subseteq Range(inbox[c]) \cup {e}
          /\ Len(inbox[c]) # HubCapacity => Range(k) = Range(inbox[c]) \cup {e}
      BY <1>3, <2>1, Offered
    <2>3. inbox'[c] = IF conn[c].at # "off" THEN k ELSE inbox[c]
      BY <1>1 DEF Listening
    <2>4. /\ lagged[c] => lagged'[c]
          /\ conn[c].at # "off" /\ Len(inbox[c]) = HubCapacity => lagged'[c]
      BY <1>1 DEF Listening
    <2> HIDE DEF k
    <2> QED
      BY <2>1, <2>2, <2>3, <2>4
  <1>6. lagged' \in [Clients -> BOOLEAN]
    BY <1>1
  <1>7. inbox' \in [Clients -> Seq(Events)]
    BY <1>1, <1>5
  <1>8. TypeOK'
    <2>1. ASSUME NEW c \in Clients
          PROVE  /\ (Range(inbox[c]) \cup Range(seen[c]) \cup got[c] \subseteq Stored)'
                 /\ Len(inbox[c])' <= HubCapacity /\ Len(seen[c])' <= SeenCap
                 /\ (last[c] \in got[c] \cup {0})'
                 /\ (behind[c] \subseteq owed[c])' /\ (owed[c] \subseteq Stored)'
                 /\ (late[c] \in Nat)'
      BY <1>1, <1>3, <1>4, <1>5, Typed DEF ClientOK, client, rights, history
    <2>2. /\ {lagged, live, access}' \subseteq [Clients -> BOOLEAN]
          /\ histories' \in [Clients -> {"read", "due", "failed"}] /\ reads' \in [Clients -> 0..2]
      BY <1>1, <1>6, Domains DEF client, rights
    <2>3. /\ conn' \in [Clients -> Connection] /\ faults' \in 0..MaxFaults
          /\ outbox' \in [Events -> {"unallocated", "open", "unpublished", "published", "gone"}]
          /\ batch' \subseteq In("unpublished")' /\ todo' \subseteq batch'
      BY <1>1, <1>2, <1>4 DEF IInv, TypeOK
    <2> QED
      BY <2>1, <2>2, <2>3 DEF TypeOK
  <1>9. Shapes'
    BY <1>1, <1>4, <1>7 DEF IInv, Shapes, client, history
  <1>10. ASSUME NEW c \in Clients
         PROVE  Owing(c)' /\ Vetted(c)'
    BY <1>1 DEF IInv, Owing, Vetted, MaySend, rights, history
  <1>11. ASSUME NEW c \in Clients
         PROVE  Streams(c)'
    <2> SUFFICES ASSUME conn[c].at \in {"pump", "sending"}, NEW d \in owed[c]
                 PROVE  OnItsWay(c, d)' \/ (d \in behind[c] /\ histories[c] # "read")
      BY <1>1 DEF Streams, client, history
    <2>1. OnItsWay(c, d) \/ (d \in behind[c] /\ histories[c] # "read")
      BY DEF IInv, Streams
    <2>2. conn[c].at # "off"
      OBVIOUS
    <2> QED
      BY <1>1, <1>4, <1>5, <2>1, <2>2 DEF OnItsWay
  <1> QED
    BY <1>8, <1>9, <1>10, <1>11 DEF IInv

-----------------------------------------------------------------------------
(* The theorems.                                                           *)

\* At the start nobody is connected and nothing is owed.
LEMMA InitEstablishes == Init => IInv
  <1> SUFFICES ASSUME Init
               PROVE  IInv
    OBVIOUS
  <1>1. /\ outbox = [e \in Events |-> "unallocated"] /\ batch = {} /\ todo = {} /\ faults = 0
        /\ conn = [c \in Clients |-> Off] /\ inbox = [c \in Clients |-> <<>>]
        /\ lagged = [c \in Clients |-> FALSE] /\ seen = [c \in Clients |-> <<>>]
        /\ live = [c \in Clients |-> TRUE] /\ access = [c \in Clients |-> TRUE]
        /\ got = [c \in Clients |-> {}] /\ last = [c \in Clients |-> 0]
        /\ histories = [c \in Clients |-> "read"] /\ reads = [c \in Clients |-> 0]
        /\ owed = [c \in Clients |-> {}]
        /\ behind = [c \in Clients |-> {}] /\ late = [c \in Clients |-> 0]
    BY DEF Init
  <1>2. Off \in Connection /\ Off.at = "off" /\ Off.cur = 0 /\ Off.page = {}
    BY OffIsOff
  <1>3. Range(<<>>) = {} /\ Len(<<>>) = 0 /\ <<>> \in Seq(Events)
    BY NothingQueued
  <1>4. 0 <= HubCapacity /\ 0 <= SeenCap /\ faults \in 0..MaxFaults
    BY <1>1, SizesAssumption, MaxFaultsAssumption
  <1>5. {lagged, live, access} \subseteq [Clients -> BOOLEAN]
    BY <1>1
  <1>6. outbox \in [Events -> {"unallocated", "open", "unpublished", "published", "gone"}]
    BY <1>1
  <1>7. ASSUME NEW c \in Clients
        PROVE  /\ conn[c] = Off /\ inbox[c] = <<>> /\ seen[c] = <<>> /\ got[c] = {}
               /\ last[c] = 0 /\ owed[c] = {} /\ behind[c] = {} /\ late[c] = 0
    BY <1>1
  <1>8. conn \in [Clients -> Connection]
    BY <1>1, <1>2
  <1>9. TypeOK
    BY <1>1, <1>3, <1>4, <1>5, <1>6, <1>7, <1>8 DEF TypeOK
  <1>10. Shapes
    BY <1>1, <1>2, <1>3, <1>7 DEF Shapes
  <1>11. ASSUME NEW c \in Clients
         PROVE  Owing(c) /\ Vetted(c) /\ Streams(c)
    BY <1>2, <1>3, <1>7 DEF Owing, Vetted, Streams
  <1> QED
    BY <1>9, <1>10, <1>11 DEF IInv

\* Every step keeps the invariant.
LEMMA NextKeeps == IInv /\ [Next]_vars => IInv'
  <1> SUFFICES ASSUME IInv, [Next]_vars
               PROVE  IInv'
    OBVIOUS
  <1>1. CASE Allocate \/ AbortEvent
    BY <1>1, AllocateAbortStep
  <1>2. CASE CommitEvent
    BY <1>2, CommitStep
  <1>3. CASE OutboxWorker
    BY <1>3, ClaimStep, BroadcastStep, MarkStep DEF OutboxWorker
  <1>4. CASE MarkFails
    BY <1>4, ClaimStep
  <1>5. CASE Crash
    BY <1>5, CrashStep
  <1>6. ASSUME NEW c \in Clients, Gateway(c)
        PROVE  IInv'
    BY <1>6, ConnectStep, IdentifyStep, BreakNoticeStep, ReadPageStep, TakeReplayedStep,
       LagStep, TakeLiveStep, SendStep DEF Gateway
  <1>7. ASSUME NEW c \in Clients,
               \/ Reconcile(c) \/ ReadFails(c) \/ Select(c) \/ Break(c)
               \/ Revoke(c) \/ Kick(c) \/ Readmit(c)
        PROVE  IInv'
    BY <1>7, ReconcileStep, ReadFailsStep, SelectStep, BreakNoticeStep, RevokeStep, KickStep,
       ReadmitStep
  <1>8. CASE UNCHANGED vars
    BY <1>8 DEF IInv, TypeOK, Shapes, Owing, Vetted, Streams, MaySend, OnItsWay, Stored, In,
                vars, worker, pump, client, rights, history
  <1> QED
    BY <1>1, <1>2, <1>3, <1>4, <1>5, <1>6, <1>7, <1>8 DEF Next

\* The inductive invariant holds of every behaviour: the worker, the hub, the
\* replay and the client together account for every message.
THEOREM Invariance == Spec => []IInv
  BY InitEstablishes, NextKeeps, PTL DEF Spec

\* Types, and the capacities of the subscription (HUB_CAPACITY) and of the
\* memory of what a connection has sent.
THEOREM TypeCorrect == Spec => []TypeOK
  <1>1. IInv => TypeOK
    BY DEF IInv
  <1> QED
    BY <1>1, Invariance, PTL

\* While a connection streams, every message that its client may read and has
\* not heard of is on its way to it, or below the cursor of a resume after
\* which no reading of the histories has succeeded: whatever the order of the commits, however
\* often a subscription overflows and wherever the process dies.
THEOREM NothingLost == Spec => []Accounted
  <1>1. IInv => Accounted
    BY DEF IInv, Streams, Accounted
  <1> QED
    BY <1>1, Invariance, PTL

\* After its session ends or it is kicked, a client is sent the one event that
\* its connection had vetted, and no other.
THEOREM RevokedStop == Spec => []RevokedStops
  <1>1. IInv => RevokedStops
    BY DEF IInv, Vetted, RevokedStops
  <1> QED
    BY <1>1, Invariance, PTL
=============================================================================
