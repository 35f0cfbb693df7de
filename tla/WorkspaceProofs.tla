--------------------------- MODULE WorkspaceProofs ---------------------------
(***************************************************************************)
(* Proofs about Workspace and ChannelAccess, for all users, roles, sets of *)
(* concurrent requests and of handlers that run.                           *)
(***************************************************************************)
EXTENDS ChannelAccess, SumProofs

\* The handlers that can be at a statement.
OpsAt(step) ==
    CASE step = "idle" -> {None}
      [] step \in {"select", "lock"} -> Managed
      [] step = "write" -> Removals \cup {"set_role"}
      [] step = "clean" -> Removals
      [] step = "commit" -> Removals \cup {"set_role"}
      [] step = "unban" -> {"unban"}
      [] step = "check" -> {"add_member"}
      [] step = "redeem" -> {"join_via_invite"}
      [] step \in {"insert", "seat"} -> {"add_member", "join_via_invite"}
      [] step = "revoke" -> {"revoke_invite"}
      [] step = "override" -> {"set_override"}
      [] step \in {"snapshot", "create"} -> {"create_channel"}

Joins == {"add_member", "join_via_invite"}

\* What a request is about, and what it may have written.
Formed(r) ==
    LET c == call[r]
    IN  /\ c.op \in OpsAt(at[r])
        /\ c.op \in Ops \cup {None}
        /\ c.op \in Managed \cup Joins \cup {"leave"} =>
               c.actor \in Users /\ c.target \in Users
        /\ c.op \in Joins \cup {"set_role"} => c.new \in Roles
        /\ c.op \in Removals => c.new = None
        /\ c.op = "set_override" => c.subject \in Subjects
        /\ at[r] \notin {"clean", "commit", "seat"} => c.writes = {}
        /\ "seat" \in c.writes => at[r] = "commit" /\ c.op \in Removals

\* The member rows a request has locked, in the order of their ids, and that
\* they stay as it found them.
RowsHeld(r) ==
    LET c == call[r]
    IN  /\ at[r] = "lock" =>
               /\ c.todo \subseteq Involved(r)
               /\ \A u \in c.todo : IsMember(u)
               /\ \A u \in Users, v \in c.todo : rowLock[u] = r => u < v
        /\ \A u \in Users : rowLock[u] = r =>
               /\ at[r] \in {"lock", "unban", "write", "clean", "commit", "seat"}
               /\ at[r] = "write" => c.op \in Managed
               /\ c.op \in Managed => IsMember(u)
        /\ c.op \in Managed /\ at[r] \in {"unban", "write", "clean", "commit"} => Authorised(r)

\* The member row that a request has written and not committed.
RowWritten(r) ==
    LET c == call[r]
    IN  /\ Writes(r, "row") => rowLock[c.target] = r
        /\ Writes(r, "row") => (c.op \in Joins <=> ~IsMember(c.target))
        /\ at[r] = "seat" => Writes(r, "row")
        /\ at[r] \in {"clean", "commit"} /\ c.op \in Managed => Writes(r, "row")

\* The invite of a join that has redeemed it.
InviteHeld(r) ==
    LET joining == at[r] \in {"insert", "seat"} /\ call[r].op = "join_via_invite"
    IN  /\ inviteLock = r <=> joining
        /\ joining => ~invite.revoked /\ invite.uses < MaxUses

\* Of transactions that never overlapped, at most one takes an owner away and
\* it leaves another.
OwnerKept ==
    ~raced =>
        /\ Owners # {}
        /\ \A q \in Reqs : TakingOwner(q) => \E u \in Owners : u # call[q].target
        /\ \A p, q \in Reqs : TakingOwner(p) /\ TakingOwner(q) => p = q

Mine(r) == Formed(r) /\ RowsHeld(r) /\ RowWritten(r) /\ InviteHeld(r)

\* What is known of a request that has entered a route.
Going(request) == request.at # "idle" => channel /\ request.user \in Users

Routed == \A p \in Posts : Going(post[p])

\* The inductive invariant.
IInv ==
    /\ TypeOK
    /\ \A r \in Reqs : Mine(r)
    /\ OwnerKept
    /\ Routed
    /\ invite.uses <= MaxUses

\* Only without channel creations: a removal that has looked for the seat
\* leaves none.
SeatsKept ==
    /\ OnlyMembersSeated
    /\ \A r \in Reqs :
          at[r] = "commit" /\ call[r].op \in Removals /\ Writes(r, "row") =>
              Writes(r, "seat") \/ call[r].target \notin seats

-----------------------------------------------------------------------------
(* Requests, and the steps that leave others alone.                        *)

\* The table of OpsAt.
LEMMA Table ==
    /\ OpsAt("idle") = {None} /\ OpsAt("select") = Managed /\ OpsAt("lock") = Managed
    /\ OpsAt("write") = Removals \cup {"set_role"} /\ OpsAt("clean") = Removals
    /\ OpsAt("commit") = Removals \cup {"set_role"} /\ OpsAt("unban") = {"unban"}
    /\ OpsAt("check") = {"add_member"} /\ OpsAt("redeem") = {"join_via_invite"}
    /\ OpsAt("insert") = {"add_member", "join_via_invite"}
    /\ OpsAt("seat") = {"add_member", "join_via_invite"}
    /\ OpsAt("revoke") = {"revoke_invite"} /\ OpsAt("override") = {"set_override"}
    /\ OpsAt("snapshot") = {"create_channel"} /\ OpsAt("create") = {"create_channel"}
  BY DEF OpsAt

\* What IInv says of one request.
LEMMA Typed ==
    ASSUME IInv, NEW r \in Reqs
    PROVE  /\ at[r] \in Steps /\ call[r] \in Call /\ Mine(r)
           /\ Formed(r) /\ RowsHeld(r) /\ RowWritten(r) /\ InviteHeld(r)
           /\ at \in [Reqs -> Steps] /\ call \in [Reqs -> Call]
           /\ role \in [Users -> Roles \cup {None}]
           /\ rowLock \in [Users -> Reqs \cup {None}]
           /\ seatLock \in [Users -> Reqs \cup Posts \cup {None}]
           /\ r # None
  BY NoneAssumption DEF IInv, TypeOK, Mine

\* Who has written a member row works on a user.
LEMMA Writers ==
    ASSUME IInv, NEW r \in Reqs, Writes(r, "row")
    PROVE  /\ call[r].target \in Users /\ rowLock[call[r].target] = r
           /\ at[r] \in {"clean", "commit", "seat"}
           /\ call[r].op \in Removals \cup Joins \cup {"set_role"}
  <1>1. at[r] \in {"clean", "commit", "seat"} /\ rowLock[call[r].target] = r
    BY Typed DEF Formed, RowWritten, Writes
  <1>2. call[r].op \in Removals \cup Joins \cup {"set_role"}
    BY <1>1, Typed, Table DEF Formed, Removals, Joins
  <1>3. call[r].target \in Users
    BY <1>2, Typed DEF Formed, Removals, Joins, Managed
  <1> QED
    BY <1>1, <1>2, <1>3

\* A request that a step does not move, whose locked rows and invite it leaves.
LEMMA OthersKept ==
    ASSUME IInv, NEW q \in Reqs,
           at'[q] = at[q],
           call'[q].op = call[q].op, call'[q].actor = call[q].actor,
           call'[q].target = call[q].target, call'[q].new = call[q].new,
           call'[q].subject = call[q].subject, call'[q].writes = call[q].writes,
           call'[q].todo \subseteq call[q].todo,
           at[q] = "lock" => \A u \in call'[q].todo : role'[u] # None,
           \A u \in Users : rowLock'[u] = q <=> rowLock[u] = q,
           \A u \in Users : rowLock[u] = q => role'[u] = role[u],
           inviteLock' = q <=> inviteLock = q,
           inviteLock = q => invite'.revoked = invite.revoked /\ invite'.uses = invite.uses
    PROVE  Mine(q)'
  <1>1. Formed(q)'
    BY Typed DEF Formed
  <1>2. Involved(q)' = Involved(q)
    BY DEF Involved
  <1>3. RowsHeld(q)'
    <2>1. ASSUME at[q] = "lock"
          PROVE  /\ call'[q].todo \subseteq Involved(q)'
                 /\ \A u \in call'[q].todo : IsMember(u)'
                 /\ \A u \in Users, v \in call'[q].todo : rowLock'[u] = q => u < v
      BY <1>2, <2>1, Typed DEF RowsHeld, IsMember
    <2>2. ASSUME NEW u \in Users, rowLock'[u] = q
          PROVE  /\ at[q] \in {"lock", "unban", "write", "clean", "commit", "seat"}
                 /\ at[q] = "write" => call[q].op \in Managed
                 /\ call[q].op \in Managed => IsMember(u)'
      BY <2>2, Typed DEF RowsHeld, IsMember
    <2>3. ASSUME call[q].op \in Managed, at[q] \in {"unban", "write", "clean", "commit"}
          PROVE  Authorised(q)'
      <3>1. Authorised(q)
        BY <2>3, Typed DEF RowsHeld
      <3>2. call[q].actor \in Users /\ call[q].target \in Users
        BY <2>3, Typed DEF Formed
      <3>3. \A u \in Involved(q) : u \in Users /\ rowLock[u] = q /\ role'[u] = role[u]
        BY <3>1, <3>2 DEF Authorised, Involved
      <3>4. /\ call[q].actor \in Involved(q)
            /\ call[q].op # "unban" => call[q].target \in Involved(q)
        BY DEF Involved
      <3> QED
        BY <1>2, <3>1, <3>3, <3>4 DEF Authorised
    <2> QED
      BY <2>1, <2>2, <2>3 DEF RowsHeld
  <1>4. RowWritten(q)'
    <2>1. Writes(q, "row")' <=> Writes(q, "row")
      BY DEF Writes
    <2>2. Writes(q, "row") => call[q].target \in Users /\ rowLock[call[q].target] = q
      BY Writers
    <2> QED
      BY <2>1, <2>2, Typed DEF RowWritten, IsMember
  <1>5. InviteHeld(q)'
    BY Typed DEF InviteHeld
  <1> QED
    BY <1>1, <1>3, <1>4, <1>5 DEF Mine

\* Owners stay, and nobody newly takes one away.
LEMMA TakersKept ==
    ASSUME IInv, role' = role, raced' = raced,
           \A q \in Reqs : TakingOwner(q)' =>
               TakingOwner(q) /\ call'[q].target = call[q].target
    PROVE  OwnerKept'
  <1>1. Owners' = Owners
    BY DEF Owners
  <1> QED
    BY <1>1 DEF IInv, OwnerKept

\* That is so when nobody writes a member row.
LEMMA OwnersKept ==
    ASSUME IInv, role' = role, raced' = raced,
           \A q \in Reqs : Writes(q, "row")' =>
               /\ Writes(q, "row") /\ call'[q].target = call[q].target
               /\ call'[q].new = call[q].new
    PROVE  OwnerKept'
  <1>1. \A q \in Reqs : TakingOwner(q)' => TakingOwner(q) /\ call'[q].target = call[q].target
    BY DEF TakingOwner, TakesOwner
  <1> QED
    BY <1>1, TakersKept

\* The parts of TypeOK about rows, and those about requests and locks.
TablesOK ==
    /\ role \in [Users -> Roles \cup {None}]
    /\ banned \subseteq Users
    /\ channel \in BOOLEAN
    /\ seats \subseteq Users
    /\ override \in [Subjects -> Verdicts]
    /\ invite \in Invite

LocksOK ==
    /\ rowLock \in [Users -> Reqs \cup {None}]
    /\ seatLock \in [Users -> Reqs \cup Posts \cup {None}]
    /\ inviteLock \in Reqs \cup {None}
    /\ \A u \in Users :
          /\ rowLock[u] # None => at[rowLock[u]] # "idle"
          /\ seatLock[u] \in Reqs => Writes(seatLock[u], "seat")
          /\ seatLock[u] \in Posts => post[seatLock[u]].at = "store"
    /\ inviteLock # None => at[inviteLock] # "idle"

RequestsOK ==
    /\ at \in [Reqs -> Steps]
    /\ call \in [Reqs -> Call]
    /\ calls \in 0..MaxCalls
    /\ raced \in BOOLEAN
    /\ post \in [Posts -> Post]

\* They are all of it.
LEMMA TypeParts == TypeOK <=> TablesOK /\ LocksOK /\ RequestsOK
  BY DEF TypeOK, TablesOK, LocksOK, RequestsOK

\* The empty record of a call, and what may be in it.
LEMMA BlankOK ==
    /\ Blank \in Call
    /\ Blank.op = None /\ Blank.writes = {} /\ Blank.todo = {} /\ Blank.new = None
    /\ Blank.actor = None /\ Blank.target = None
  BY DEF Blank, Call, Verdicts

\* What Finish does to the other requests and to the locks.
LEMMA Finished ==
    ASSUME IInv, NEW r \in Reqs, NEW gone, Finish(r, gone)
    PROVE  /\ at' = [at EXCEPT ![r] = "idle"] /\ at'[r] = "idle"
           /\ call'[r] = Blank /\ call' \in [Reqs -> Call]
           /\ \A q \in Reqs \ {r} :
                 /\ at'[q] = at[q]
                 /\ call'[q].op = call[q].op /\ call'[q].actor = call[q].actor
                 /\ call'[q].target = call[q].target /\ call'[q].new = call[q].new
                 /\ call'[q].subject = call[q].subject /\ call'[q].writes = call[q].writes
                 /\ call'[q].todo \subseteq call[q].todo
                 /\ at[q] = "lock" => call'[q].todo \cap gone = {}
           /\ rowLock' \in [Users -> Reqs \cup {None}]
           /\ seatLock' \in [Users -> Reqs \cup Posts \cup {None}]
           /\ inviteLock' \in Reqs \cup {None}
           /\ \A u \in Users : /\ rowLock'[u] # r /\ seatLock'[u] # r
                               /\ rowLock'[u] \in {rowLock[u], None}
                               /\ rowLock[u] # r => rowLock'[u] = rowLock[u]
                               /\ seatLock'[u] \in {seatLock[u], None}
           /\ inviteLock' # r /\ inviteLock' \in {inviteLock, None}
           /\ inviteLock # r => inviteLock' = inviteLock
  <1>1. /\ at' = [at EXCEPT ![r] = "idle"]
        /\ call' = [q \in Reqs |-> IF q = r THEN Blank
                                   ELSE IF at[q] = "lock"
                                        THEN [call[q] EXCEPT !.todo = call[q].todo \ gone]
                                        ELSE call[q]]
        /\ rowLock' = [u \in Users |-> IF rowLock[u] = r THEN None ELSE rowLock[u]]
        /\ seatLock' = [u \in Users |-> IF seatLock[u] = r THEN None ELSE seatLock[u]]
        /\ inviteLock' = IF inviteLock = r THEN None ELSE inviteLock
    BY DEF Finish, Unlock, Advance
  <1>2. /\ call \in [Reqs -> Call] /\ at \in [Reqs -> Steps] /\ r # None
        /\ rowLock \in [Users -> Reqs \cup {None}]
        /\ seatLock \in [Users -> Reqs \cup Posts \cup {None}]
        /\ inviteLock \in Reqs \cup {None}
    BY Typed DEF IInv, TypeOK
  <1>3. ASSUME NEW c \in Call
        PROVE  LET d == [c EXCEPT !.todo = c.todo \ gone]
               IN  /\ d \in Call /\ d.op = c.op /\ d.actor = c.actor /\ d.target = c.target
                   /\ d.new = c.new /\ d.subject = c.subject /\ d.writes = c.writes
                   /\ d.todo = c.todo \ gone
    BY DEF Call
  <1>4. call'[r] = Blank
    BY <1>1
  <1>5. ASSUME NEW q \in Reqs \ {r}
        PROVE  /\ call'[q] \in Call
               /\ call'[q].op = call[q].op /\ call'[q].actor = call[q].actor
               /\ call'[q].target = call[q].target /\ call'[q].new = call[q].new
               /\ call'[q].subject = call[q].subject /\ call'[q].writes = call[q].writes
               /\ call'[q].todo \subseteq call[q].todo
               /\ at[q] = "lock" => call'[q].todo \cap gone = {}
    <2>1. CASE at[q] = "lock"
      <3>1. call'[q] = [call[q] EXCEPT !.todo = call[q].todo \ gone]
        BY <1>1, <2>1
      <3>2. call[q] \in Call
        BY <1>2
      <3> QED
        BY <1>3, <3>1, <3>2
    <2>2. CASE at[q] # "lock"
      <3>1. call'[q] = call[q] /\ call[q] \in Call
        BY <1>1, <1>2, <2>2
      <3> QED
        BY <2>2, <3>1
    <2> QED
      BY <2>1, <2>2
  <1>6. call' \in [Reqs -> Call]
    <2>1. \A q \in Reqs : call'[q] \in Call
      BY <1>4, <1>5, BlankOK
    <2>2. DOMAIN call' = Reqs /\ call' = [q \in Reqs |-> call'[q]]
      BY <1>1
    <2> QED
      BY <2>1, <2>2
  <1>7. at'[r] = "idle" /\ \A q \in Reqs \ {r} : at'[q] = at[q]
    BY <1>1, <1>2
  <1>8. /\ rowLock' \in [Users -> Reqs \cup {None}]
        /\ \A u \in Users : /\ rowLock'[u] # r /\ rowLock'[u] \in {rowLock[u], None}
                            /\ rowLock[u] # r => rowLock'[u] = rowLock[u]
    BY <1>1, <1>2
  <1>9. /\ seatLock' \in [Users -> Reqs \cup Posts \cup {None}]
        /\ \A u \in Users : seatLock'[u] # r /\ seatLock'[u] \in {seatLock[u], None}
    BY <1>1, <1>2
  <1> QED
    BY <1>1, <1>2, <1>4, <1>5, <1>6, <1>7, <1>8, <1>9

\* A request that ends.
LEMMA FinishStep ==
    ASSUME IInv, NEW r \in Reqs, NEW gone, Finish(r, gone),
           TablesOK', invite'.uses <= MaxUses, OwnerKept',
           \A u \in Users : role'[u] = role[u] \/ rowLock[u] = r,
           \A u \in Users : role[u] # None => role'[u] # None \/ u \in gone,
           \A q \in Reqs \ {r} : inviteLock = q =>
              invite'.revoked = invite.revoked /\ invite'.uses = invite.uses,
           channel => channel', UNCHANGED <<calls, raced, post>>
    PROVE  IInv'
  <1>1. Mine(r)'
    <2>1. /\ at'[r] = "idle" /\ call'[r] = Blank /\ inviteLock' # r
          /\ \A u \in Users : rowLock'[u] # r
      BY Finished
    <2>2. None \notin Handlers /\ OpsAt("idle") = {None}
      BY NoneAssumption, Table
    <2>3. Formed(r)'
      BY <2>1, <2>2, BlankOK DEF Formed, Handlers, Joins, Managed, Removals
    <2>4. RowsHeld(r)' /\ RowWritten(r)' /\ InviteHeld(r)'
      BY <2>1, BlankOK DEF RowsHeld, RowWritten, InviteHeld, Writes
    <2> QED
      BY <2>3, <2>4 DEF Mine
  <1>2. ASSUME NEW q \in Reqs \ {r}
        PROVE  Mine(q)'
    <2>1. q # None /\ q # r
      BY Typed
    <2>2. at[q] = "lock" => \A u \in call'[q].todo : role'[u] # None
      <3> SUFFICES ASSUME at[q] = "lock", NEW u \in call'[q].todo
                   PROVE  role'[u] # None
        OBVIOUS
      <3>1. u \in call[q].todo /\ u \notin gone
        BY Finished
      <3>2. role[u] # None
        BY <3>1, Typed DEF RowsHeld, IsMember
      <3>3. u \in Users
        <4>1. call[q] \in Call
          BY Typed
        <4> QED
          BY <3>1, <4>1 DEF Call
      <3> QED
        BY <3>1, <3>2, <3>3
    <2>3. \A u \in Users : /\ rowLock'[u] = q <=> rowLock[u] = q
                           /\ rowLock[u] = q => role'[u] = role[u]
      BY <2>1, Finished
    <2>4. /\ inviteLock' = q <=> inviteLock = q
          /\ inviteLock = q => invite'.revoked = invite.revoked /\ invite'.uses = invite.uses
      BY <2>1, Finished
    <2>5. /\ at'[q] = at[q]
          /\ call'[q].op = call[q].op /\ call'[q].actor = call[q].actor
          /\ call'[q].target = call[q].target /\ call'[q].new = call[q].new
          /\ call'[q].subject = call[q].subject /\ call'[q].writes = call[q].writes
          /\ call'[q].todo \subseteq call[q].todo
      BY Finished
    <2> QED
      BY <2>2, <2>3, <2>4, <2>5, OthersKept
  <1>3. LocksOK'
    <2>1. /\ LocksOK /\ at'[r] = "idle"
          /\ \A q \in Reqs \ {r} : at'[q] = at[q] /\ call'[q].writes = call[q].writes
      BY Finished, TypeParts DEF IInv
    <2>2. ASSUME NEW u \in Users
          PROVE  /\ rowLock'[u] # None => at'[rowLock'[u]] # "idle"
                 /\ seatLock'[u] \in Reqs => "seat" \in call'[seatLock'[u]].writes
                 /\ seatLock'[u] \in Posts => post'[seatLock'[u]].at = "store"
      <3>1. /\ rowLock'[u] # r /\ rowLock'[u] \in {rowLock[u], None}
            /\ rowLock'[u] \in Reqs \cup {None}
            /\ seatLock'[u] # r /\ seatLock'[u] \in {seatLock[u], None}
        BY Finished
      <3>2. None \notin Reqs \cup Posts
        BY NoneAssumption
      <3>3. rowLock'[u] # None => at'[rowLock'[u]] # "idle"
        BY <2>1, <3>1 DEF LocksOK
      <3>4. ASSUME seatLock'[u] \in Reqs
            PROVE  "seat" \in call'[seatLock'[u]].writes
        <4>1. seatLock'[u] = seatLock[u] /\ seatLock[u] \in Reqs \ {r}
          BY <3>1, <3>2, <3>4
        <4>2. "seat" \in call[seatLock[u]].writes
          BY <2>1, <4>1 DEF LocksOK, Writes
        <4> QED
          BY <2>1, <4>1, <4>2
      <3>5. ASSUME seatLock'[u] \in Posts
            PROVE  post'[seatLock'[u]].at = "store"
        BY <2>1, <3>1, <3>2, <3>5 DEF LocksOK
      <3> QED
        BY <3>3, <3>4, <3>5
    <2>3. inviteLock' # None => at'[inviteLock'] # "idle"
      <3>1. /\ inviteLock' # r /\ inviteLock' \in {inviteLock, None}
            /\ inviteLock' \in Reqs \cup {None}
        BY Finished
      <3> QED
        BY <2>1, <3>1 DEF LocksOK
    <2>4. /\ rowLock' \in [Users -> Reqs \cup {None}]
          /\ seatLock' \in [Users -> Reqs \cup Posts \cup {None}]
          /\ inviteLock' \in Reqs \cup {None}
      BY Finished
    <2> QED
      BY <2>2, <2>3, <2>4 DEF LocksOK, Writes
  <1>4. RequestsOK'
    <2>1. RequestsOK
      BY TypeParts DEF IInv
    <2>2. at' \in [Reqs -> Steps] /\ call' \in [Reqs -> Call]
      BY <2>1, Finished DEF RequestsOK, Steps
    <2> QED
      BY <2>1, <2>2 DEF RequestsOK
  <1>5. TypeOK'
    BY <1>3, <1>4, TypeParts DEF TypeOK, TablesOK, LocksOK, RequestsOK
  <1>6. Routed'
    BY DEF IInv, Routed, Going
  <1> QED
    BY <1>1, <1>2, <1>5, <1>6 DEF IInv

\* Who ends without a trace.
LEMMA AbandonStep ==
    ASSUME IInv, NEW r \in Reqs, Abandon(r)
    PROVE  IInv'
  <1>1. Finish(r, {}) /\ UNCHANGED <<tables, calls, raced, post>>
    BY DEF Abandon
  <1>2. TablesOK'
    BY <1>1, TypeParts DEF IInv, TablesOK, tables
  <1>3. OwnerKept'
    <2>1. \A q \in Reqs : Writes(q, "row")' =>
             /\ Writes(q, "row") /\ call'[q].target = call[q].target
             /\ call'[q].new = call[q].new
      BY <1>1, Finished, BlankOK DEF Writes
    <2> QED
      BY <1>1, <2>1, OwnersKept DEF tables
  <1> QED
    BY <1>1, <1>2, <1>3, FinishStep DEF IInv, tables

\* A request that goes on, and may take locks that are free.
LEMMA MoveStep ==
    ASSUME IInv, NEW r \in Reqs, NEW s \in Steps, s # "idle", NEW c \in Call,
           at' = [at EXCEPT ![r] = s], call' = [call EXCEPT ![r] = c],
           UNCHANGED <<tables, post>>, calls' \in 0..MaxCalls, raced' \in BOOLEAN,
           rowLock' \in [Users -> Reqs \cup {None}],
           \A u \in Users : rowLock'[u] = rowLock[u] \/ (rowLock[u] = None /\ rowLock'[u] = r),
           seatLock' \in [Users -> Reqs \cup Posts \cup {None}],
           \A u \in Users : \/ seatLock'[u] = seatLock[u]
                            \/ seatLock'[u] = r /\ "seat" \in c.writes,
           "seat" \in call[r].writes => "seat" \in c.writes,
           inviteLock' = inviteLock \/ (inviteLock = None /\ inviteLock' = r),
           Mine(r)', OwnerKept'
    PROVE  IInv'
  <1>1. /\ at'[r] = s /\ call'[r] = c
        /\ at' \in [Reqs -> Steps] /\ call' \in [Reqs -> Call]
        /\ \A q \in Reqs \ {r} : at'[q] = at[q] /\ call'[q] = call[q]
    BY Typed
  <1>2. ASSUME NEW q \in Reqs \ {r}
        PROVE  Mine(q)'
    <2>1. /\ q # None /\ role' = role /\ invite' = invite
          /\ at'[q] = at[q] /\ call'[q] = call[q]
      BY <1>1, Typed DEF tables
    <2>2. \A u \in Users : rowLock'[u] = q <=> rowLock[u] = q
      BY <2>1
    <2>3. inviteLock' = q <=> inviteLock = q
      BY <2>1
    <2>4. at[q] = "lock" => \A u \in call'[q].todo : role'[u] # None
      BY <2>1, Typed DEF RowsHeld, IsMember
    <2> QED
      BY <2>1, <2>2, <2>3, <2>4, OthersKept
  <1>3. TablesOK' /\ RequestsOK'
    BY <1>1, TypeParts DEF IInv, TablesOK, RequestsOK, tables
  <1>4. LocksOK'
    <2>1. LocksOK /\ r # None /\ None \notin Reqs \cup Posts /\ Reqs \cap Posts = {}
      BY TypeParts, NoneAssumption, RequestsAssumption DEF IInv
    <2>2. ASSUME NEW u \in Users
          PROVE  rowLock'[u] # None => at'[rowLock'[u]] # "idle"
      <3>1. rowLock'[u] \in Reqs \cup {None}
        OBVIOUS
      <3>2. CASE rowLock'[u] = r
        BY <1>1, <3>2
      <3>3. CASE rowLock'[u] # r
        BY <1>1, <2>1, <3>1, <3>3 DEF LocksOK
      <3> QED
        BY <3>2, <3>3
    <2>3. ASSUME NEW u \in Users
          PROVE  /\ seatLock'[u] \in Reqs => "seat" \in call'[seatLock'[u]].writes
                 /\ seatLock'[u] \in Posts => post'[seatLock'[u]].at = "store"
      <3>1. CASE seatLock'[u] = r
        <4>1. r \notin Posts
          BY <2>1
        <4>2. "seat" \in c.writes
          BY <2>1, <3>1 DEF LocksOK, Writes
        <4> QED
          BY <1>1, <3>1, <4>1, <4>2
      <3>2. CASE seatLock'[u] # r
        <4>1. seatLock'[u] = seatLock[u]
          BY <3>2
        <4>2. seatLock[u] \in Reqs => "seat" \in call[seatLock[u]].writes
          BY <2>1 DEF LocksOK, Writes
        <4> QED
          BY <1>1, <2>1, <3>2, <4>1, <4>2 DEF LocksOK
      <3> QED
        BY <3>1, <3>2
    <2>4. inviteLock' \in Reqs \cup {None} /\ (inviteLock' # None => at'[inviteLock'] # "idle")
      <3>1. CASE inviteLock' = r
        BY <1>1, <3>1
      <3>2. CASE inviteLock' # r
        BY <1>1, <2>1, <3>2 DEF LocksOK
      <3> QED
        BY <3>1, <3>2
    <2> QED
      BY <2>2, <2>3, <2>4 DEF LocksOK, Writes
  <1>5. invite'.uses <= MaxUses /\ Routed'
    BY DEF IInv, Routed, Going, tables
  <1> QED
    BY <1>2, <1>3, <1>4, <1>5, TypeParts DEF IInv, TypeOK, TablesOK, LocksOK, RequestsOK

\* A request that goes on and takes or writes nothing.
LEMMA QuietStep ==
    ASSUME IInv, NEW r \in Reqs, NEW s \in Steps, s # "idle", NEW c \in Call,
           at' = [at EXCEPT ![r] = s], call' = [call EXCEPT ![r] = c],
           c.writes = call[r].writes, c.target = call[r].target \/ c.writes = {},
           c.new = call[r].new \/ c.writes = {},
           UNCHANGED <<tables, locks, raced, post>>, calls' \in 0..MaxCalls,
           Mine(r)'
    PROVE  IInv'
  <1>1. \A q \in Reqs : call'[q] = IF q = r THEN c ELSE call[q]
    BY Typed
  <1>2. OwnerKept'
    BY <1>1, OwnersKept DEF Writes, tables
  <1>3. UNCHANGED <<rowLock, seatLock, inviteLock>> /\ raced' \in BOOLEAN
    BY DEF locks, IInv, TypeOK
  <1> QED
    BY <1>2, <1>3, MoveStep DEF IInv, TypeOK

-----------------------------------------------------------------------------
(* The gates.                                                              *)

\* An idle request holds nothing.
LEMMA IdleHolds ==
    ASSUME IInv, NEW r \in Reqs, at[r] = "idle"
    PROVE  /\ call[r].op = None /\ call[r].writes = {} /\ inviteLock # r
           /\ \A u \in Users : rowLock[u] # r
  BY Typed, Table DEF Formed, RowsHeld, InviteHeld

\* A call that has passed its gate.
LEMMA GateStep ==
    ASSUME IInv, NEW r \in Reqs, at[r] = "idle", NEW c \in Call,
           NEW s \in {"select", "write", "check", "redeem", "revoke", "override", "snapshot"},
           Begin(r, s, c), c.op \in OpsAt(s), c.op \notin Managed \/ s # "write",
           c.op \in Managed \cup Joins \cup {"leave"} => c.actor \in Users /\ c.target \in Users,
           c.op \in Joins \cup {"set_role"} => c.new \in Roles,
           c.op \in Removals => c.new = None,
           c.op = "set_override" => c.subject \in Subjects,
           c.writes = {}
    PROVE  IInv'
  <1>1. /\ c.op \in Ops /\ calls' = calls + 1 /\ calls < MaxCalls
        /\ at' = [at EXCEPT ![r] = s] /\ call' = [call EXCEPT ![r] = c]
        /\ UNCHANGED <<tables, locks, raced, post>>
    BY DEF Begin, Advance
  <1>2. at'[r] = s /\ call'[r] = c
    BY <1>1, Typed
  <1>3. /\ call[r].writes = {} /\ inviteLock' # r /\ \A u \in Users : rowLock'[u] # r
    BY <1>1, IdleHolds DEF locks
  <1>4. Formed(r)'
    BY <1>1, <1>2 DEF Formed
  <1>5. RowsHeld(r)'
    BY <1>2, <1>3 DEF RowsHeld
  <1>6. RowWritten(r)' /\ InviteHeld(r)'
    BY <1>2, <1>3 DEF RowWritten, InviteHeld, Writes
  <1>7. calls' \in 0..MaxCalls
    BY <1>1, BoundsAssumption DEF IInv, TypeOK
  <1>8. s \in Steps /\ s # "idle"
    BY DEF Steps
  <1> QED
    BY <1>1, <1>3, <1>4, <1>5, <1>6, <1>7, <1>8, QuietStep DEF Mine

\* set_role, remove_member, ban_member and unban.
LEMMA ManageGateStep ==
    ASSUME IInv, NEW r \in Reqs, at[r] = "idle", ManageGate(r)
    PROVE  IInv'
  <1>1. PICK op \in Managed, actor \in Users, target \in Users :
           \E new \in IF op = "set_role" THEN Roles ELSE {None} :
             Begin(r, "select", [Blank EXCEPT !.op = op, !.actor = actor,
                                              !.target = target, !.new = new])
    BY DEF ManageGate
  <1>2. PICK new \in IF op = "set_role" THEN Roles ELSE {None} :
             Begin(r, "select", [Blank EXCEPT !.op = op, !.actor = actor,
                                              !.target = target, !.new = new])
    BY <1>1
  <1> DEFINE c == [Blank EXCEPT !.op = op, !.actor = actor, !.target = target, !.new = new]
  <1>3. op \in Handlers /\ new \in Roles \cup {None}
    BY DEF Handlers
  <1>4. /\ c \in Call /\ c.op = op /\ c.actor = actor /\ c.target = target
        /\ c.new = new /\ c.writes = {}
    BY <1>3 DEF Call, Blank, Verdicts
  <1>5. Begin(r, "select", c)
    BY <1>2
  <1> HIDE DEF c
  <1>6. /\ op \notin Joins /\ op # "set_override" /\ op # "leave"
        /\ op \in Removals => new = None
        /\ op = "set_role" => new \in Roles
    BY DEF Managed, Joins, Removals
  <1> QED
    BY <1>4, <1>5, <1>6, Table, GateStep

\* leave.
LEMMA LeaveGateStep ==
    ASSUME IInv, NEW r \in Reqs, at[r] = "idle", LeaveGate(r)
    PROVE  IInv'
  <1>1. PICK u \in Users :
           Begin(r, "write", [Blank EXCEPT !.op = "leave", !.actor = u, !.target = u])
    BY DEF LeaveGate
  <1> DEFINE c == [Blank EXCEPT !.op = "leave", !.actor = u, !.target = u]
  <1>2. /\ c \in Call /\ c.op = "leave" /\ c.actor = u /\ c.target = u
        /\ c.new = None /\ c.writes = {}
    BY DEF Call, Blank, Verdicts, Handlers
  <1>3. Begin(r, "write", c)
    BY <1>1
  <1> HIDE DEF c
  <1>4. "leave" \notin Managed /\ "leave" \in Removals /\ "leave" \notin Joins
    BY DEF Managed, Joins, Removals
  <1> QED
    BY <1>2, <1>3, <1>4, Table, GateStep

\* add_member.
LEMMA AddGateStep ==
    ASSUME IInv, NEW r \in Reqs, at[r] = "idle", AddGate(r)
    PROVE  IInv'
  <1>1. PICK actor \in Users, target \in Users, new \in Roles :
           Begin(r, "check", [Blank EXCEPT !.op = "add_member", !.actor = actor,
                                           !.target = target, !.new = new])
    BY DEF AddGate
  <1> DEFINE c == [Blank EXCEPT !.op = "add_member", !.actor = actor, !.target = target,
                                !.new = new]
  <1>2. /\ c \in Call /\ c.op = "add_member" /\ c.actor = actor /\ c.target = target
        /\ c.new = new /\ c.writes = {}
    BY DEF Call, Blank, Verdicts, Handlers
  <1>3. Begin(r, "check", c)
    BY <1>1
  <1> HIDE DEF c
  <1>4. "add_member" \notin Managed /\ "add_member" \notin Removals
    BY DEF Managed, Removals
  <1> QED
    BY <1>2, <1>3, <1>4, Table, GateStep

\* join_via_invite.
LEMMA JoinGateStep ==
    ASSUME IInv, NEW r \in Reqs, at[r] = "idle", JoinGate(r)
    PROVE  IInv'
  <1>1. PICK u \in Users :
           Begin(r, "redeem", [Blank EXCEPT !.op = "join_via_invite", !.actor = u,
                                            !.target = u, !.new = invite.role])
    BY DEF JoinGate
  <1>2. invite.role \in Roles
    BY DEF IInv, TypeOK, Invite
  <1> DEFINE c == [Blank EXCEPT !.op = "join_via_invite", !.actor = u, !.target = u,
                                !.new = invite.role]
  <1>3. /\ c \in Call /\ c.op = "join_via_invite" /\ c.actor = u /\ c.target = u
        /\ c.new = invite.role /\ c.writes = {}
    BY <1>2 DEF Call, Blank, Verdicts, Handlers
  <1>4. Begin(r, "redeem", c)
    BY <1>1
  <1> HIDE DEF c
  <1>5. "join_via_invite" \notin Managed /\ "join_via_invite" \notin Removals
    BY DEF Managed, Removals
  <1> QED
    BY <1>2, <1>3, <1>4, <1>5, Table, GateStep

\* Revocations of the invite, overrides and creations of the channel.
LEMMA PlainGateStep ==
    ASSUME IInv, NEW r \in Reqs, at[r] = "idle",
           RevokeGate(r) \/ OverrideGate(r) \/ CreateGate(r)
    PROVE  IInv'
  <1>1. ASSUME NEW c \in Call, c.writes = {},
               NEW s \in {"revoke", "override", "snapshot"}, c.op \in OpsAt(s),
               c.op = "set_override" => c.subject \in Subjects, Begin(r, s, c)
        PROVE  IInv'
    <2>1. /\ c.op \in {"revoke_invite", "set_override", "create_channel"}
          /\ s # "write"
      BY <1>1, Table
    <2>2. c.op \notin Managed /\ c.op \notin Removals /\ c.op \notin Joins \cup {"set_role"}
      BY <2>1 DEF Managed, Removals, Joins
    <2> QED
      BY <1>1, <2>1, <2>2, GateStep
  <1>2. CASE RevokeGate(r)
    <2>1. PICK actor \in Users :
             Begin(r, "revoke", [Blank EXCEPT !.op = "revoke_invite", !.actor = actor])
      BY <1>2 DEF RevokeGate
    <2> DEFINE c == [Blank EXCEPT !.op = "revoke_invite", !.actor = actor]
    <2>2. c \in Call /\ c.op = "revoke_invite" /\ c.writes = {} /\ Begin(r, "revoke", c)
      BY <2>1 DEF Call, Blank, Verdicts, Handlers
    <2> HIDE DEF c
    <2> QED
      BY <1>1, <2>2, Table
  <1>3. CASE OverrideGate(r)
    <2>1. PICK actor \in Users, subject \in Subjects, verdict \in Verdicts :
             Begin(r, "override", [Blank EXCEPT !.op = "set_override", !.actor = actor,
                                       !.subject = subject, !.verdict = verdict])
      BY <1>3 DEF OverrideGate
    <2> DEFINE c == [Blank EXCEPT !.op = "set_override", !.actor = actor,
                                  !.subject = subject, !.verdict = verdict]
    <2>2. /\ c \in Call /\ c.op = "set_override" /\ c.subject = subject
          /\ c.writes = {}
      BY DEF Call, Blank, Verdicts, Handlers
    <2>3. Begin(r, "override", c)
      BY <2>1
    <2> HIDE DEF c
    <2> QED
      BY <1>1, <2>2, <2>3, Table
  <1>4. CASE CreateGate(r)
    <2>1. PICK actor \in Users :
             Begin(r, "snapshot", [Blank EXCEPT !.op = "create_channel", !.actor = actor])
      BY <1>4 DEF CreateGate
    <2> DEFINE c == [Blank EXCEPT !.op = "create_channel", !.actor = actor]
    <2>2. c \in Call /\ c.op = "create_channel" /\ c.writes = {} /\ Begin(r, "snapshot", c)
      BY <2>1 DEF Call, Blank, Verdicts, Handlers
    <2> HIDE DEF c
    <2> QED
      BY <1>1, <2>2, Table
  <1> QED
    BY <1>2, <1>3, <1>4

-----------------------------------------------------------------------------
(* The managed operations, and leave.                                      *)

\* A call with other members to lock.
LEMMA Listing ==
    ASSUME NEW c \in Call, NEW todo \in SUBSET Users, NEW d, d = [c EXCEPT !.todo = todo]
    PROVE  /\ d \in Call /\ d.op = c.op /\ d.actor = c.actor /\ d.target = c.target
           /\ d.new = c.new /\ d.subject = c.subject /\ d.writes = c.writes /\ d.todo = todo
  BY DEF Call

\* A call that has written more.
LEMMA Writing ==
    ASSUME NEW c \in Call, NEW writes \in SUBSET {"row", "ban", "seat", "override"},
           NEW d, d = [c EXCEPT !.writes = c.writes \cup writes]
    PROVE  /\ d \in Call /\ d.op = c.op /\ d.actor = c.actor /\ d.target = c.target
           /\ d.new = c.new /\ d.subject = c.subject /\ d.todo = c.todo
           /\ d.writes = c.writes \cup writes
  BY DEF Call

\* The first row that is left to lock.
LEMMA First ==
    ASSUME IInv, NEW r \in Reqs, call[r].todo # {}
    PROVE  /\ FirstOf(r) \in call[r].todo /\ FirstOf(r) \in Users
           /\ \A v \in call[r].todo : FirstOf(r) <= v
  <1> DEFINE S == call[r].todo
  <1>1. S \in SUBSET Users /\ S # {}
    BY Typed DEF Call
  <1> HIDE DEF S
  <1>2. IsFiniteSet(S)
    BY <1>1, UsersAssumption, FS_Subset
  <1>3. S \in SUBSET Int
    BY <1>1, UsersAssumption
  <1>4. Min(S) \in S /\ \A v \in S : Min(S) <= v
    BY <1>1, <1>2, <1>3, Extremes
  <1>5. \E u \in S : \A v \in S : u <= v
    BY <1>4
  <1>6. FirstOf(r) \in S /\ \A v \in S : FirstOf(r) <= v
    BY <1>5 DEF FirstOf, S
  <1> QED
    BY <1>1, <1>6 DEF S

\* The rows that a managed operation asks for.
LEMMA Asked ==
    ASSUME IInv, NEW r \in Reqs, call[r].op \in Managed
    PROVE  Involved(r) \subseteq Users /\ call[r].actor \in Users /\ call[r].target \in Users
  <1>1. call[r].actor \in Users /\ call[r].target \in Users
    BY Typed DEF Formed
  <1> QED
    BY <1>1 DEF Involved

\* The statement that locks the rows sees which of them exist.
LEMMA ManageSelectStep ==
    ASSUME IInv, NEW r \in Reqs, ManageSelect(r)
    PROVE  IInv'
  <1> DEFINE todo == {u \in Involved(r) : IsMember(u)}
             c == [call[r] EXCEPT !.todo = todo]
  <1>1. /\ at[r] = "select" /\ call[r] \in Call /\ call[r].op \in Managed
        /\ call[r].writes = {}
    BY Typed, Table DEF ManageSelect, Formed
  <1>2. todo \subseteq Users
    BY <1>1, Asked
  <1>3. /\ c \in Call /\ c.op = call[r].op /\ c.actor = call[r].actor
        /\ c.target = call[r].target /\ c.new = call[r].new /\ c.subject = call[r].subject
        /\ c.writes = {} /\ c.todo = todo
    BY <1>1, <1>2, Listing
  <1>4. call' = [call EXCEPT ![r] = c] /\ at' = [at EXCEPT ![r] = "lock"]
    BY Typed DEF ManageSelect, Advance
  <1>5. UNCHANGED <<tables, locks, calls, raced, post>>
    BY DEF ManageSelect
  <1> HIDE DEF c
  <1>6. call'[r] = c /\ at'[r] = "lock"
    BY <1>4, Typed
  <1>7. inviteLock' # r /\ \A u \in Users : rowLock'[u] # r
    BY <1>1, <1>5, Typed DEF RowsHeld, InviteHeld, locks
  <1>8. Formed(r)'
    BY <1>1, <1>3, <1>6, Typed, Table DEF Formed
  <1>9. RowsHeld(r)'
    BY <1>3, <1>5, <1>6, <1>7 DEF RowsHeld, Involved, IsMember, tables
  <1>10. RowWritten(r)' /\ InviteHeld(r)'
    BY <1>3, <1>6, <1>7 DEF RowWritten, InviteHeld, Writes
  <1> QED
    BY <1>1, <1>3, <1>4, <1>5, <1>8, <1>9, <1>10, QuietStep DEF Mine, Steps, IInv, TypeOK

\* Rows are locked in the order of their ids.
LEMMA LockNextRowStep ==
    ASSUME IInv, NEW r \in Reqs, LockNextRow(r)
    PROVE  IInv'
  <1> DEFINE u == FirstOf(r)
             rest == call[r].todo \ {u}
             c == [call[r] EXCEPT !.todo = rest]
  <1>1. /\ at[r] = "lock" /\ call[r] \in Call /\ call[r].op \in Managed
        /\ call[r].writes = {} /\ call[r].todo # {} /\ call[r].todo \subseteq Users
    BY Typed, Table DEF LockNextRow, Formed, Call
  <1>2. u \in call[r].todo /\ u \in Users /\ \A v \in call[r].todo : u <= v
    BY <1>1, First
  <1>3. /\ c \in Call /\ c.op = call[r].op /\ c.actor = call[r].actor
        /\ c.target = call[r].target /\ c.new = call[r].new /\ c.subject = call[r].subject
        /\ c.writes = {} /\ c.todo = call[r].todo \ {u}
    <2>1. rest \in SUBSET Users
      BY <1>1
    <2> HIDE DEF rest, u
    <2>2. /\ c \in Call /\ c.op = call[r].op /\ c.actor = call[r].actor
          /\ c.target = call[r].target /\ c.new = call[r].new /\ c.subject = call[r].subject
          /\ c.writes = call[r].writes /\ c.todo = rest
      BY <1>1, <2>1, Listing
    <2> QED
      BY <1>1, <2>2 DEF rest
  <1>4. /\ rowLock[u] = None /\ rowLock' = [rowLock EXCEPT ![u] = r]
        /\ call' = [call EXCEPT ![r] = c] /\ at' = at
        /\ UNCHANGED <<tables, seatLock, inviteLock, calls, raced, post>>
    BY Typed DEF LockNextRow
  <1> HIDE DEF c, u
  <1>5. call'[r] = c /\ at'[r] = "lock" /\ at' = [at EXCEPT ![r] = "lock"]
    BY <1>1, <1>4, Typed
  <1>6. /\ rowLock' \in [Users -> Reqs \cup {None}]
        /\ \A v \in Users : rowLock'[v] = IF v = u THEN r ELSE rowLock[v]
    BY <1>2, <1>4, Typed
  <1>7. Formed(r)'
    BY <1>1, <1>3, <1>5, Typed, Table DEF Formed
  <1>8. RowsHeld(r)'
    <2>1. /\ c.todo \subseteq Involved(r) /\ \A v \in c.todo : IsMember(v)
          /\ IsMember(u)
      BY <1>1, <1>2, <1>3, Typed DEF RowsHeld
    <2>2. ASSUME NEW x \in Users, NEW y \in c.todo, rowLock'[x] = r
          PROVE  x < y
      <3>1. y \in call[r].todo /\ y # u /\ y \in Users /\ Users \subseteq Nat
        BY <1>1, <1>3, UsersAssumption
      <3>2. CASE x = u
        BY <1>2, <3>1, <3>2
      <3>3. CASE x # u
        BY <1>1, <1>6, <2>2, <3>1, <3>3, Typed DEF RowsHeld
      <3> QED
        BY <3>2, <3>3
    <2>3. \A x \in Users : rowLock'[x] = r => IsMember(x)
      BY <1>1, <1>6, <2>1, Typed DEF RowsHeld
    <2> QED
      BY <1>3, <1>4, <1>5, <2>1, <2>2, <2>3 DEF RowsHeld, Involved, IsMember, tables
  <1>9. RowWritten(r)' /\ InviteHeld(r)'
    <2>1. inviteLock' # r
      BY <1>1, <1>4, Typed DEF InviteHeld
    <2> QED
      BY <1>3, <1>5, <2>1 DEF RowWritten, InviteHeld, Writes
  <1>10. OwnerKept'
    <2>1. \A q \in Reqs : call'[q] = IF q = r THEN c ELSE call[q]
      BY <1>4, Typed
    <2> QED
      BY <1>3, <1>4, <2>1, OwnersKept DEF Writes, tables
  <1>11. /\ \A v \in Users : rowLock'[v] = rowLock[v] \/ (rowLock[v] = None /\ rowLock'[v] = r)
         /\ seatLock' \in [Users -> Reqs \cup Posts \cup {None}]
         /\ \A v \in Users : seatLock'[v] = seatLock[v]
    BY <1>4, <1>6, Typed
  <1>12. /\ calls' \in 0..MaxCalls /\ raced' \in BOOLEAN /\ inviteLock' = inviteLock
         /\ "lock" \in Steps /\ call[r].writes = {}
    BY <1>1, <1>4 DEF IInv, TypeOK, Steps
  <1> QED
    BY <1>3, <1>4, <1>5, <1>6, <1>7, <1>8, <1>9, <1>10, <1>11, <1>12, MoveStep DEF Mine

\* The locked rows decide.
LEMMA DecideStep ==
    ASSUME IInv, NEW r \in Reqs, Decide(r)
    PROVE  IInv'
  <1>1. /\ at[r] = "lock" /\ call[r] \in Call /\ call[r].op \in Managed
        /\ call[r].writes = {} /\ call[r].todo = {}
    BY Typed, Table DEF Decide, Formed
  <1>2. CASE Authorised(r) /\ (call[r].op # "unban" => SparesOwner(r))
    <2> DEFINE s == IF call[r].op = "unban" THEN "unban" ELSE "write"
    <2>1. /\ at' = [at EXCEPT ![r] = s]
          /\ UNCHANGED <<tables, locks, call, calls, raced, post>>
      BY <1>2 DEF Decide, Advance
    <2>2. at'[r] = s /\ call' = [call EXCEPT ![r] = call[r]] /\ call'[r] = call[r]
      BY <2>1, Typed
    <2>3. s \in Steps /\ s # "idle" /\ s \in {"unban", "write"} /\ call[r].op \in OpsAt(s)
      BY <1>1, Table DEF Steps, Managed, Removals
    <2> HIDE DEF s
    <2>4. Formed(r)'
      BY <1>1, <2>2, <2>3, Typed DEF Formed
    <2>5. RowsHeld(r)'
      <3>1. Authorised(r)'
        BY <1>2, <2>1, <2>2 DEF Authorised, Involved, tables, locks
      <3>2. \A u \in Users : rowLock'[u] = r => IsMember(u)'
        BY <1>1, <2>1, Typed DEF RowsHeld, IsMember, tables, locks
      <3> QED
        BY <1>1, <2>2, <2>3, <3>1, <3>2 DEF RowsHeld
    <2>6. RowWritten(r)' /\ InviteHeld(r)'
      <3>1. inviteLock' # r
        BY <1>1, <2>1, Typed DEF InviteHeld, locks
      <3> QED
        BY <1>1, <2>2, <2>3, <3>1 DEF RowWritten, InviteHeld, Writes
    <2>7. calls' \in 0..MaxCalls
      BY <2>1 DEF IInv, TypeOK
    <2> QED
      BY <1>1, <2>1, <2>2, <2>3, <2>4, <2>5, <2>6, <2>7, QuietStep DEF Mine
  <1>3. CASE ~(Authorised(r) /\ (call[r].op # "unban" => SparesOwner(r)))
    BY <1>3, AbandonStep DEF Decide
  <1> QED
    BY <1>2, <1>3

\* What ends without touching a member row.
LEMMA PlainFinish ==
    ASSUME IInv, NEW r \in Reqs, Finish(r, {}), TablesOK', role' = role,
           invite'.uses <= MaxUses,
           \A q \in Reqs \ {r} : inviteLock = q =>
              invite'.revoked = invite.revoked /\ invite'.uses = invite.uses,
           channel => channel', UNCHANGED <<calls, raced, post>>
    PROVE  IInv'
  <1>1. \A q \in Reqs : Writes(q, "row")' =>
           /\ Writes(q, "row") /\ call'[q].target = call[q].target
           /\ call'[q].new = call[q].new
    BY Finished, BlankOK DEF Writes
  <1>2. OwnerKept'
    BY <1>1, OwnersKept
  <1> QED
    BY <1>2, FinishStep

\* The ban is deleted.
LEMMA UnbanStep ==
    ASSUME IInv, NEW r \in Reqs, Unban(r)
    PROVE  IInv'
  <1>1. /\ Finish(r, {}) /\ banned' = banned \ {call[r].target}
        /\ UNCHANGED <<role, channel, seats, override, invite, calls, raced, post>>
    BY DEF Unban
  <1>2. TablesOK'
    BY <1>1, TypeParts DEF IInv, TablesOK
  <1> QED
    BY <1>1, <1>2, PlainFinish DEF IInv

\* The row is written under its lock; the trigger counts the owners that are
\* left, as far as they are committed.
LEMMA WriteRowStep ==
    ASSUME IInv, NEW r \in Reqs, WriteRow(r)
    PROVE  IInv'
  <1> DEFINE t == call[r].target
             more == {"row"} \cup (IF call[r].op = "ban_member" /\ t \notin banned
                                   THEN {"ban"} ELSE {})
             s == IF call[r].op = "set_role" THEN "commit" ELSE "clean"
             c == [call[r] EXCEPT !.writes = call[r].writes \cup more]
  <1>1. /\ at[r] = "write" /\ call[r] \in Call /\ call[r].op \in Removals \cup {"set_role"}
        /\ call[r].writes = {} /\ rowLock[t] \in {r, None}
    BY Typed, Table DEF WriteRow, Formed
  <1>2. t \in Users
    BY <1>1, Typed DEF Formed, Removals, Managed
  <1>3. inviteLock # r
    BY <1>1, Typed DEF InviteHeld
  <1>4. call[r].op \notin Joins
    BY <1>1 DEF Joins, Removals
  <1>5. CASE IsMember(t) /\ OwnerRemains(r)
    <2>1. /\ rowLock' = [rowLock EXCEPT ![t] = r] /\ call' = [call EXCEPT ![r] = c]
          /\ at' = [at EXCEPT ![r] = s]
          /\ raced' = (raced \/ (TakesOwner(r) /\ \E q \in Reqs \ {r} : TakingOwner(q)))
          /\ UNCHANGED <<tables, seatLock, inviteLock, calls, post>>
      BY <1>5, Typed DEF WriteRow, Wrote, Advance
    <2>2. more \in SUBSET {"row", "ban", "seat", "override"}
      OBVIOUS
    <2>3. "row" \in more /\ "seat" \notin more
      OBVIOUS
    <2>4. s \in {"commit", "clean"} /\ s \in Steps /\ call[r].op \in OpsAt(s)
      BY <1>1, Table DEF Steps
    <2> HIDE DEF more, s, t
    <2>5. /\ c \in Call /\ c.op = call[r].op /\ c.actor = call[r].actor
          /\ c.target = t /\ c.new = call[r].new /\ c.subject = call[r].subject
          /\ c.writes = more
      BY <1>1, <2>2, Writing DEF t
    <2> HIDE DEF c
    <2>6. at'[r] = s /\ call'[r] = c /\ \A q \in Reqs \ {r} : call'[q] = call[q]
      BY <2>1, Typed
    <2>7. /\ rowLock' \in [Users -> Reqs \cup {None}]
          /\ \A u \in Users : rowLock'[u] = IF u = t THEN r ELSE rowLock[u]
      BY <2>1, Typed
    <2>8. Formed(r)'
      BY <1>1, <2>3, <2>4, <2>5, <2>6, Typed DEF Formed, t
    <2>9. RowsHeld(r)'
      <3>1. \A u \in Users : rowLock'[u] = r /\ call[r].op \in Managed => IsMember(u)'
        BY <1>1, <1>5, <2>1, <2>7, Typed DEF RowsHeld, IsMember, tables
      <3>2. ASSUME call[r].op \in Managed
            PROVE  Authorised(r)'
        <4>1. Authorised(r) /\ Involved(r) \subseteq Users
          BY <1>1, <3>2, Asked, Typed DEF RowsHeld
        <4>2. \A u \in Involved(r) : rowLock'[u] = r
          BY <2>7, <4>1 DEF Authorised
        <4> QED
          BY <2>1, <2>5, <2>6, <4>1, <4>2 DEF Authorised, Involved, tables, t
      <3> QED
        BY <1>1, <2>4, <2>5, <2>6, <3>1, <3>2 DEF RowsHeld
    <2>10. RowWritten(r)' /\ InviteHeld(r)'
      <3>1. rowLock'[t] = r
        BY <1>2, <2>7
      <3>2. role[t] # None /\ role' = role /\ inviteLock' = inviteLock
        BY <1>5, <2>1 DEF IsMember, tables
      <3>3. RowWritten(r)'
        BY <1>4, <2>3, <2>4, <2>5, <2>6, <3>1, <3>2 DEF RowWritten, Writes, IsMember
      <3> QED
        BY <1>3, <2>4, <2>6, <3>2, <3>3 DEF InviteHeld
    <2>11. OwnerKept'
      <3> SUFFICES ASSUME ~raced'
                   PROVE  /\ Owners' # {}
                          /\ \A q \in Reqs : TakingOwner(q)' =>
                                \E u \in Owners' : u # call'[q].target
                          /\ \A p, q \in Reqs : TakingOwner(p)' /\ TakingOwner(q)' => p = q
        BY DEF OwnerKept
      <3>1. ~raced /\ Owners' = Owners
        BY <2>1 DEF Owners, tables
      <3>2. \A q \in Reqs \ {r} : TakingOwner(q)' <=> TakingOwner(q)
        BY <2>1, <2>6 DEF TakingOwner, TakesOwner, Writes, tables
      <3>3. TakingOwner(r)' => TakesOwner(r)
        BY <2>1, <2>5, <2>6 DEF TakingOwner, TakesOwner, tables, t
      <3>4. TakesOwner(r) => \E u \in Owners : u # t
        BY <1>5 DEF TakesOwner, OwnerRemains, t
      <3>5. TakingOwner(r)' => \A q \in Reqs \ {r} : ~TakingOwner(q)
        BY <2>1, <3>3
      <3>6. OwnerKept
        BY DEF IInv
      <3>7. \A q \in Reqs : TakingOwner(q)' => \E u \in Owners' : u # call'[q].target
        BY <2>5, <2>6, <3>1, <3>2, <3>3, <3>4, <3>6 DEF OwnerKept
      <3>8. \A p, q \in Reqs : TakingOwner(p)' /\ TakingOwner(q)' => p = q
        BY <3>1, <3>2, <3>5, <3>6 DEF OwnerKept
      <3> QED
        BY <3>1, <3>6, <3>7, <3>8 DEF OwnerKept
    <2>12. /\ calls' \in 0..MaxCalls
           /\ seatLock' \in [Users -> Reqs \cup Posts \cup {None}]
      BY <2>1 DEF IInv, TypeOK
    <2>13. raced' \in BOOLEAN
      BY <2>1 DEF IInv, TypeOK
    <2>14. \A u \in Users : rowLock'[u] = rowLock[u] \/ (rowLock[u] = None /\ rowLock'[u] = r)
      BY <1>1, <2>7
    <2>15. s \in Steps /\ s # "idle" /\ call[r].writes = {} /\ UNCHANGED <<tables, post>>
           /\ inviteLock' = inviteLock /\ seatLock' = seatLock
      BY <1>1, <2>1, <2>4
    <2> QED
      BY <2>1, <2>5, <2>7, <2>8, <2>9, <2>10, <2>11, <2>12, <2>13, <2>14, <2>15, MoveStep
         DEF Mine
  <1>6. CASE IsMember(t) /\ ~OwnerRemains(r)
    BY <1>6, AbandonStep DEF WriteRow
  <1>7. CASE ~IsMember(t)
    <2>1. /\ at' = [at EXCEPT ![r] = "clean"]
          /\ UNCHANGED <<tables, locks, call, calls, raced, post>>
      BY <1>7 DEF WriteRow, Advance
    <2>2. call[r].op \notin Managed
      <3> SUFFICES ASSUME call[r].op \in Managed
                   PROVE  FALSE
        OBVIOUS
      <3>1. Authorised(r)
        BY <1>1, Typed DEF RowsHeld
      <3>2. t \in Involved(r)
        BY <1>1 DEF Involved, Removals
      <3>3. rowLock[t] = r
        BY <3>1, <3>2 DEF Authorised
      <3> QED
        BY <1>2, <1>7, <3>3, Typed DEF RowsHeld
    <2>3. call[r].op = "leave" /\ call[r].op \in Removals
      BY <1>1, <2>2 DEF Removals, Managed
    <2>4. at'[r] = "clean" /\ call' = [call EXCEPT ![r] = call[r]] /\ call'[r] = call[r]
      BY <2>1, Typed
    <2>5. \A u \in Users : rowLock'[u] # r
      BY <1>1, <2>1, <2>2, Typed DEF RowsHeld, locks
    <2>6. Formed(r)'
      BY <1>1, <2>3, <2>4, Typed, Table DEF Formed
    <2>7. RowsHeld(r)' /\ RowWritten(r)' /\ InviteHeld(r)'
      BY <1>1, <1>3, <2>1, <2>2, <2>4, <2>5 DEF RowsHeld, RowWritten, InviteHeld, Writes, locks
    <2>8. calls' \in 0..MaxCalls /\ "clean" \in Steps
      BY <2>1 DEF IInv, TypeOK, Steps
    <2> QED
      BY <1>1, <2>1, <2>4, <2>6, <2>7, <2>8, QuietStep DEF Mine
  <1> QED
    BY <1>5, <1>6, <1>7

\* The channel seat and the member's overrides are looked for and deleted.
LEMMA CleanUpStep ==
    ASSUME IInv, NEW r \in Reqs, CleanUp(r)
    PROVE  IInv'
  <1> DEFINE t == call[r].target
             more == (IF t \in seats THEN {"seat"} ELSE {}) \cup
                     (IF override[<<"member", t>>] # "unset" THEN {"override"} ELSE {})
             c == [call[r] EXCEPT !.writes = call[r].writes \cup more]
  <1>1. /\ at[r] = "clean" /\ call[r] \in Call /\ call[r].op \in Removals
        /\ "seat" \notin call[r].writes
    BY Typed, Table DEF CleanUp, Formed
  <1>2. t \in Users
    BY <1>1, Typed DEF Formed, Removals, Managed
  <1>3. more \in SUBSET {"row", "ban", "seat", "override"} /\ "row" \notin more
    OBVIOUS
  <1>4. /\ t \in seats => "seat" \in more /\ seatLock[t] = None
        /\ seatLock' = IF t \in seats THEN [seatLock EXCEPT ![t] = r] ELSE seatLock
        /\ at' = [at EXCEPT ![r] = "commit"] /\ call' = [call EXCEPT ![r] = c]
        /\ UNCHANGED <<tables, rowLock, inviteLock, calls, raced, post>>
    BY Typed DEF CleanUp, Wrote, Advance
  <1> HIDE DEF more, t
  <1>5. /\ c \in Call /\ c.op = call[r].op /\ c.actor = call[r].actor
        /\ c.target = t /\ c.new = call[r].new /\ c.subject = call[r].subject
        /\ c.writes = call[r].writes \cup more
    BY <1>1, <1>3, Writing DEF t
  <1> HIDE DEF c
  <1>6. at'[r] = "commit" /\ call'[r] = c /\ \A q \in Reqs \ {r} : call'[q] = call[q]
    BY <1>4, Typed
  <1>7. Writes(r, "row")' <=> Writes(r, "row")
    BY <1>3, <1>5, <1>6 DEF Writes
  <1>8. Formed(r)'
    BY <1>1, <1>5, <1>6, Typed, Table DEF Formed, t
  <1>9. RowsHeld(r)'
    <2>1. \A u \in Users : rowLock'[u] = r /\ call[r].op \in Managed => IsMember(u)'
      BY <1>4, Typed DEF RowsHeld, IsMember, tables
    <2>2. call[r].op \in Managed => Authorised(r)'
      BY <1>1, <1>4, <1>5, <1>6, Typed DEF RowsHeld, Authorised, Involved, tables, t
    <2> QED
      BY <1>5, <1>6, <2>1, <2>2 DEF RowsHeld
  <1>10. RowWritten(r)'
    <2>1. RowWritten(r) /\ role' = role /\ rowLock' = rowLock
      BY <1>4, Typed DEF tables
    <2> QED
      BY <1>1, <1>5, <1>6, <1>7, <2>1 DEF RowWritten, IsMember, t
  <1>11. InviteHeld(r)'
    <2>1. inviteLock' # r
      BY <1>1, <1>4, Typed DEF InviteHeld
    <2> QED
      BY <1>6, <2>1 DEF InviteHeld
  <1>12. OwnerKept'
    <2>1. \A q \in Reqs : Writes(q, "row")' =>
             /\ Writes(q, "row") /\ call'[q].target = call[q].target
             /\ call'[q].new = call[q].new
      BY <1>5, <1>6, <1>7 DEF Writes, t
    <2> QED
      BY <1>4, <2>1, OwnersKept DEF tables
  <1>13. /\ seatLock' \in [Users -> Reqs \cup Posts \cup {None}]
         /\ \A u \in Users : seatLock'[u] = seatLock[u] \/ (seatLock'[u] = r /\ "seat" \in c.writes)
    <2>1. CASE t \in seats
      BY <1>2, <1>4, <1>5, <2>1, Typed
    <2>2. CASE t \notin seats
      <3>1. seatLock' = seatLock
        BY <1>4, <2>2
      <3>2. seatLock' \in [Users -> Reqs \cup Posts \cup {None}]
        BY <3>1, Typed
      <3>3. \A u \in Users : seatLock'[u] = seatLock[u]
        BY <3>1
      <3> QED
        BY <3>2, <3>3
    <2> QED
      BY <2>1, <2>2
  <1>14. /\ "commit" \in Steps /\ calls' \in 0..MaxCalls /\ raced' \in BOOLEAN
         /\ rowLock' \in [Users -> Reqs \cup {None}]
    BY <1>4, Typed DEF Steps, IInv, TypeOK
  <1>15. Mine(r)'
    BY <1>8, <1>9, <1>10, <1>11 DEF Mine
  <1> QED
    BY <1>1, <1>4, <1>5, <1>12, <1>13, <1>14, <1>15, MoveStep

\* A member row that commits: whoever overlaps it has another row locked.
LEMMA RowCommitted ==
    ASSUME IInv, NEW r \in Reqs, Writes(r, "row"),
           role' = [role EXCEPT ![call[r].target] = call[r].new], raced' = raced,
           ~Writes(r, "row")',
           \A q \in Reqs \ {r} :
              /\ call'[q].target = call[q].target /\ call'[q].new = call[q].new
              /\ call'[q].writes = call[q].writes
    PROVE  OwnerKept'
  <1> DEFINE t == call[r].target
  <1>1. /\ t \in Users /\ rowLock[t] = r
        /\ \A u \in Users : role'[u] = IF u = t THEN call[r].new ELSE role[u]
    BY Writers, Typed
  <1> HIDE DEF t
  <1>2. ASSUME NEW q \in Reqs, TakingOwner(q)'
        PROVE  q # r /\ TakingOwner(q) /\ call'[q].target = call[q].target /\ call[q].target # t
    <2>1. q # r
      BY <1>2 DEF TakingOwner
    <2>2. Writes(q, "row")
      BY <1>2, <2>1 DEF TakingOwner, Writes
    <2>3. call[q].target \in Users /\ rowLock[call[q].target] = q
      BY <2>2, Writers
    <2>4. role'[call[q].target] = role[call[q].target] /\ call[q].target # t
      BY <1>1, <2>1, <2>3
    <2> QED
      BY <1>2, <2>1, <2>2, <2>4 DEF TakingOwner, TakesOwner
  <1>3. SUFFICES ASSUME ~raced
                 PROVE  /\ Owners' # {}
                        /\ \A q \in Reqs : TakingOwner(q)' =>
                              \E u \in Owners' : u # call'[q].target
                        /\ \A p, q \in Reqs : TakingOwner(p)' /\ TakingOwner(q)' => p = q
    BY DEF OwnerKept
  <1>4. /\ Owners # {}
        /\ \A q \in Reqs : TakingOwner(q) => \E u \in Owners : u # call[q].target
        /\ \A p, q \in Reqs : TakingOwner(p) /\ TakingOwner(q) => p = q
    BY <1>3 DEF IInv, OwnerKept
  <1>5. CASE TakesOwner(r)
    <2>1. TakingOwner(r)
      BY <1>5 DEF TakingOwner
    <2>2. PICK u \in Owners : u # t
      BY <1>4, <2>1 DEF t
    <2>3. u \in Owners'
      BY <1>1, <2>2 DEF Owners
    <2>4. \A q \in Reqs : ~TakingOwner(q)'
      BY <1>2, <1>4, <2>1
    <2> QED
      BY <2>3, <2>4
  <1>6. CASE ~TakesOwner(r)
    <2>1. Owners \subseteq Owners'
      BY <1>1, <1>6 DEF Owners, TakesOwner, t
    <2> QED
      BY <1>2, <1>4, <2>1
  <1> QED
    BY <1>5, <1>6

\* The deleted or updated rows are published.
LEMMA CommitStep ==
    ASSUME IInv, NEW r \in Reqs, Commit(r)
    PROVE  IInv'
  <1> DEFINE t == call[r].target
             gone == IF Writes(r, "row") /\ call[r].op \in Removals THEN {t} ELSE {}
  <1>1. /\ at[r] = "commit" /\ call[r] \in Call /\ call[r].op \in Removals \cup {"set_role"}
        /\ role' = IF Writes(r, "row") THEN [role EXCEPT ![t] = call[r].new] ELSE role
        /\ banned' = IF Writes(r, "ban") THEN banned \cup {t} ELSE banned
        /\ seats' = IF Writes(r, "seat") THEN seats \ {t} ELSE seats
        /\ override' = IF Writes(r, "override")
                       THEN [override EXCEPT ![<<"member", t>>] = "unset"] ELSE override
        /\ Finish(r, gone)
        /\ UNCHANGED <<channel, invite, calls, raced, post>>
    BY Typed, Table DEF Commit, Formed
  <1>2. /\ t \in Users /\ call[r].new \in Roles \cup {None}
        /\ call[r].op = "set_role" => call[r].new \in Roles
    BY <1>1, Typed DEF Formed, Removals, Managed
  <1>3. call'[r] = Blank /\ \A q \in Reqs \ {r} :
            /\ call'[q].target = call[q].target /\ call'[q].new = call[q].new
            /\ call'[q].writes = call[q].writes
    BY <1>1, Finished
  <1>4. ~Writes(r, "row")'
    BY <1>3, BlankOK DEF Writes
  <1>5. TablesOK'
    <2>1. TablesOK
      BY TypeParts DEF IInv
    <2>2. role' \in [Users -> Roles \cup {None}]
      BY <1>1, <1>2, <2>1 DEF TablesOK
    <2>3. override' \in [Subjects -> Verdicts]
      BY <1>1, <2>1 DEF TablesOK, Verdicts
    <2>4. banned' \subseteq Users /\ seats' \subseteq Users
      BY <1>1, <1>2, <2>1 DEF TablesOK
    <2> QED
      BY <1>1, <2>1, <2>2, <2>3, <2>4 DEF TablesOK
  <1>6. OwnerKept'
    <2>1. CASE Writes(r, "row")
      BY <1>1, <1>3, <1>4, <2>1, RowCommitted
    <2>2. CASE ~Writes(r, "row")
      <3>1. \A q \in Reqs : Writes(q, "row")' =>
               /\ Writes(q, "row") /\ call'[q].target = call[q].target
               /\ call'[q].new = call[q].new
        BY <1>3, <1>4 DEF Writes
      <3> QED
        BY <1>1, <2>2, <3>1, OwnersKept
    <2> QED
      BY <2>1, <2>2
  <1>7. \A u \in Users : role'[u] = role[u] \/ rowLock[u] = r
    BY <1>1, Writers, Typed
  <1>8. \A u \in Users : role[u] # None => role'[u] # None \/ u \in gone
    <2>1. call[r].op \notin Removals => call[r].new # None
      BY <1>1, <1>2, NoneAssumption
    <2> QED
      BY <1>1, <1>2, <2>1, Typed
  <1>9. invite'.uses <= MaxUses /\ invite' = invite
    BY <1>1 DEF IInv
  <1> HIDE DEF gone
  <1> QED
    BY <1>1, <1>5, <1>6, <1>7, <1>8, <1>9, FinishStep
-----------------------------------------------------------------------------
(* New members.                                                            *)

\* The target is looked up.
LEMMA AddCheckStep ==
    ASSUME IInv, NEW r \in Reqs, AddCheck(r)
    PROVE  IInv'
  <1> DEFINE t == call[r].target
  <1>1. /\ at[r] = "check" /\ call[r] \in Call /\ call[r].op = "add_member"
        /\ call[r].writes = {}
    BY Typed, Table DEF AddCheck, Formed
  <1>2. CASE ~IsMember(t) /\ t \notin banned
    <2>1. /\ at' = [at EXCEPT ![r] = "insert"]
          /\ UNCHANGED <<tables, locks, call, calls, raced, post>>
      BY <1>2 DEF AddCheck, Advance
    <2>2. at'[r] = "insert" /\ call' = [call EXCEPT ![r] = call[r]] /\ call'[r] = call[r]
      BY <2>1, Typed
    <2>3. inviteLock' # r /\ \A u \in Users : rowLock'[u] # r
      BY <1>1, <2>1, Typed DEF RowsHeld, InviteHeld, locks
    <2>4. Formed(r)'
      BY <1>1, <2>2, Typed, Table DEF Formed
    <2>5. RowsHeld(r)' /\ RowWritten(r)' /\ InviteHeld(r)'
      BY <1>1, <2>2, <2>3 DEF RowsHeld, RowWritten, InviteHeld, Writes
    <2>6. calls' \in 0..MaxCalls /\ "insert" \in Steps
      BY <2>1 DEF IInv, TypeOK, Steps
    <2> QED
      BY <1>1, <2>1, <2>2, <2>4, <2>5, <2>6, QuietStep DEF Mine
  <1>3. CASE ~(~IsMember(t) /\ t \notin banned)
    BY <1>3, AbandonStep DEF AddCheck
  <1> QED
    BY <1>2, <1>3

\* The invite is locked and checked.
LEMMA JoinRedeemStep ==
    ASSUME IInv, NEW r \in Reqs, JoinRedeem(r)
    PROVE  IInv'
  <1>1. /\ at[r] = "redeem" /\ call[r] \in Call /\ call[r].op = "join_via_invite"
        /\ call[r].writes = {} /\ inviteLock = None
    BY Typed, Table DEF JoinRedeem, Formed
  <1>2. CASE InviteUsable
    <2>1. /\ at' = [at EXCEPT ![r] = "insert"] /\ inviteLock' = r
          /\ UNCHANGED <<tables, rowLock, seatLock, call, calls, raced, post>>
      BY <1>2 DEF JoinRedeem, Advance
    <2>2. at'[r] = "insert" /\ call' = [call EXCEPT ![r] = call[r]] /\ call'[r] = call[r]
      BY <2>1, Typed
    <2>3. \A u \in Users : rowLock'[u] # r
      BY <1>1, <2>1, Typed DEF RowsHeld
    <2>4. Formed(r)'
      BY <1>1, <2>2, Typed, Table DEF Formed
    <2>5. RowsHeld(r)' /\ RowWritten(r)'
      BY <1>1, <2>2, <2>3 DEF RowsHeld, RowWritten, Writes
    <2>6. InviteHeld(r)'
      BY <1>1, <1>2, <2>1, <2>2 DEF InviteHeld, InviteUsable, tables
    <2>7. OwnerKept'
      BY <2>1, OwnersKept DEF Writes, tables
    <2>8. /\ calls' \in 0..MaxCalls /\ raced' \in BOOLEAN /\ "insert" \in Steps
          /\ rowLock' = rowLock /\ rowLock' \in [Users -> Reqs \cup {None}]
          /\ seatLock' = seatLock /\ seatLock' \in [Users -> Reqs \cup Posts \cup {None}]
      BY <2>1, Typed DEF IInv, TypeOK, Steps
    <2>9. Mine(r)'
      BY <2>4, <2>5, <2>6 DEF Mine
    <2> QED
      BY <1>1, <2>1, <2>2, <2>7, <2>8, <2>9, MoveStep
  <1>3. CASE ~InviteUsable
    BY <1>3, AbandonStep DEF JoinRedeem
  <1> QED
    BY <1>2, <1>3

\* The key is inserted, uncommitted.
LEMMA InsertRowStep ==
    ASSUME IInv, NEW r \in Reqs, InsertRow(r)
    PROVE  IInv'
  <1> DEFINE t == call[r].target
             more == {"row"}
             c == [call[r] EXCEPT !.writes = call[r].writes \cup more]
  <1>1. /\ at[r] = "insert" /\ call[r] \in Call /\ call[r].op \in Joins
        /\ call[r].writes = {}
    BY Typed, Table DEF InsertRow, Formed, Joins
  <1>2. t \in Users /\ call[r].op \notin Managed
    BY <1>1, Typed DEF Formed, Joins, Managed
  <1>3. CASE ~IsMember(t)
    <2>1. /\ rowLock[t] = None /\ rowLock' = [rowLock EXCEPT ![t] = r]
          /\ at' = [at EXCEPT ![r] = "seat"] /\ call' = [call EXCEPT ![r] = c]
          /\ UNCHANGED <<tables, seatLock, inviteLock, calls, raced, post>>
      BY <1>3, Typed DEF InsertRow, Wrote, Advance
    <2>2. /\ c \in Call /\ c.op = call[r].op /\ c.actor = call[r].actor
          /\ c.target = t /\ c.new = call[r].new /\ c.subject = call[r].subject
          /\ c.writes = {"row"}
      <3>1. more \in SUBSET {"row", "ban", "seat", "override"}
        OBVIOUS
      <3> HIDE DEF more
      <3>2. /\ c \in Call /\ c.op = call[r].op /\ c.actor = call[r].actor
            /\ c.target = t /\ c.new = call[r].new /\ c.subject = call[r].subject
            /\ c.writes = call[r].writes \cup more
        BY <1>1, <3>1, Writing
      <3> QED
        BY <1>1, <3>2 DEF more
    <2>3. role[t] = None /\ role' = role
      BY <1>3, <2>1 DEF IsMember, tables
    <2> HIDE DEF c, t
    <2>4. at'[r] = "seat" /\ call'[r] = c /\ \A q \in Reqs \ {r} : call'[q] = call[q]
      BY <2>1, Typed
    <2>5. /\ rowLock' \in [Users -> Reqs \cup {None}]
          /\ \A u \in Users : rowLock'[u] = IF u = t THEN r ELSE rowLock[u]
      BY <2>1, Typed
    <2>6. Formed(r)'
      BY <1>1, <2>2, <2>4, Typed, Table DEF Formed, Joins, t
    <2>7. RowsHeld(r)'
      BY <1>2, <2>2, <2>4 DEF RowsHeld
    <2>8. RowWritten(r)'
      BY <1>1, <1>2, <2>2, <2>3, <2>4, <2>5 DEF RowWritten, Writes, IsMember
    <2>9. InviteHeld(r)'
      BY <1>1, <2>1, <2>2, <2>4, Typed DEF InviteHeld, tables
    <2>10. OwnerKept'
      <3>1. Owner # None
        BY NoneAssumption, RolesAssumption
      <3>2. ~TakingOwner(r)'
        BY <2>2, <2>3, <2>4, <3>1 DEF TakingOwner, TakesOwner
      <3>3. \A q \in Reqs \ {r} : TakingOwner(q)' => TakingOwner(q)
        BY <2>3, <2>4 DEF TakingOwner, TakesOwner, Writes
      <3> QED
        BY <2>1, <2>3, <2>4, <3>2, <3>3, TakersKept
    <2>11. /\ calls' \in 0..MaxCalls /\ raced' \in BOOLEAN /\ "seat" \in Steps
           /\ seatLock' = seatLock /\ seatLock' \in [Users -> Reqs \cup Posts \cup {None}]
      BY <2>1, Typed DEF IInv, TypeOK, Steps
    <2>12. \A u \in Users : rowLock'[u] = rowLock[u] \/ (rowLock[u] = None /\ rowLock'[u] = r)
      BY <2>1, <2>5
    <2>13. Mine(r)'
      BY <2>6, <2>7, <2>8, <2>9 DEF Mine
    <2> QED
      BY <1>1, <2>1, <2>2, <2>5, <2>10, <2>11, <2>12, <2>13, MoveStep
  <1>4. CASE IsMember(t)
    BY <1>4, AbandonStep DEF InsertRow
  <1> QED
    BY <1>3, <1>4

\* The new member commits; a redeemed invite was locked since it was checked.
LEMMA SeatNewMemberStep ==
    ASSUME IInv, NEW r \in Reqs, SeatNewMember(r)
    PROVE  IInv'
  <1> DEFINE t == call[r].target
  <1>1. /\ at[r] = "seat" /\ call[r] \in Call /\ call[r].op \in Joins
        /\ role' = [role EXCEPT ![t] = call[r].new]
        /\ seats' = IF channel THEN seats \cup {t} ELSE seats
        /\ invite' = IF call[r].op = "join_via_invite"
                     THEN [invite EXCEPT !.uses = @ + 1] ELSE invite
        /\ Finish(r, {})
        /\ UNCHANGED <<banned, channel, override, calls, raced, post>>
    BY Typed, Table DEF SeatNewMember, Formed, Joins
  <1>2. t \in Users /\ call[r].new \in Roles
    BY <1>1, Typed DEF Formed, Joins
  <1>3. Writes(r, "row")
    BY <1>1, Typed DEF RowWritten
  <1>4. call'[r] = Blank /\ \A q \in Reqs \ {r} :
            /\ call'[q].target = call[q].target /\ call'[q].new = call[q].new
            /\ call'[q].writes = call[q].writes
    BY <1>1, Finished
  <1>5. ~Writes(r, "row")'
    BY <1>4, BlankOK DEF Writes
  <1>6. OwnerKept'
    BY <1>1, <1>3, <1>4, <1>5, RowCommitted
  <1>7. /\ invite' \in Invite /\ invite'.uses <= MaxUses
        /\ \A q \in Reqs \ {r} : inviteLock = q =>
              invite'.revoked = invite.revoked /\ invite'.uses = invite.uses
    <2>1. invite \in Invite /\ invite.uses <= MaxUses /\ MaxUses \in Nat
      BY BoundsAssumption DEF IInv, TypeOK
    <2>2. CASE call[r].op = "join_via_invite"
      <3>1. inviteLock = r /\ invite.uses < MaxUses
        BY <1>1, <2>2, Typed DEF InviteHeld
      <3>2. invite' = [invite EXCEPT !.uses = invite.uses + 1]
        BY <1>1, <2>2
      <3>3. invite' \in Invite /\ invite'.uses = invite.uses + 1 /\ invite.uses \in Nat
        BY <2>1, <3>2 DEF Invite
      <3> QED
        BY <2>1, <3>1, <3>3
    <2>3. CASE call[r].op # "join_via_invite"
      <3>1. invite' = invite
        BY <1>1, <2>3
      <3> QED
        BY <2>1, <3>1
    <2> QED
      BY <2>2, <2>3
  <1>8. TablesOK'
    <2>1. TablesOK
      BY TypeParts DEF IInv
    <2>2. role' \in [Users -> Roles \cup {None}]
      BY <1>1, <1>2, <2>1 DEF TablesOK
    <2>3. seats' \subseteq Users
      BY <1>1, <1>2, <2>1 DEF TablesOK
    <2> QED
      BY <1>1, <1>7, <2>1, <2>2, <2>3 DEF TablesOK
  <1>9. \A u \in Users : role'[u] = role[u] \/ rowLock[u] = r
    BY <1>1, <1>3, Writers, Typed
  <1>10. \A u \in Users : role[u] # None => role'[u] # None
    BY <1>1, <1>2, Typed, NoneAssumption
  <1> QED
    BY <1>1, <1>6, <1>7, <1>8, <1>9, <1>10, FinishStep

-----------------------------------------------------------------------------
(* The invite, the overrides and the channel.                              *)

\* No redemption holds the invite when its revocation commits.
LEMMA RevokeStep ==
    ASSUME IInv, NEW r \in Reqs, Revoke(r)
    PROVE  IInv'
  <1>1. /\ inviteLock = None /\ invite' = [invite EXCEPT !.revoked = TRUE] /\ Finish(r, {})
        /\ UNCHANGED <<role, banned, channel, seats, override, calls, raced, post>>
    BY DEF Revoke
  <1>2. invite \in Invite /\ invite.uses <= MaxUses
    BY DEF IInv, TypeOK
  <1>3. invite' \in Invite /\ invite'.uses = invite.uses
    BY <1>1, <1>2 DEF Invite
  <1>4. TablesOK'
    BY <1>1, <1>3, TypeParts DEF IInv, TablesOK
  <1>5. \A q \in Reqs : inviteLock # q
    BY <1>1, Typed
  <1> QED
    BY <1>1, <1>2, <1>3, <1>4, <1>5, PlainFinish

\* A redemption that holds the invite is not stopped when it expires.
LEMMA ExpireStep ==
    ASSUME IInv, Expire
    PROVE  IInv'
  <1>1. /\ invite' = [invite EXCEPT !.expired = TRUE]
        /\ UNCHANGED <<role, banned, channel, seats, override, locks, at, call, calls, raced,
                       post>>
    BY DEF Expire
  <1>2. invite \in Invite /\ invite.uses <= MaxUses
    BY DEF IInv, TypeOK
  <1>3. invite' \in Invite /\ invite'.uses = invite.uses /\ invite'.revoked = invite.revoked
    BY <1>1, <1>2 DEF Invite
  <1>4. ASSUME NEW q \in Reqs
        PROVE  Mine(q)'
    <2>1. at[q] = "lock" => \A u \in call'[q].todo : role'[u] # None
      BY <1>1, Typed DEF RowsHeld, IsMember
    <2> QED
      BY <1>1, <1>3, <2>1, OthersKept DEF locks
  <1>5. OwnerKept'
    BY <1>1, OwnersKept DEF Writes
  <1>6. TypeOK' /\ Routed'
    BY <1>1, <1>3 DEF IInv, TypeOK, Routed, Going, locks, Writes
  <1> QED
    BY <1>2, <1>3, <1>4, <1>5, <1>6 DEF IInv

\* An override is upserted or deleted.
LEMMA WriteOverrideStep ==
    ASSUME IInv, NEW r \in Reqs, WriteOverride(r)
    PROVE  IInv'
  <1>1. /\ at[r] = "override" /\ Finish(r, {})
        /\ override' = [override EXCEPT ![call[r].subject] = call[r].verdict]
        /\ UNCHANGED <<role, banned, channel, seats, invite, calls, raced, post>>
    BY DEF WriteOverride
  <1>2. call[r].verdict \in Verdicts
    BY Typed DEF Call
  <1>3. override' \in [Subjects -> Verdicts]
    BY <1>1, <1>2 DEF IInv, TypeOK
  <1>4. TablesOK'
    BY <1>1, <1>3, TypeParts DEF IInv, TablesOK
  <1> QED
    BY <1>1, <1>4, PlainFinish DEF IInv

\* The members are listed, to be seated later.
LEMMA ListMembersStep ==
    ASSUME IInv, NEW r \in Reqs, ListMembers(r)
    PROVE  IInv'
  <1> DEFINE todo == {u \in Users : IsMember(u)}
             c == [call[r] EXCEPT !.todo = todo]
  <1>1. /\ at[r] = "snapshot" /\ call[r] \in Call /\ call[r].op = "create_channel"
        /\ call[r].writes = {}
    BY Typed, Table DEF ListMembers, Formed
  <1>2. /\ c \in Call /\ c.op = call[r].op /\ c.actor = call[r].actor
        /\ c.target = call[r].target /\ c.new = call[r].new /\ c.subject = call[r].subject
        /\ c.writes = {} /\ c.todo = todo
    BY <1>1, Listing
  <1>3. /\ call' = [call EXCEPT ![r] = c] /\ at' = [at EXCEPT ![r] = "create"]
        /\ UNCHANGED <<tables, locks, calls, raced, post>>
    BY Typed DEF ListMembers, Advance
  <1> HIDE DEF c
  <1>4. call'[r] = c /\ at'[r] = "create"
    BY <1>3, Typed
  <1>5. inviteLock' # r /\ \A u \in Users : rowLock'[u] # r
    BY <1>1, <1>3, Typed DEF RowsHeld, InviteHeld, locks
  <1>6. Formed(r)'
    BY <1>1, <1>2, <1>4, Typed, Table DEF Formed
  <1>7. RowsHeld(r)' /\ RowWritten(r)' /\ InviteHeld(r)'
    BY <1>2, <1>4, <1>5 DEF RowsHeld, RowWritten, InviteHeld, Writes
  <1>8. calls' \in 0..MaxCalls /\ "create" \in Steps
    BY <1>3 DEF IInv, TypeOK, Steps
  <1> QED
    BY <1>1, <1>2, <1>3, <1>6, <1>7, <1>8, QuietStep DEF Mine

\* The channel commits with its seats.
LEMMA CommitChannelStep ==
    ASSUME IInv, NEW r \in Reqs, CommitChannel(r)
    PROVE  IInv'
  <1>1. CASE channel
    BY <1>1, AbandonStep DEF CommitChannel
  <1>2. CASE ~channel
    <2>1. /\ channel' = TRUE /\ seats' = call[r].todo /\ Finish(r, {})
          /\ UNCHANGED <<role, banned, override, invite, calls, raced, post>>
      BY <1>2 DEF CommitChannel
    <2>2. call[r].todo \subseteq Users
      BY Typed DEF Call
    <2>3. TablesOK'
      BY <2>1, <2>2, TypeParts DEF IInv, TablesOK
    <2> QED
      BY <2>1, <2>3, PlainFinish DEF IInv
  <1> QED
    BY <1>1, <1>2
-----------------------------------------------------------------------------
(* The channel routes.                                                     *)

\* A route request that moves on: it takes a free seat, or frees its own.
LEMMA RouteStep ==
    ASSUME IInv, NEW p \in Posts, NEW new \in Post, post' = [post EXCEPT ![p] = new],
           UNCHANGED <<role, banned, channel, override, invite, rowLock, inviteLock, at, call,
                       raced>>,
           seats' \subseteq Users, calls' \in 0..MaxCalls,
           seatLock' \in [Users -> Reqs \cup Posts \cup {None}],
           \A u \in Users : \/ seatLock'[u] = p /\ new.at = "store"
                            \/ seatLock'[u] # p /\ seatLock'[u] \in {seatLock[u], None},
           Going(new)
    PROVE  IInv'
  <1>1. TablesOK /\ LocksOK /\ RequestsOK /\ None \notin Reqs \cup Posts /\ Reqs \cap Posts = {}
    BY TypeParts, NoneAssumption, RequestsAssumption DEF IInv
  <1>2. ASSUME NEW q \in Reqs
        PROVE  Mine(q)'
    <2>1. at[q] = "lock" => \A u \in call'[q].todo : role'[u] # None
      BY Typed DEF RowsHeld, IsMember
    <2> QED
      BY <2>1, OthersKept
  <1>3. OwnerKept'
    BY OwnersKept DEF Writes
  <1>4. TablesOK'
    BY <1>1 DEF TablesOK
  <1>5. /\ RequestsOK' /\ post'[p] = new
        /\ \A x \in Posts \ {p} : post'[x] = post[x]
    BY <1>1 DEF RequestsOK
  <1>6. ASSUME NEW u \in Users
        PROVE  /\ seatLock'[u] \in Reqs => "seat" \in call'[seatLock'[u]].writes
               /\ seatLock'[u] \in Posts => post'[seatLock'[u]].at = "store"
    <2>1. CASE seatLock'[u] = p
      BY <1>1, <1>5, <2>1
    <2>2. CASE seatLock'[u] # p
      BY <1>1, <1>5, <2>2 DEF LocksOK, Writes
    <2> QED
      BY <2>1, <2>2
  <1>7. LocksOK'
    BY <1>1, <1>6 DEF LocksOK, Writes
  <1>8. TypeOK'
    BY <1>4, <1>5, <1>7 DEF TypeOK, TablesOK, LocksOK, RequestsOK
  <1>9. Routed'
    BY <1>5 DEF IInv, Routed, Going
  <1> QED
    BY <1>2, <1>3, <1>8, <1>9 DEF IInv

\* A route request that holds no seat leaves the seat locks alone.
LEMMA RouteMoves ==
    ASSUME IInv, NEW p \in Posts, NEW new \in Post, post' = [post EXCEPT ![p] = new],
           post[p].at # "store", seatLock' = seatLock,
           UNCHANGED <<role, banned, channel, override, invite, rowLock, inviteLock, at, call,
                       raced>>,
           seats' \subseteq Users, calls' \in 0..MaxCalls,
           Going(new)
    PROVE  IInv'
  <1>1. /\ seatLock' \in [Users -> Reqs \cup Posts \cup {None}]
        /\ \A u \in Users : seatLock[u] # p
    BY DEF IInv, TypeOK
  <1> QED
    BY <1>1, RouteStep

\* A request that goes to another statement, or ends.
LEMMA NextStatement ==
    ASSUME IInv, NEW p \in Posts, post[p].at # "idle", NEW step \in PostSteps,
           To(p, step) \/ EndPost(p)
    PROVE  /\ channel /\ post[p].user \in Users
           /\ \E new \in Post : /\ post' = [post EXCEPT ![p] = new]
                                /\ To(p, step) => new.at = step
                                /\ Going(new)
  <1>1. post[p] \in Post /\ channel /\ post[p].user \in Users
    BY DEF IInv, TypeOK, Routed, Going
  <1>2. CASE To(p, step)
    <2> DEFINE new == [post[p] EXCEPT !.at = step]
    <2>1. new \in Post /\ new.at = step /\ new.user = post[p].user
      BY <1>1 DEF Post
    <2>2. post' = [post EXCEPT ![p] = new]
      BY <1>2 DEF To
    <2> HIDE DEF new
    <2>3. Going(new)
      BY <1>1, <2>1 DEF Going
    <2> QED
      BY <1>1, <2>1, <2>2, <2>3
  <1>3. CASE EndPost(p) /\ ~To(p, step)
    <2>1. Resting \in Post /\ Resting.at = "idle" /\ post' = [post EXCEPT ![p] = Resting]
      BY <1>3 DEF EndPost, Resting, Post, Kinds, PostSteps
    <2>2. Going(Resting)
      BY <2>1 DEF Going
    <2> QED
      BY <1>1, <1>3, <2>1, <2>2
  <1> QED
    BY <1>2, <1>3

\* Every step of a route request.
LEMMA RouteKeeps ==
    ASSUME IInv, NEW p \in Posts, Route(p)
    PROVE  IInv'
  <1>1. /\ post \in [Posts -> Post] /\ seats \subseteq Users /\ calls \in 0..MaxCalls
        /\ seatLock \in [Users -> Reqs \cup Posts \cup {None}]
    BY DEF IInv, TypeOK
  <1>2. CASE Enter(p)
    <2>1. PICK u \in Users, kind \in Kinds :
            post' = [post EXCEPT ![p] = [user |-> u, kind |-> kind, at |-> "heal"]]
      BY <1>2 DEF Enter
    <2> DEFINE new == [user |-> u, kind |-> kind, at |-> "heal"]
    <2>2. /\ post[p].at = "idle" /\ calls < MaxCalls /\ calls' = calls + 1 /\ channel
          /\ UNCHANGED <<tables, locks, at, call, raced>>
      BY <1>2 DEF Enter
    <2>3. new \in Post /\ new.user = u /\ post' = [post EXCEPT ![p] = new]
      BY <2>1 DEF Post, PostSteps
    <2>4. calls' \in 0..MaxCalls
      BY <1>1, <2>2, BoundsAssumption
    <2> HIDE DEF new
    <2>5. Going(new)
      BY <2>2, <2>3 DEF Going
    <2> QED
      BY <1>1, <2>2, <2>3, <2>4, <2>5, RouteMoves DEF tables, locks
  <1>3. CASE Heal(p)
    <2>1. /\ post[p].at = "heal" /\ seats' = seats \cup {post[p].user}
          /\ UNCHANGED <<role, banned, channel, override, invite, locks, at, call, calls, raced>>
      BY <1>3 DEF Heal
    <2>2. To(p, "gate") \/ EndPost(p)
      BY <1>3 DEF Heal
    <2>3. PICK new \in Post : /\ post' = [post EXCEPT ![p] = new]
                             /\ Going(new)
      BY <2>1, <2>2, NextStatement DEF PostSteps
    <2>4. seats' \subseteq Users
      BY <1>1, <2>1, <2>2, NextStatement DEF PostSteps
    <2> QED
      BY <1>1, <2>1, <2>3, <2>4, RouteMoves DEF locks
  <1>4. CASE SendGate(p)
    <2>1. post[p].at = "gate" /\ UNCHANGED governance
      BY <1>4 DEF SendGate
    <2>2. To(p, "lock") \/ EndPost(p)
      BY <1>4 DEF SendGate
    <2>3. PICK new \in Post : /\ post' = [post EXCEPT ![p] = new]
                             /\ Going(new)
      BY <2>1, <2>2, NextStatement DEF PostSteps
    <2> QED
      BY <1>1, <2>1, <2>3, RouteMoves DEF governance, tables, locks
  <1>5. CASE LockSeat(p)
    <2>1. CASE post[p].user \in seats
      <3>1. /\ seatLock[post[p].user] = None /\ seatLock' = [seatLock EXCEPT ![post[p].user] = p]
            /\ post[p].at = "lock" /\ To(p, "store")
            /\ UNCHANGED <<tables, rowLock, inviteLock, at, call, calls, raced>>
        BY <1>5, <2>1 DEF LockSeat
      <3>2. PICK new \in Post : /\ new.at = "store" /\ post' = [post EXCEPT ![p] = new]
                               /\ Going(new)
        BY <3>1, NextStatement DEF PostSteps
      <3>3. \A u \in Users : seatLock[u] # p
        BY <3>1 DEF IInv, TypeOK
      <3>4. /\ seatLock' \in [Users -> Reqs \cup Posts \cup {None}]
            /\ \A u \in Users : seatLock'[u] = p \/ seatLock'[u] = seatLock[u]
        BY <1>1, <3>1
      <3>5. \A u \in Users : \/ seatLock'[u] = p /\ new.at = "store"
                             \/ seatLock'[u] # p /\ seatLock'[u] \in {seatLock[u], None}
        BY <3>2, <3>3, <3>4
      <3> QED
        BY <1>1, <3>1, <3>2, <3>4, <3>5, RouteStep DEF tables
    <2>2. CASE post[p].user \notin seats
      <3>1. post[p].at = "lock" /\ EndPost(p) /\ UNCHANGED governance
        BY <1>5, <2>2 DEF LockSeat
      <3>2. PICK new \in Post : /\ post' = [post EXCEPT ![p] = new]
                               /\ Going(new)
        BY <3>1, NextStatement DEF PostSteps
      <3> QED
        BY <1>1, <3>1, <3>2, RouteMoves DEF governance, tables, locks
    <2> QED
      BY <2>1, <2>2
  <1>6. CASE EndRequest(p)
    <2>1. /\ seatLock' = [u \in Users |-> IF seatLock[u] = p THEN None ELSE seatLock[u]]
          /\ EndPost(p) /\ UNCHANGED <<tables, rowLock, inviteLock, at, call, calls, raced>>
          /\ post[p].at # "idle"
      BY <1>6 DEF EndRequest
    <2>2. p # None
      BY NoneAssumption
    <2>3. /\ seatLock' \in [Users -> Reqs \cup Posts \cup {None}]
          /\ \A u \in Users : seatLock'[u] # p /\ seatLock'[u] \in {seatLock[u], None}
      BY <1>1, <2>1, <2>2
    <2>4. PICK new \in Post : /\ post' = [post EXCEPT ![p] = new]
                             /\ Going(new)
      BY <2>1, NextStatement DEF PostSteps
    <2> QED
      BY <1>1, <2>1, <2>3, <2>4, RouteStep DEF tables
  <1> QED
    BY <1>2, <1>3, <1>4, <1>5, <1>6 DEF Route

-----------------------------------------------------------------------------
(* The inductive invariant.                                                *)

\* Every initial state.
LEMMA Starts ==
    ASSUME Init
    PROVE  IInv
  <1>1. /\ rowLock = [u \in Users |-> None] /\ seatLock = [u \in Users |-> None]
        /\ inviteLock = None /\ at = [r \in Reqs |-> "idle"] /\ call = [r \in Reqs |-> Blank]
        /\ calls = 0 /\ raced = FALSE /\ post = [p \in Posts |-> Resting]
        /\ Owners # {}
    BY DEF Init
  <1>2. TablesOK /\ invite.uses <= MaxUses
    <2>1. invite \in Invite /\ invite.uses = 0
      <3> DEFINE No == {FALSE}
                 Granted == Roles \ {Owner}
      <3>1. invite \in [uses: {0}, revoked: No, expired: No, role: Granted]
        BY DEF Init
      <3>2. No \subseteq BOOLEAN /\ Granted \subseteq Roles
        OBVIOUS
      <3> HIDE DEF No, Granted
      <3> QED
        BY <3>1, <3>2 DEF Invite
    <2>2. override \in [Subjects -> Verdicts]
      <3>1. override = [s \in Subjects |-> "unset"]
        BY DEF Init
      <3> QED
        BY <3>1 DEF Verdicts
    <2>3. channel \in BOOLEAN
      <3>1. channel = ("create_channel" \notin Ops)
        BY DEF Init
      <3> QED
        BY <3>1
    <2>4. banned \subseteq Users /\ seats \subseteq Users
      <3>1. banned \in SUBSET {u \in Users : ~IsMember(u)}
        BY DEF Init
      <3>2. seats = {u \in Users : channel /\ IsMember(u)}
        BY DEF Init
      <3> QED
        BY <3>1, <3>2
    <2>5. role \in [Users -> Roles \cup {None}]
      BY DEF Init
    <2>6. invite.uses <= MaxUses
      BY <2>1, BoundsAssumption
    <2>7. TablesOK
      BY <2>1, <2>2, <2>3, <2>4, <2>5 DEF TablesOK
    <2> QED
      BY <2>6, <2>7
  <1>3. RequestsOK
    <2>1. at \in [Reqs -> Steps] /\ call \in [Reqs -> Call]
      BY <1>1, BlankOK DEF Steps
    <2>2. calls \in 0..MaxCalls
      BY <1>1, BoundsAssumption
    <2>3. post \in [Posts -> Post]
      BY <1>1 DEF Post, PostSteps, Resting, Kinds
    <2>4. raced \in BOOLEAN
      BY <1>1
    <2> QED
      BY <2>1, <2>2, <2>3, <2>4 DEF RequestsOK
  <1>4. LocksOK
    BY <1>1, NoneAssumption DEF LocksOK
  <1>5. ASSUME NEW r \in Reqs
        PROVE  Mine(r)
    <2>1. /\ at[r] = "idle" /\ call[r] = Blank /\ inviteLock # r /\ None \notin Handlers
          /\ \A u \in Users : rowLock[u] # r
      BY <1>1, NoneAssumption
    <2>2. Formed(r)
      BY <2>1, BlankOK, Table DEF Formed, Handlers, Joins, Managed, Removals
    <2>3. RowsHeld(r) /\ RowWritten(r) /\ InviteHeld(r)
      BY <2>1, BlankOK DEF RowsHeld, RowWritten, InviteHeld, Writes
    <2> QED
      BY <2>2, <2>3 DEF Mine
  <1>6. \A q \in Reqs : ~TakingOwner(q)
    BY <1>1, BlankOK DEF TakingOwner, Writes
  <1>7. OwnerKept
    BY <1>1, <1>6 DEF OwnerKept
  <1>8. Routed
    BY <1>1 DEF Routed, Going, Resting
  <1> QED
    BY <1>2, <1>3, <1>4, <1>5, <1>7, <1>8, TypeParts DEF IInv

\* Every step of a handler.
LEMMA HandleKeeps ==
    ASSUME IInv, NEW r \in Reqs, Handle(r)
    PROVE  IInv'
  <1>1. CASE /\ at[r] = "idle"
             /\ \/ ManageGate(r) \/ LeaveGate(r) \/ AddGate(r) \/ JoinGate(r)
                \/ RevokeGate(r) \/ OverrideGate(r) \/ CreateGate(r)
    BY <1>1, ManageGateStep, LeaveGateStep, AddGateStep, JoinGateStep, PlainGateStep
  <1>2. CASE ManageSelect(r) \/ LockNextRow(r) \/ Decide(r) \/ Unban(r)
    BY <1>2, ManageSelectStep, LockNextRowStep, DecideStep, UnbanStep
  <1>3. CASE WriteRow(r) \/ CleanUp(r) \/ Commit(r)
    BY <1>3, WriteRowStep, CleanUpStep, CommitStep
  <1>4. CASE AddCheck(r) \/ JoinRedeem(r) \/ InsertRow(r) \/ SeatNewMember(r)
    BY <1>4, AddCheckStep, JoinRedeemStep, InsertRowStep, SeatNewMemberStep
  <1>5. CASE Revoke(r) \/ WriteOverride(r) \/ ListMembers(r) \/ CommitChannel(r)
    BY <1>5, RevokeStep, WriteOverrideStep, ListMembersStep, CommitChannelStep
  <1>6. CASE Rollback(r)
    BY <1>6, AbandonStep DEF Rollback
  <1> QED
    BY <1>1, <1>2, <1>3, <1>4, <1>5, <1>6 DEF Handle

\* Every step of the handlers and the routes.
LEMMA NextKeeps ==
    ASSUME IInv, [AccessNext]_vars
    PROVE  IInv'
  <1>1. CASE Expire
    BY <1>1, ExpireStep
  <1>2. CASE \E r \in Reqs : Handle(r)
    BY <1>2, HandleKeeps
  <1>3. CASE \E p \in Posts : Route(p)
    BY <1>3, RouteKeeps
  <1>4. CASE UNCHANGED vars
    BY <1>4 DEF IInv, TypeOK, Routed, Going, Mine, Formed, RowsHeld, RowWritten, InviteHeld,
       OwnerKept, Owners, Authorised, Involved, IsMember, TakingOwner, TakesOwner, Writes,
       vars, governance, tables, locks
  <1> QED
    BY <1>1, <1>2, <1>3, <1>4 DEF AccessNext, Next

\* IInv holds of the handlers beside the routes,
THEOREM Invariance == AccessSpec => []IInv
  <1>1. Init => IInv
    BY Starts
  <1>2. IInv /\ [AccessNext]_vars => IInv'
    BY NextKeeps
  <1> QED
    BY <1>1, <1>2, PTL DEF AccessSpec

\* and of the handlers alone, whose steps are among those.
LEMMA HandlersOnly == Spec => AccessSpec
  <1>1. [Next]_vars => [AccessNext]_vars
    BY DEF AccessNext
  <1> QED
    BY <1>1, PTL DEF Spec, AccessSpec

-----------------------------------------------------------------------------
(* What the invariant says in every reachable state.                       *)

\* The types and the owners of the locks.
THEOREM TypeCorrect == AccessSpec => []TypeOK
  <1>1. IInv => TypeOK
    BY DEF IInv
  <1> QED
    BY <1>1, Invariance, PTL

\* Only transactions that overlap can take the last owner away.
THEOREM OwnerLostOnlyInRace == AccessSpec => []OwnerLostOnlyToRace
  <1>1. IInv => OwnerLostOnlyToRace
    BY DEF IInv, OwnerKept, OwnerLostOnlyToRace
  <1> QED
    BY <1>1, Invariance, PTL

\* The cap of an invite holds under any number of redemptions.
THEOREM InviteCap == AccessSpec => []InviteCapped
  <1>1. IInv => InviteCapped
    BY DEF IInv, InviteCapped
  <1> QED
    BY <1>1, Invariance, PTL

-----------------------------------------------------------------------------
(* Deadlock.                                                               *)

\* Who waits is at one of these statements, for the holder of one of these locks.
LEMMA Blockers ==
    ASSUME IInv, NEW r \in Reqs, Blocker(r) \in Reqs
    PROVE  \/ at[r] = "lock" /\ call[r].todo # {} /\ Blocker(r) = rowLock[FirstOf(r)]
           \/ /\ at[r] \in {"write", "insert"} /\ Blocker(r) = rowLock[call[r].target]
              /\ rowLock[call[r].target] # r
           \/ at[r] \in {"clean", "seat"} /\ Blocker(r) = seatLock[call[r].target]
           \/ at[r] \in {"redeem", "revoke"} /\ Blocker(r) = inviteLock
  <1>1. Blocker(r) # None
    BY NoneAssumption
  <1> QED
    BY <1>1 DEF Blocker

\* The request that deletes a seat waits for nobody: all that is left is its commit.
LEMMA SeatHolders ==
    ASSUME IInv, NEW u \in Users, seatLock[u] \in Reqs
    PROVE  Blocker(seatLock[u]) = None
  <1> DEFINE q == seatLock[u]
  <1>1. q \in Reqs /\ "seat" \in call[q].writes
    BY DEF IInv, TypeOK, Writes
  <1> HIDE DEF q
  <1>2. at[q] = "commit"
    BY <1>1, Typed DEF Formed
  <1>3. Blocker(q) = None
    BY <1>2 DEF Blocker
  <1> QED
    BY <1>3 DEF q

\* A holder of a member row that waits is locking more rows.
LEMMA RowHolders ==
    ASSUME IInv, NEW u \in Users, NEW q \in Reqs, rowLock[u] = q, Blocker(q) \in Reqs
    PROVE  at[q] = "lock" \/ Blocker(Blocker(q)) = None
  <1>1. /\ at[q] \in {"lock", "unban", "write", "clean", "commit", "seat"}
        /\ at[q] = "write" => call[q].op \in Managed
    BY Typed DEF RowsHeld
  <1>2. CASE at[q] = "write"
    <2>1. Authorised(q) /\ call[q].op \in OpsAt("write")
      BY <1>1, <1>2, Typed DEF RowsHeld, Formed
    <2>2. call[q].op # "unban"
      BY <2>1, Table DEF Removals
    <2>3. rowLock[call[q].target] = q
      BY <2>1, <2>2 DEF Authorised, Involved
    <2> QED
      BY <1>2, <2>3, Blockers
  <1>3. CASE at[q] \in {"clean", "seat"}
    <2>1. Blocker(q) = seatLock[call[q].target]
      BY <1>3, Blockers
    <2>2. call[q].op \in Removals \cup Joins
      BY <1>3, Typed, Table DEF Formed, Joins
    <2>3. call[q].target \in Users
      BY <2>2, Typed DEF Formed, Removals, Joins, Managed
    <2> QED
      BY <2>1, <2>3, SeatHolders
  <1>4. CASE at[q] \in {"unban", "commit"}
    BY <1>4, Blockers
  <1> QED
    BY <1>1, <1>2, <1>3, <1>4

\* No set of requests waits for itself: a chain of waits leads to requests that
\* lock member rows, and among those the row that is waited for only grows.
LEMMA NobodyWaitsInACircle ==
    ASSUME IInv
    PROVE  NoDeadlock
  <1> SUFFICES ASSUME NEW waiting \in SUBSET Reqs, waiting # {},
                      \A r \in waiting : Blocker(r) \in waiting
               PROVE  FALSE
    BY DEF NoDeadlock
  <1> DEFINE locking == {r \in waiting : at[r] = "lock"}
  <1>1. None \notin Reqs
    BY NoneAssumption
  <1>2. ASSUME NEW r \in waiting, Blocker(Blocker(r)) = None
        PROVE  FALSE
    BY <1>1, <1>2
  <1>3. ASSUME NEW r \in waiting, NEW u \in Users, rowLock[u] = Blocker(r)
        PROVE  Blocker(r) \in locking
    <2>1. Blocker(r) \in waiting /\ Blocker(Blocker(r)) \in waiting
      OBVIOUS
    <2>2. at[Blocker(r)] = "lock" \/ Blocker(Blocker(Blocker(r))) = None
      BY <1>3, <2>1, RowHolders
    <2> QED
      BY <1>2, <2>1, <2>2
  <1>4. ASSUME NEW r \in waiting, at[r] \in {"write", "insert"}
        PROVE  Blocker(r) \in locking
    <2>1. Blocker(r) = rowLock[call[r].target]
      BY <1>4, Blockers
    <2>2. call[r].op \in Removals \cup Joins \cup {"set_role"}
      BY <1>4, Typed, Table DEF Formed, Joins
    <2>3. call[r].target \in Users
      BY <2>2, Typed DEF Formed, Removals, Joins, Managed
    <2> QED
      BY <1>3, <2>1, <2>3
  <1>5. ASSUME NEW r \in locking
        PROVE  /\ FirstOf(r) \in Users /\ Blocker(r) = rowLock[FirstOf(r)]
               /\ Blocker(r) \in locking /\ FirstOf(r) < FirstOf(Blocker(r))
    <2>1. call[r].todo # {} /\ Blocker(r) = rowLock[FirstOf(r)]
      BY Blockers
    <2>2. FirstOf(r) \in Users
      BY <2>1, First
    <2>3. Blocker(r) \in locking
      BY <1>3, <2>1, <2>2
    <2> DEFINE q == Blocker(r)
    <2>4. q \in Reqs /\ at[q] = "lock" /\ rowLock[FirstOf(r)] = q
      BY <2>1, <2>3
    <2>5. call[q].todo # {}
      BY <2>3, Blockers
    <2> HIDE DEF q
    <2>6. FirstOf(q) \in call[q].todo
      BY <2>4, <2>5, First
    <2>7. FirstOf(r) < FirstOf(q)
      BY <2>2, <2>4, <2>6, Typed DEF RowsHeld
    <2> QED
      BY <2>1, <2>2, <2>3, <2>7 DEF q
  <1>6. locking # {}
    <2>1. PICK r \in waiting : TRUE
      OBVIOUS
    <2>2. CASE at[r] \in {"clean", "seat"}
      <3>1. Blocker(r) = seatLock[call[r].target] /\ Blocker(r) \in Reqs
        BY <2>2, Blockers
      <3>2. call[r].op \in Removals \cup Joins
        BY <2>2, Typed, Table DEF Formed, Joins
      <3>3. call[r].target \in Users
        BY <3>2, Typed DEF Formed, Removals, Joins, Managed
      <3> QED
        BY <1>2, <3>1, <3>3, SeatHolders
    <2>3. CASE at[r] \in {"redeem", "revoke"}
      <3>1. Blocker(r) = inviteLock /\ Blocker(r) \in waiting
        BY <2>3, Blockers
      <3>2. at[Blocker(r)] \in {"insert", "seat"}
        BY <3>1, Typed DEF InviteHeld
      <3>3. CASE at[Blocker(r)] = "insert"
        BY <1>4, <3>1, <3>3
      <3>4. CASE at[Blocker(r)] = "seat"
        <4> DEFINE q == Blocker(r)
        <4>1. q \in waiting /\ at[q] = "seat"
          BY <3>1, <3>4
        <4> HIDE DEF q
        <4>2. Blocker(q) = seatLock[call[q].target] /\ Blocker(q) \in Reqs
          BY <4>1, Blockers
        <4>3. call[q].op \in Joins
          BY <4>1, Typed, Table DEF Formed, Joins
        <4>4. call[q].target \in Users
          BY <4>1, <4>3, Typed DEF Formed, Joins
        <4> QED
          BY <1>2, <4>1, <4>2, <4>4, SeatHolders
      <3> QED
        BY <3>2, <3>3, <3>4
    <2>4. CASE at[r] \in {"write", "insert"}
      BY <1>4, <2>4
    <2> QED
      BY <2>2, <2>3, <2>4, Blockers
  <1> DEFINE waitedFor == {FirstOf(r) : r \in locking}
  <1>7. waitedFor \in SUBSET Users /\ waitedFor # {}
    BY <1>5, <1>6
  <1>8. \A u \in waitedFor : \E v \in waitedFor : u < v
    BY <1>5
  <1> HIDE DEF waitedFor
  <1>9. IsFiniteSet(waitedFor)
    BY <1>7, UsersAssumption, FS_Subset
  <1>10. waitedFor \subseteq Int
    BY <1>7, UsersAssumption
  <1>11. PICK m \in waitedFor : \A u \in waitedFor : m >= u
    BY <1>7, <1>9, <1>10, Extremes
  <1>12. PICK v \in waitedFor : m < v
    BY <1>8, <1>11
  <1> QED
    BY <1>10, <1>11, <1>12

\* The order of ids in locked_roles rules deadlocks out, for all requests.
THEOREM DeadlockFree == AccessSpec => []NoDeadlock
  <1> QED
    BY NobodyWaitsInACircle, Invariance, PTL

-----------------------------------------------------------------------------
(* What a step publishes.                                                  *)

\* The steps that change committed rows.
Publish(r) ==
    \/ Unban(r) \/ Commit(r) \/ SeatNewMember(r) \/ Revoke(r) \/ WriteOverride(r)
    \/ CommitChannel(r) /\ ~channel /\ seats' = call[r].todo /\ UNCHANGED <<role, invite>>

\* All others are private to their request.
LEMMA Publishers ==
    ASSUME NEW r \in Reqs, Handle(r)
    PROVE  post' = post /\ (Publish(r) \/ UNCHANGED tables)
  <1>1. CASE /\ at[r] = "idle"
             /\ \/ ManageGate(r) \/ LeaveGate(r) \/ AddGate(r) \/ JoinGate(r)
                \/ RevokeGate(r) \/ OverrideGate(r) \/ CreateGate(r)
    BY <1>1 DEF ManageGate, LeaveGate, AddGate, JoinGate, RevokeGate, OverrideGate, CreateGate,
       Begin
  <1>2. CASE ManageSelect(r) \/ LockNextRow(r)
    BY <1>2 DEF ManageSelect, LockNextRow
  <1>3. CASE Decide(r) \/ WriteRow(r)
    BY <1>3 DEF Decide, WriteRow, Abandon
  <1>4. CASE CleanUp(r) \/ ListMembers(r) \/ Rollback(r)
    BY <1>4 DEF CleanUp, ListMembers, Rollback, Abandon
  <1>5. CASE AddCheck(r) \/ JoinRedeem(r) \/ InsertRow(r)
    BY <1>5 DEF AddCheck, JoinRedeem, InsertRow, Abandon
  <1>6. CASE Unban(r) \/ Commit(r)
    BY <1>6 DEF Publish, Unban, Commit
  <1>7. CASE SeatNewMember(r)
    BY <1>7 DEF Publish, SeatNewMember
  <1>8. CASE Revoke(r) \/ WriteOverride(r)
    BY <1>8 DEF Publish, Revoke, WriteOverride
  <1>9. CASE CommitChannel(r)
    <2>1. CASE channel
      BY <1>9, <2>1 DEF CommitChannel, Abandon
    <2>2. CASE ~channel
      BY <1>9, <2>2 DEF CommitChannel, Publish
    <2> QED
      BY <2>1, <2>2
  <1> QED
    BY <1>1, <1>2, <1>3, <1>4, <1>5, <1>6, <1>7, <1>8, <1>9 DEF Handle

\* Who publishes is done, and moves nobody else.
LEMMA PublishEnds ==
    ASSUME IInv, NEW r \in Reqs, Publish(r)
    PROVE  at'[r] = "idle" /\ \A q \in Reqs \ {r} : at'[q] = at[q]
  <1>1. CASE Unban(r)
    BY <1>1, Finished DEF Unban
  <1>2. CASE Commit(r)
    BY <1>2, Finished DEF Commit
  <1>3. CASE SeatNewMember(r)
    BY <1>3, Finished DEF SeatNewMember
  <1>4. CASE Revoke(r) \/ WriteOverride(r)
    BY <1>4, Finished DEF Revoke, WriteOverride
  <1>5. CASE CommitChannel(r) /\ ~channel
    BY <1>5, Finished DEF CommitChannel
  <1> QED
    BY <1>1, <1>2, <1>3, <1>4, <1>5 DEF Publish

\* The managed operations publish by these two steps only.
LEMMA ManagedPublish ==
    ASSUME IInv, NEW r \in Reqs, Publish(r), call[r].op \in Managed
    PROVE  Unban(r) \/ Commit(r)
  <1>1. CASE SeatNewMember(r)
    BY <1>1, Typed, Table DEF SeatNewMember, Formed, Managed
  <1>2. CASE Revoke(r)
    BY <1>2, Typed, Table DEF Revoke, Formed, Managed
  <1>3. CASE WriteOverride(r)
    BY <1>3, Typed, Table DEF WriteOverride, Formed, Managed
  <1>4. CASE CommitChannel(r)
    BY <1>4, Typed, Table DEF CommitChannel, Formed, Managed
  <1> QED
    BY <1>1, <1>2, <1>3, <1>4 DEF Publish

\* A managed operation that ends in a step and changes a row is the one whose
\* step it is.
LEMMA WhoEnds ==
    ASSUME IInv, [AccessNext]_vars, NEW r \in Reqs, call[r].op \in Managed, at'[r] = "idle"
    PROVE  \/ role' = role /\ (tables' = tables \/ Unban(r))
           \/ Commit(r)
  <1>1. at[r] # "idle"
    BY IdleHolds, NoneAssumption DEF Handlers
  <1>2. CASE Handle(r)
    <2>1. CASE UNCHANGED tables
      BY <2>1 DEF tables
    <2>2. CASE Publish(r)
      BY <2>2, ManagedPublish DEF Unban
    <2> QED
      BY <1>2, <2>1, <2>2, Publishers
  <1>3. ASSUME NEW q \in Reqs \ {r}, Handle(q)
        PROVE  UNCHANGED tables
    BY <1>1, <1>3, Publishers, PublishEnds
  <1>4. CASE Expire
    BY <1>1, <1>4 DEF Expire
  <1>5. CASE \E p \in Posts : Route(p)
    BY <1>1, <1>5 DEF Route, Enter, Heal, SendGate, LockSeat, EndRequest, governance, tables
  <1>6. CASE UNCHANGED vars
    BY <1>6 DEF vars, governance, tables
  <1> QED
    BY <1>2, <1>3, <1>4, <1>5, <1>6 DEF AccessNext, Next, tables

\* What the locked rows say at the commit is what they said at the decision.
LEMMA StillAuthorised ==
    ASSUME IInv, NEW r \in Reqs, call[r].op \in Managed, at[r] \in {"unban", "commit"}
    PROVE  /\ IsMember(call[r].actor) /\ RoleHas(role[call[r].actor], Needs(call[r].op))
           /\ call[r].op # "unban" =>
                  CheckRank(role[call[r].actor], role[call[r].target], call[r].new)
  <1>1. Authorised(r)
    BY Typed DEF RowsHeld
  <1>2. call[r].actor \in Users /\ rowLock[call[r].actor] = r
    BY <1>1, Asked DEF Authorised, Involved
  <1>3. IsMember(call[r].actor)
    BY <1>2, Typed DEF RowsHeld
  <1> QED
    BY <1>1, <1>3 DEF Authorised

\* No promotion or demotion slips between the decision and the commit.
THEOREM AuthorityHolds == AccessSpec => AuthorityAtCommit
  <1> DEFINE Ok(r) == (call[r].op \in Managed /\ at'[r] = "idle" /\ tables' # tables) =>
                  /\ IsMember(call[r].actor)
                  /\ RoleHas(role[call[r].actor], Needs(call[r].op))
                  /\ call[r].op # "unban" =>
                        CheckRank(role[call[r].actor], role[call[r].target], call[r].new)
  <1>1. ASSUME IInv, [AccessNext]_vars
        PROVE  \A r \in Reqs : Ok(r)
    <2> SUFFICES ASSUME NEW r \in Reqs, call[r].op \in Managed, at'[r] = "idle", tables' # tables
                 PROVE  Ok(r)
      OBVIOUS
    <2>1. Unban(r) \/ Commit(r)
      BY <1>1, WhoEnds
    <2>2. at[r] \in {"unban", "commit"}
      BY <2>1 DEF Unban, Commit
    <2> QED
      BY <1>1, <2>2, StillAuthorised
  <1> QED
    BY <1>1, Invariance, PTL DEF AccessSpec, AuthorityAtCommit

\* An owner who is demoted or removed by somebody else leaves that owner behind.
THEOREM OwnerOutlives == AccessSpec => OwnerOutlivesOthers
  <1> DEFINE Ok(r) == (call[r].op \in Managed /\ call[r].actor # call[r].target /\
                       at'[r] = "idle" /\ Owners # {}) => Owners' # {}
  <1>1. ASSUME IInv, [AccessNext]_vars
        PROVE  \A r \in Reqs : Ok(r)
    <2> SUFFICES ASSUME NEW r \in Reqs, call[r].op \in Managed, at'[r] = "idle",
                        call[r].actor # call[r].target, Owners # {}
                 PROVE  Owners' # {}
      OBVIOUS
    <2>1. CASE role' = role
      BY <2>1 DEF Owners
    <2>2. CASE Commit(r) /\ role' # role
      <3> DEFINE t == call[r].target
                 a == call[r].actor
      <3>1. role' = [role EXCEPT ![t] = call[r].new] /\ at[r] = "commit"
        BY <2>2 DEF Commit
      <3>2. role \in [Users -> Roles \cup {None}] /\ a \in Users
        BY <1>1, Typed, Asked
      <3>3. call[r].op # "unban"
        BY <1>1, <3>1, Typed, Table DEF Formed, Removals
      <3>4. IsMember(a) /\ CheckRank(role[a], role[t], call[r].new)
        BY <1>1, <3>1, <3>3, StillAuthorised
      <3> HIDE DEF t, a
      <3>5. \E u \in Owners : u # t
        <4>1. CASE t \in Owners
          <5>1. role[t] = Owner
            BY <4>1 DEF Owners
          <5>2. role[a] \in Guest..Owner
            BY <3>2, <3>4, RolesAssumption DEF IsMember
          <5>3. role[a] = Owner
            BY <3>4, <5>1, <5>2 DEF CheckRank, Guest, Owner
          <5>4. a \in Owners
            BY <3>2, <5>3 DEF Owners
          <5> QED
            BY <5>4 DEF a, t
        <4>2. CASE t \notin Owners
          BY <4>2
        <4> QED
          BY <4>1, <4>2
      <3>6. PICK u \in Owners : u # t
        BY <3>5
      <3>7. u \in Owners'
        BY <3>1, <3>2, <3>6 DEF Owners
      <3> QED
        BY <3>7
    <2>3. role' = role \/ Commit(r)
      BY <1>1, WhoEnds
    <2> QED
      BY <2>1, <2>2, <2>3
  <1> QED
    BY <1>1, Invariance, PTL DEF AccessSpec, OwnerOutlivesOthers

\* Whoever redeems the invite had locked it before its revocation committed.
THEOREM RevokedIsDead == AccessSpec => RevokedSeatsNobody
  <1>1. ASSUME IInv, [AccessNext]_vars, invite.revoked
        PROVE  invite'.uses = invite.uses
    <2>1. invite \in Invite
      BY <1>1 DEF IInv, TypeOK
    <2>2. ASSUME NEW r \in Reqs, SeatNewMember(r)
          PROVE  invite' = invite
      <3>1. call[r].op # "join_via_invite"
        BY <1>1, <2>2, Typed DEF SeatNewMember, InviteHeld
      <3> QED
        BY <2>2, <3>1 DEF SeatNewMember
    <2>3. ASSUME NEW r \in Reqs, Revoke(r)
          PROVE  invite'.uses = invite.uses
      BY <2>1, <2>3 DEF Revoke, Invite
    <2>4. ASSUME NEW r \in Reqs, Publish(r), ~SeatNewMember(r), ~Revoke(r)
          PROVE  invite' = invite
      BY <2>4 DEF Publish, Unban, Commit, WriteOverride
    <2>5. CASE Expire
      BY <2>1, <2>5 DEF Expire, Invite
    <2>6. ASSUME NEW r \in Reqs, Handle(r)
          PROVE  invite'.uses = invite.uses
      BY <2>2, <2>3, <2>4, <2>6, Publishers DEF tables
    <2>7. CASE \E p \in Posts : Route(p)
      BY <2>7 DEF Route, Enter, Heal, SendGate, LockSeat, EndRequest, governance, tables
    <2>8. CASE UNCHANGED vars
      BY <2>8 DEF vars, governance, tables
    <2> QED
      BY <1>1, <2>5, <2>6, <2>7, <2>8 DEF AccessNext, Next
  <1> QED
    BY <1>1, Invariance, PTL DEF AccessSpec, RevokedSeatsNobody

-----------------------------------------------------------------------------
(* The seats of the channel, when it is not being created.                 *)

\* A step does not touch what another request is at and has written.
OthersStay(r) ==
    \A q \in Reqs \ {r} :
        /\ at'[q] = at[q] /\ call'[q].op = call[q].op
        /\ call'[q].target = call[q].target /\ call'[q].writes = call[q].writes

\* A step that goes on with another record of its call,
LEMMA GoesOn ==
    ASSUME IInv, NEW r \in Reqs, NEW s, NEW c,
           at' = [at EXCEPT ![r] = s], call' = [call EXCEPT ![r] = c]
    PROVE  OthersStay(r) /\ at'[r] = s /\ call'[r] = c
  BY Typed DEF OthersStay

\* with the same one,
LEMMA Proceeds ==
    ASSUME IInv, NEW r \in Reqs, NEW s, at' = [at EXCEPT ![r] = s], call' = call
    PROVE  OthersStay(r) /\ at'[r] = s
  BY Typed DEF OthersStay

\* and one that ends.
LEMMA Ends ==
    ASSUME IInv, NEW r \in Reqs, NEW gone, Finish(r, gone)
    PROVE  OthersStay(r) /\ at'[r] = "idle"
  BY Finished DEF OthersStay

\* A removal comes to its commit only from the cleanup.
LEMMA Moves ==
    ASSUME IInv, NEW r \in Reqs, Handle(r), ~CleanUp(r)
    PROVE  OthersStay(r) /\ (at'[r] = "commit" => call'[r].op \notin Removals)
  <1>1. CASE /\ at[r] = "idle"
             /\ \/ ManageGate(r) \/ LeaveGate(r) \/ AddGate(r) \/ JoinGate(r)
                \/ RevokeGate(r) \/ OverrideGate(r) \/ CreateGate(r)
    <2>1. \E s \in Steps \ {"commit"} : \E c :
             at' = [at EXCEPT ![r] = s] /\ call' = [call EXCEPT ![r] = c]
      BY <1>1 DEF ManageGate, LeaveGate, AddGate, JoinGate, RevokeGate, OverrideGate, CreateGate,
         Begin, Advance, Steps
    <2> QED
      BY <2>1, GoesOn
  <1>2. CASE ManageSelect(r)
    <2>1. /\ at' = [at EXCEPT ![r] = "lock"]
          /\ call' = [call EXCEPT ![r] =
                          [call[r] EXCEPT !.todo = {u \in Involved(r) : IsMember(u)}]]
      BY <1>2, Typed DEF ManageSelect, Advance
    <2>2. OthersStay(r) /\ at'[r] = "lock"
      BY <2>1, GoesOn
    <2> QED
      BY <2>2
  <1>3. CASE LockNextRow(r)
    <2>1. /\ at' = [at EXCEPT ![r] = "lock"]
          /\ call' = [call EXCEPT ![r] = [call[r] EXCEPT !.todo = @ \ {FirstOf(r)}]]
      BY <1>3, Typed DEF LockNextRow
    <2>2. OthersStay(r) /\ at'[r] = "lock"
      BY <2>1, GoesOn
    <2> QED
      BY <2>2
  <1>4. CASE Decide(r)
    <2>1. CASE Abandon(r)
      BY <2>1, Ends DEF Abandon
    <2>2. CASE ~Abandon(r)
      <3> DEFINE s == IF call[r].op = "unban" THEN "unban" ELSE "write"
      <3>1. at' = [at EXCEPT ![r] = s] /\ call' = call /\ s # "commit"
        BY <1>4, <2>2 DEF Decide, Advance
      <3> HIDE DEF s
      <3>2. OthersStay(r) /\ at'[r] = s
        BY <3>1, Proceeds
      <3> QED
        BY <3>1, <3>2
    <2> QED
      BY <2>1, <2>2
  <1>5. CASE WriteRow(r)
    <2>1. CASE Abandon(r)
      BY <2>1, Ends DEF Abandon
    <2>2. CASE ~Abandon(r) /\ IsMember(call[r].target)
      <3> DEFINE more == {"row"} \cup (IF call[r].op = "ban_member" /\ call[r].target \notin banned
                                      THEN {"ban"} ELSE {})
                 c == [call[r] EXCEPT !.writes = call[r].writes \cup more]
      <3>1. /\ at' = [at EXCEPT ![r] = IF call[r].op = "set_role" THEN "commit" ELSE "clean"]
            /\ call' = [call EXCEPT ![r] = c]
        BY <1>5, <2>2, Typed DEF WriteRow, Wrote, Advance
      <3>2. c.op = call[r].op
        BY Typed DEF Call
      <3> HIDE DEF c
      <3> QED
        BY <3>1, <3>2, GoesOn DEF Removals
    <2>3. CASE ~Abandon(r) /\ ~IsMember(call[r].target)
      <3>1. at' = [at EXCEPT ![r] = "clean"] /\ call' = call
        BY <1>5, <2>3 DEF WriteRow, Advance
      <3>2. OthersStay(r) /\ at'[r] = "clean"
        BY <3>1, Proceeds
      <3> QED
        BY <3>2
    <2> QED
      BY <2>1, <2>2, <2>3
  <1>6. CASE AddCheck(r) \/ JoinRedeem(r)
    <2>1. CASE Abandon(r)
      BY <2>1, Ends DEF Abandon
    <2>2. CASE ~Abandon(r)
      <3>1. at' = [at EXCEPT ![r] = "insert"] /\ call' = call
        BY <1>6, <2>2 DEF AddCheck, JoinRedeem, Advance
      <3>2. OthersStay(r) /\ at'[r] = "insert"
        BY <3>1, Proceeds
      <3> QED
        BY <3>2
    <2> QED
      BY <2>1, <2>2
  <1>7. CASE InsertRow(r)
    <2>1. CASE Abandon(r)
      BY <2>1, Ends DEF Abandon
    <2>2. CASE ~Abandon(r)
      <3>1. /\ at' = [at EXCEPT ![r] = "seat"]
            /\ call' = [call EXCEPT ![r] = [call[r] EXCEPT !.writes = @ \cup {"row"}]]
        BY <1>7, <2>2, Typed DEF InsertRow, Wrote, Advance
      <3>2. OthersStay(r) /\ at'[r] = "seat"
        BY <3>1, GoesOn
      <3> QED
        BY <3>2
    <2> QED
      BY <2>1, <2>2
  <1>8. CASE ListMembers(r)
    <2>1. /\ at' = [at EXCEPT ![r] = "create"]
          /\ call' = [call EXCEPT ![r] = [call[r] EXCEPT !.todo = {u \in Users : IsMember(u)}]]
      BY <1>8, Typed DEF ListMembers, Advance
    <2>2. OthersStay(r) /\ at'[r] = "create"
      BY <2>1, GoesOn
    <2> QED
      BY <2>2
  <1>9. CASE Unban(r) \/ Commit(r) \/ SeatNewMember(r) \/ Revoke(r) \/ WriteOverride(r)
    BY <1>9, Ends DEF Unban, Commit, SeatNewMember, Revoke, WriteOverride
  <1>10. CASE CommitChannel(r) \/ Rollback(r)
    BY <1>10, Ends DEF CommitChannel, Rollback, Abandon
  <1> QED
    BY <1>1, <1>2, <1>3, <1>4, <1>5, <1>6, <1>7, <1>8, <1>9, <1>10 DEF Handle

\* The commit of a request that has written a member row, as a function of it.
LEMMA Committed ==
    ASSUME IInv, NEW r \in Reqs, Commit(r)
    PROVE  /\ call[r].target \in Users /\ seats' \subseteq seats
           /\ \A u \in Users : u # call[r].target =>
                 role'[u] = role[u] /\ (u \in seats' <=> u \in seats)
           /\ Writes(r, "row") => role'[call[r].target] = call[r].new
           /\ ~Writes(r, "row") => role' = role
           /\ Writes(r, "seat") => call[r].target \notin seats'
           /\ call[r].op \in Removals => call[r].new = None
           /\ call[r].op \notin Removals => call[r].new \in Roles /\ call[r].op = "set_role"
  <1> DEFINE t == call[r].target
  <1>1. /\ role' = IF Writes(r, "row") THEN [role EXCEPT ![t] = call[r].new] ELSE role
        /\ seats' = IF Writes(r, "seat") THEN seats \ {t} ELSE seats
        /\ call[r].op \in Removals \cup {"set_role"}
    BY Typed, Table DEF Commit, Formed
  <1>2. t \in Users
    BY <1>1, Typed DEF Formed, Removals, Managed
  <1>3. /\ call[r].op \in Removals => call[r].new = None
        /\ call[r].op \notin Removals => call[r].new \in Roles /\ call[r].op = "set_role"
    BY <1>1, Typed DEF Formed
  <1> HIDE DEF t
  <1>4. /\ \A u \in Users : u # t => role'[u] = role[u]
        /\ Writes(r, "row") => role'[t] = call[r].new
    BY <1>1, <1>2, Typed
  <1>5. /\ seats' \subseteq seats /\ (Writes(r, "seat") => t \notin seats')
        /\ \A u \in Users : u # t => (u \in seats' <=> u \in seats)
    BY <1>1
  <1> QED
    BY <1>1, <1>2, <1>3, <1>4, <1>5 DEF t

\* A new member and its seat.
LEMMA Seated ==
    ASSUME IInv, NEW r \in Reqs, SeatNewMember(r)
    PROVE  /\ call[r].target \in Users /\ role'[call[r].target] # None /\ Writes(r, "row")
           /\ \A u \in Users : u # call[r].target => role'[u] = role[u]
           /\ seats' = IF channel THEN seats \cup {call[r].target} ELSE seats
  <1>1. call[r].op \in Joins /\ Writes(r, "row")
    BY Typed, Table DEF SeatNewMember, Formed, Joins, RowWritten
  <1>2. call[r].new \in Roles /\ call[r].target \in Users
    BY <1>1, Typed DEF Formed, Joins
  <1>3. role' = [role EXCEPT ![call[r].target] = call[r].new]
    BY DEF SeatNewMember
  <1>4. seats' = IF channel THEN seats \cup {call[r].target} ELSE seats
    BY DEF SeatNewMember
  <1> QED
    BY <1>1, <1>2, <1>3, <1>4, Typed, NoneAssumption

\* Without creations of the channel, every handler keeps seats and members in step.
LEMMA SeatsStep ==
    ASSUME IInv, SeatsKept, "create_channel" \notin Ops, NEW r \in Reqs, Handle(r)
    PROVE  SeatsKept'
  <1>1. seats \subseteq Users /\ \A u \in seats : role[u] # None
    BY DEF IInv, TypeOK, SeatsKept, OnlyMembersSeated, IsMember
  <1> DEFINE Ready(q) == at[q] = "commit" /\ call[q].op \in Removals /\ Writes(q, "row")
             ReadyNext(q) == at'[q] = "commit" /\ call'[q].op \in Removals /\ Writes(q, "row")'
  <1>2. \A q \in Reqs : Ready(q) => Writes(q, "seat") \/ call[q].target \notin seats
    BY DEF SeatsKept
  <1>3. SUFFICES /\ \A u \in seats' : role'[u] # None
                 /\ \A q \in Reqs : ReadyNext(q) =>
                       Writes(q, "seat")' \/ call'[q].target \notin seats'
    BY DEF SeatsKept, OnlyMembersSeated, IsMember
  <1>4. CASE CleanUp(r)
    <2> DEFINE t == call[r].target
               more == (IF t \in seats THEN {"seat"} ELSE {}) \cup
                       (IF override[<<"member", t>>] # "unset" THEN {"override"} ELSE {})
               c == [call[r] EXCEPT !.writes = call[r].writes \cup more]
    <2>1. /\ at' = [at EXCEPT ![r] = "commit"] /\ call' = [call EXCEPT ![r] = c]
          /\ role' = role /\ seats' = seats
      BY <1>4, Typed DEF CleanUp, Wrote, Advance, tables
    <2>2. t \in seats => "seat" \in more
      OBVIOUS
    <2> HIDE DEF more
    <2>3. c.writes = call[r].writes \cup more /\ c.target = t
      BY Typed DEF Call
    <2> HIDE DEF c
    <2>4. OthersStay(r) /\ call'[r] = c
      BY <2>1, GoesOn
    <2>5. Writes(r, "seat")' \/ call'[r].target \notin seats'
      BY <2>1, <2>2, <2>3, <2>4 DEF Writes
    <2>6. \A q \in Reqs \ {r} : ReadyNext(q) =>
             Writes(q, "seat")' \/ call'[q].target \notin seats'
      BY <1>2, <2>1, <2>4 DEF OthersStay, Writes
    <2> QED
      BY <1>1, <2>1, <2>5, <2>6
  <1>5. CASE ~CleanUp(r)
    <2>1. \A q \in Reqs : ReadyNext(q) =>
             /\ q # r /\ Ready(q) /\ call'[q].target = call[q].target
             /\ call'[q].writes = call[q].writes
      BY <1>5, Moves DEF OthersStay, Writes
    <2>2. SUFFICES /\ \A u \in seats' : role'[u] # None
                   /\ \A q \in Reqs \ {r} : Ready(q) /\ call[q].target \in seats' =>
                         call[q].target \in seats
      BY <1>2, <2>1 DEF Writes
    <2>3. CASE Commit(r)
      <3>1. Ready(r) => Writes(r, "seat") \/ call[r].target \notin seats
        BY <1>2
      <3>2. call[r].target \in seats' => role'[call[r].target] # None
        <4>1. CASE call[r].op \in Removals /\ Writes(r, "row")
          BY <2>3, <3>1, <4>1, Committed DEF Commit
        <4>2. CASE call[r].op \in Removals /\ ~Writes(r, "row")
          BY <1>1, <2>3, <4>2, Committed
        <4>3. CASE call[r].op \notin Removals
          <5>1. call[r].new # None
            BY <2>3, <4>3, Committed, NoneAssumption
          <5> QED
            BY <1>1, <2>3, <5>1, Committed
        <4> QED
          BY <4>1, <4>2, <4>3
      <3> QED
        BY <1>1, <2>3, <3>2, Committed
    <2>4. CASE SeatNewMember(r)
      <3>1. \A q \in Reqs \ {r} : Ready(q) => call[q].target # call[r].target
        BY <2>4, Seated, Writers
      <3> QED
        BY <1>1, <2>4, <3>1, Seated
    <2>5. CASE Unban(r) \/ Revoke(r) \/ WriteOverride(r)
      BY <1>1, <2>5 DEF Unban, Revoke, WriteOverride
    <2>6. CASE CommitChannel(r)
      <3>1. call[r].op = "create_channel" /\ call[r].op \in Ops \cup {None}
        BY <2>6, Typed, Table DEF CommitChannel, Formed
      <3> QED
        BY <3>1, NoneAssumption DEF Handlers
    <2>7. CASE UNCHANGED tables
      BY <1>1, <2>7 DEF tables
    <2> QED
      BY <2>3, <2>4, <2>5, <2>6, <2>7, Publishers DEF Publish
  <1> QED
    BY <1>4, <1>5

\* Where the channel exists already, only members are seated in it.
THEOREM SeatsBelongToMembers ==
    ASSUME "create_channel" \notin Ops
    PROVE  Spec => []OnlyMembersSeated
  <1>1. Init => SeatsKept
    BY DEF Init, SeatsKept, OnlyMembersSeated
  <1>2. IInv /\ SeatsKept /\ [Next]_vars => SeatsKept'
    <2> SUFFICES ASSUME IInv, SeatsKept, [Next]_vars
                 PROVE  SeatsKept'
      OBVIOUS
    <2>1. CASE Expire
      BY <2>1 DEF Expire, SeatsKept, OnlyMembersSeated, IsMember, Writes
    <2>2. CASE UNCHANGED vars
      BY <2>2 DEF SeatsKept, OnlyMembersSeated, IsMember, Writes, vars, governance, tables
    <2> QED
      BY <2>1, <2>2, SeatsStep DEF Next
  <1>3. SeatsKept => OnlyMembersSeated
    BY DEF SeatsKept
  <1> QED
    BY <1>1, <1>2, <1>3, Invariance, HandlersOnly, PTL DEF Spec

-----------------------------------------------------------------------------
(* The self-heal of the routes, when nobody leaves.                        *)

\* Who has been healed and is still a member is still seated.
LEMMA HandlersHeal ==
    ASSUME IInv, MembersHealed, "leave" \notin Ops, NEW r \in Reqs, Handle(r)
    PROVE  MembersHealed'
  <1>1. post' = post /\ (Publish(r) \/ UNCHANGED tables)
    BY Publishers
  <1> SUFFICES ASSUME NEW p \in Posts, post[p].at \in {"gate", "lock"}, role'[post[p].user] # None
               PROVE  post[p].user \in seats'
    BY <1>1 DEF MembersHealed, IsMember
  <1> DEFINE u == post[p].user
  <1>2. channel /\ u \in Users
    BY DEF IInv, Routed, Going
  <1>3. role[u] # None => u \in seats
    BY DEF MembersHealed, IsMember
  <1> HIDE DEF u
  <1>4. CASE Commit(r)
    <2>1. CASE u # call[r].target
      BY <1>2, <1>3, <1>4, <2>1, Committed DEF u
    <2>2. CASE u = call[r].target
      <3>1. /\ at[r] = "commit" /\ call[r].op \in Ops \cup {None}
            /\ call[r].op \in Removals \cup {"set_role"}
        BY <1>4, Typed, Table DEF Commit, Formed
      <3>2. call[r].op \in Managed /\ call[r].op \notin Joins
        BY <3>1, NoneAssumption DEF Managed, Removals, Joins, Handlers
      <3>3. Writes(r, "row") /\ role[u] # None
        BY <2>2, <3>1, <3>2, Typed DEF RowWritten, IsMember
      <3>4. call[r].op \notin Removals
        BY <1>4, <2>2, <3>3, Committed DEF u
      <3>5. ~Writes(r, "seat")
        <4>1. call[r].op = "set_role"
          BY <3>1, <3>4
        <4> QED
          BY <4>1, Typed DEF Formed, Removals, Writes
      <3> QED
        BY <1>3, <1>4, <3>3, <3>5 DEF Commit, u
    <2> QED
      BY <2>1, <2>2
  <1>5. CASE SeatNewMember(r)
    BY <1>2, <1>3, <1>5, Seated DEF u
  <1>6. CASE Unban(r) \/ Revoke(r) \/ WriteOverride(r)
    BY <1>3, <1>6 DEF Unban, Revoke, WriteOverride, u
  <1>7. CASE CommitChannel(r) /\ ~channel
    BY <1>2, <1>7
  <1>8. CASE UNCHANGED tables
    BY <1>3, <1>8 DEF tables, u
  <1> QED
    BY <1>1, <1>4, <1>5, <1>6, <1>7, <1>8 DEF Publish

\* The heal seats its caller; the other steps of a route change no seat.
LEMMA RoutesHeal ==
    ASSUME IInv, MembersHealed, NEW p \in Posts, Route(p)
    PROVE  MembersHealed'
  <1>1. post \in [Posts -> Post] /\ role' = role /\ seats \subseteq seats'
    BY DEF IInv, TypeOK, Route, Enter, Heal, SendGate, LockSeat, EndRequest, governance, tables
  <1>2. ASSUME NEW x \in Posts, post'[x].at \in {"gate", "lock"}
        PROVE  \/ post[x].at \in {"gate", "lock"} /\ post'[x].user = post[x].user
               \/ post'[x].user \in seats'
    <2>1. CASE x # p
      BY <1>1, <1>2, <2>1 DEF Route, Enter, Heal, SendGate, LockSeat, EndRequest, To, EndPost
    <2>2. CASE x = p
      <3>1. CASE Enter(p)
        BY <1>1, <1>2, <2>2, <3>1 DEF Enter
      <3>2. ASSUME NEW step, To(p, step)
            PROVE  post'[p].user = post[p].user /\ post'[p].at = step
        BY <1>1, <3>2 DEF To, Post
      <3>3. CASE EndPost(p)
        BY <1>1, <1>2, <2>2, <3>3 DEF EndPost, Resting
      <3>4. CASE Heal(p)
        BY <2>2, <3>2, <3>3, <3>4 DEF Heal
      <3>5. CASE SendGate(p)
        BY <2>2, <3>2, <3>3, <3>5 DEF SendGate
      <3>6. CASE LockSeat(p)
        BY <2>2, <3>2, <3>3, <3>6 DEF LockSeat
      <3>7. CASE EndRequest(p)
        BY <3>3, <3>7 DEF EndRequest
      <3> QED
        BY <3>1, <3>4, <3>5, <3>6, <3>7 DEF Route
    <2> QED
      BY <2>1, <2>2
  <1> QED
    BY <1>1, <1>2 DEF MembersHealed, IsMember

\* Where nobody leaves, a member that has passed the heal keeps its seat.
THEOREM Healed ==
    ASSUME "leave" \notin Ops
    PROVE  AccessSpec => []MembersHealed
  <1>1. Init => MembersHealed
    BY DEF Init, MembersHealed, Resting
  <1>2. IInv /\ MembersHealed /\ [AccessNext]_vars => MembersHealed'
    <2> SUFFICES ASSUME IInv, MembersHealed, [AccessNext]_vars
                 PROVE  MembersHealed'
      OBVIOUS
    <2>1. CASE Expire
      BY <2>1 DEF Expire, MembersHealed, IsMember
    <2>2. CASE UNCHANGED vars
      BY <2>2 DEF MembersHealed, IsMember, vars, governance, tables
    <2> QED
      BY <2>1, <2>2, HandlersHeal, RoutesHeal DEF AccessNext, Next
  <1> QED
    BY <1>1, <1>2, Invariance, PTL DEF AccessSpec
=============================================================================
