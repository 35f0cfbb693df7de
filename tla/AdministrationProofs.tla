------------------------ MODULE AdministrationProofs ------------------------
(***************************************************************************)
(* Proofs about Administration, and so about the requests of Accounts and  *)
(* Conversations in it, for all users, sessions, requests, rooms, roles,   *)
(* names, traffic and intervals.                                           *)
(***************************************************************************)
EXTENDS Administration, SumProofs, TLAPS

Fields == {"kind", "step", "session", "user", "target", "role", "at", "seen", "held"}

\* Requests that rely on what they have looked at or locked.
Guarded == Reads \cup {"revoke", "logout", "dm", "typing"}

\* The tables that those grounds are about.
grounds == <<sessions, revoked_by, members, bans, conversations, slots, signals, now>>

\* What EXCEPT needs to know of the variables.
Shape ==
    /\ DOMAIN req = Requests /\ DOMAIN ask = Requests
    /\ \A r \in Requests : DOMAIN req[r] = Fields
    /\ DOMAIN members = Users
    /\ sessions \in [SessionIds -> Session]
    /\ DOMAIN revoked_by = SessionIds
    /\ DOMAIN conversations = ConversationIds
    /\ \A c \in ConversationIds :
          /\ DOMAIN conversations[c] = {"kind", "members"}
          /\ conversations[c].kind = "none" => conversations[c].members = {}
    /\ \A s \in SessionIds : ~sessions[s].revoked => revoked_by[s] = None

\* No two requests hold locks that conflict.
Exclusive ==
    \A r, q \in Requests : r # q =>
        \A l \in req[r].held, k \in req[q].held : ~Conflict(l, k)

\* A guarded request is of the owner of its session, and never at a step that
\* it shares with the others.
CallerSure(r) ==
    req[r].kind \in Guarded =>
        /\ req[r].step \notin {"require", "delete"}
        /\ req[r].session \in SessionIds
        /\ req[r].user \in Users
        /\ sessions[req[r].session].owner = req[r].user

\* A request about to revoke has locked both rows and found its own session live.
RevokerSure(r) ==
    req[r].kind = "revoke" =>
        /\ req[r].target \in SessionIds
        /\ req[r].step = "revoke" =>
              /\ Update(SessionRow(req[r].session)) \in req[r].held
              /\ Update(SessionRow(req[r].target)) \in req[r].held
              /\ ~sessions[req[r].session].revoked

\* A reader holds the rows of the authority that it has looked at.
ReaderSure(r) ==
    /\ req[r].kind \in SessionReads /\ req[r].step \in {"member", "check", "read"} =>
          /\ Share(SessionRow(req[r].session)) \in req[r].held
          /\ req[r].kind = "stats" \/ req[r].step = "read" => ~sessions[req[r].session].revoked
    /\ req[r].kind \in DirectoryReads /\ req[r].step \in {"check", "read"} /\ req[r].role # None =>
          /\ Share(MemberRow(req[r].user)) \in req[r].held
          /\ members[req[r].user] = req[r].role
    /\ req[r].kind \in DirectoryReads /\ req[r].step = "read" =>
          req[r].role # None /\ req[r].user \notin bans

\* A request that looks for a dm has locked the pair; about to create, there is none.
PairSure(r) ==
    req[r].kind = "dm" =>
        /\ req[r].step \in {"find", "create"} =>
              Update(PairLock(req[r].user, req[r].target)) \in req[r].held
        /\ req[r].step = "create" => DmOf(req[r].user, req[r].target) = {}

\* A typist that has passed its check is seated until it has published.
TypistSure(r) ==
    req[r].kind = "typing" =>
        /\ req[r].target \in ConversationIds
        /\ req[r].step \in {"recipients", "publish"} =>
              /\ Share(SeatRow(req[r].target, req[r].user)) \in req[r].held
              /\ req[r].user \in conversations[req[r].target].members

\* A deletion about to commit has locked every seat.
DeleterSure(r) ==
    req[r].kind = "delete_channel" /\ req[r].step = "delete" =>
        DoomedRows(ask[r].on) \subseteq req[r].held

Sure(r) ==
    /\ CallerSure(r) /\ RevokerSure(r) /\ ReaderSure(r)
    /\ PairSure(r) /\ TypistSure(r) /\ DeleterSure(r)

Apart(s, t) == s - t >= MinInterval \/ t - s >= MinInterval

\* An admission that still throttles keeps its slot.
Throttled(u, c, t) ==
    /\ t \in Int /\ t <= now
    /\ now - t < MinInterval => [user |-> u, room |-> c, at |-> t] \in slots

Typing(r) == req[r].kind = "typing"

\* Admissions, published or not, are apart.
Spacing ==
    /\ now \in Int
    /\ \A x \in signals : Throttled(x.user, x.room, x.at)
    /\ \A r \in Requests : Typing(r) => Throttled(req[r].user, req[r].target, req[r].at)
    /\ \A r, q \in Requests :
          Typing(r) /\ Typing(q) /\ r # q
              /\ req[r].user = req[q].user /\ req[r].target = req[q].target
          => Apart(req[r].at, req[q].at)
    /\ \A r \in Requests, x \in signals :
          Typing(r) /\ req[r].user = x.user /\ req[r].target = x.room
          => Apart(req[r].at, x.at)
    /\ SignalsSpaced

\* The inductive invariant.
AdminInv ==
    /\ Shape
    /\ Exclusive
    /\ \A r \in Requests : Sure(r)
    /\ Spacing
    /\ NoMutualRevocation
    /\ OneDm

-----------------------------------------------------------------------------
(* Locks.                                                                  *)

\* What any step of request r does to the requests and their locks: it keeps the
\* locks it has, or takes free ones.
Moves(r) ==
    /\ DOMAIN req' = Requests /\ DOMAIN ask' = Requests
    /\ DOMAIN req'[r] = Fields
    /\ \A q \in Requests \ {r} : req'[q] = req[q] /\ ask'[q] = ask[q]
    /\ \A l \in req'[r].held : l \in req[r].held \/ Free(r, l)

\* No step makes two requests hold conflicting locks.
LEMMA ExclusionKept ==
    ASSUME Exclusive, NEW r \in Requests, Moves(r)
    PROVE  Exclusive'
  <1>1. \A q \in Requests \ {r} : \A l \in req'[r].held, k \in req[q].held :
            ~Conflict(l, k) /\ ~Conflict(k, l)
    BY DEF Exclusive, Moves, Free, Holders, Conflict
  <1>2. \A q \in Requests \ {r} : req'[q] = req[q]
    BY DEF Moves
  <1> QED
    BY <1>1, <1>2 DEF Exclusive, Conflict

\* A lock that another request holds is not free for update.
LEMMA HeldBlocks ==
    ASSUME NEW r \in Requests, NEW q \in Requests, q # r, NEW row,
           Share(row) \in req[q].held \/ Update(row) \in req[q].held,
           Free(r, Update(row))
    PROVE  FALSE
  BY DEF Free, Holders, Conflict, Share, Update

\* Nor is a row locked for update by one and in any mode by another.
LEMMA HeldOnce ==
    ASSUME Exclusive, NEW r \in Requests, NEW q \in Requests, q # r, NEW row,
           Share(row) \in req[q].held \/ Update(row) \in req[q].held,
           Update(row) \in req[r].held
    PROVE  FALSE
  BY DEF Exclusive, Conflict, Share, Update

-----------------------------------------------------------------------------
(* Steps that leave the grounds alone.                                     *)

\* A request of no guarded kind, or at an end, is sure of whatever it needs.
Plain(r) ==
    /\ Moves(r)
    /\ req'[r].kind \notin Guarded
    /\ DeleterSure(r)'
    /\ UNCHANGED grounds

\* The typing request of r is the one it was, or is over.
SameTypist(r) ==
    Typing(r)' => /\ Typing(r)
                  /\ req'[r].user = req[r].user
                  /\ req'[r].target = req[r].target
                  /\ req'[r].at = req[r].at

\* A step that publishes nothing and leaves the typists their slots keeps the spacing.
LEMMA SpacingKept ==
    ASSUME Spacing, NEW r \in Requests, Moves(r), SameTypist(r),
           UNCHANGED <<slots, signals, now>>
    PROVE  Spacing'
  <1>1. \A q \in Requests : SameTypist(q)
    BY DEF Moves, SameTypist, Typing
  <1> QED
    BY <1>1 DEF Spacing, SameTypist, Throttled, Apart, SignalsSpaced

\* What others are sure of depends on the grounds and their own request.
LEMMA OthersSure ==
    ASSUME NEW r \in Requests, NEW q \in Requests \ {r}, Sure(q), Moves(r), UNCHANGED grounds
    PROVE  Sure(q)'
  BY DEF Sure, CallerSure, RevokerSure, ReaderSure, PairSure, TypistSure, DeleterSure, DmOf,
         Moves, grounds

\* A step of a request that leaves what the others rely on.
LEMMA QuietStep ==
    ASSUME AdminInv, NEW r \in Requests, Moves(r), Sure(r)', SameTypist(r), UNCHANGED grounds
    PROVE  AdminInv'
  <1>1. Shape'
    BY DEF AdminInv, Shape, Moves, grounds
  <1>2. Exclusive'
    BY ExclusionKept DEF AdminInv
  <1>3. \A q \in Requests : Sure(q)'
    BY OthersSure DEF AdminInv
  <1>4. Spacing'
    BY SpacingKept DEF AdminInv, grounds
  <1>5. NoMutualRevocation' /\ OneDm'
    BY DEF AdminInv, NoMutualRevocation, OneDm, grounds
  <1> QED
    BY <1>1, <1>2, <1>3, <1>4, <1>5 DEF AdminInv

\* A step of a request that is sure of itself and touches no table.
LEMMA PlainKeeps ==
    ASSUME AdminInv, NEW r \in Requests, Plain(r)
    PROVE  AdminInv'
  <1>1. Sure(r)'
    BY DEF Plain, Sure, CallerSure, RevokerSure, ReaderSure, PairSure, TypistSure, Guarded, Reads
  <1>2. SameTypist(r)
    BY DEF Plain, SameTypist, Typing, Guarded
  <1> QED
    BY <1>1, <1>2, QuietStep DEF Plain

\* The arguments of the other requests are theirs.
AskKept(r) == DOMAIN ask' = Requests /\ \A q \in Requests \ {r} : ask'[q] = ask[q]

\* Request r goes on with the same call.
SameCall(r) ==
    /\ req'[r].kind = req[r].kind
    /\ req'[r].session = req[r].session
    /\ req'[r].user = req[r].user
    /\ req'[r].target = req[r].target
    /\ req'[r].at = req[r].at

\* A lock is taken.
LEMMA TakeEffect ==
    ASSUME Shape, NEW r \in Requests, NEW lock, NEW step, Take(r, lock, step), AskKept(r)
    PROVE  /\ Moves(r) /\ SameCall(r)
           /\ req'[r].step = step
           /\ req'[r].held = req[r].held \cup {lock}
           /\ req'[r].role = req[r].role /\ req'[r].seen = req[r].seen
  BY DEF Shape, Take, AskKept, Moves, SameCall, Fields

\* A call goes on to its next statement.
LEMMA ToEffect ==
    ASSUME Shape, NEW r \in Requests, NEW step, To(r, step), AskKept(r)
    PROVE  /\ Moves(r) /\ SameCall(r)
           /\ req'[r].step = step
           /\ req'[r].held = req[r].held
           /\ req'[r].role = req[r].role /\ req'[r].seen = req[r].seen
  BY DEF Shape, To, AskKept, Moves, SameCall, Fields

\* A call keeps what it has read.
LEMMA SeenEffect ==
    ASSUME Shape, NEW r \in Requests, NEW step, NEW seen, AskKept(r),
           \/ req' = [req EXCEPT ![r].step = step, ![r].seen = seen]
           \/ req' = [req EXCEPT ![r].seen = seen, ![r].step = step]
    PROVE  /\ Moves(r) /\ SameCall(r)
           /\ req'[r].step = step /\ req'[r].seen = seen
           /\ req'[r].held = req[r].held
  BY DEF Shape, AskKept, Moves, SameCall, Fields

\* A call is over.
LEMMA EndEffect ==
    ASSUME Shape, NEW r \in Requests, End(r), AskKept(r)
    PROVE  /\ Moves(r)
           /\ req'[r].kind = "none" /\ req'[r].step = "done" /\ req'[r].held = {}
           /\ DeleterSure(r)'
  <1>1. req' = [req EXCEPT ![r] = Done] /\ DOMAIN Done = Fields
    BY DEF End, Done, Blank, Fields
  <1>2. Done.kind = "none" /\ Done.step = "done" /\ Done.held = {}
    BY DEF Done, Blank
  <1>3. /\ DOMAIN req' = Requests /\ req'[r] = Done
        /\ \A q \in Requests \ {r} : req'[q] = req[q]
    BY <1>1 DEF Shape
  <1> QED
    BY <1>1, <1>2, <1>3 DEF AskKept, Moves, DeleterSure

\* A request that ends with nothing done is sure of everything.
LEMMA EndKeeps ==
    ASSUME AdminInv, NEW r \in Requests, End(r), AskKept(r), UNCHANGED grounds
    PROVE  AdminInv'
  <1>1. /\ Moves(r) /\ req'[r].kind = "none" /\ DeleterSure(r)'
    BY EndEffect DEF AdminInv
  <1> QED
    BY <1>1, PlainKeeps DEF Plain, Guarded, Reads, SessionReads, DirectoryReads

\* The arguments of every call stay.
LEMMA AskUnchanged ==
    ASSUME Shape, UNCHANGED ask, NEW r \in Requests
    PROVE  AskKept(r)
  BY DEF Shape, AskKept

-----------------------------------------------------------------------------
(* The requests of Accounts.                                               *)

\* A call comes in.
LEMMA BeginMoves ==
    ASSUME Shape, NEW r \in Requests, NEW kind, NEW step, NEW s \in SessionIds, NEW target,
           Begin(r, kind, step, s, target), AskKept(r)
    PROVE  /\ Moves(r)
           /\ req'[r].kind = kind /\ req'[r].step = step
           /\ req'[r].session = s /\ req'[r].target = target
           /\ req'[r].user = sessions[s].owner /\ req'[r].user \in Users
           /\ UNCHANGED <<sessions, revoked_by, members, bans>>
  BY DEF Shape, Begin, Blank, Live, Session, Moves, AskKept, Fields, accountVars

\* Steps that end a call of Accounts, and leave nothing but accounts and devices.
LEMMA AccountEnds ==
    ASSUME AdminInv, NEW r \in Requests, UNCHANGED <<roomVars, adminVars>>,
           \/ \E h \in Handles, right \in BOOLEAN : LoginRefused(r, h, right)
           \/ \E identity, agreement \in Keys : RegisterDevice(r, identity, agreement)
           \/ EnsureWallet(r) \/ Read(r) \/ Lose(r)
    PROVE  AdminInv'
  <1>1. End(r)
    BY DEF LoginRefused, RegisterDevice, EnsureWallet, Read, Lose
  <1>2. UNCHANGED <<sessions, revoked_by, members, bans>>
    BY DEF LoginRefused, RegisterDevice, EnsureWallet, Read, Lose, accountVars
  <1>3. AskKept(r)
    BY AskUnchanged DEF AdminInv, adminVars
  <1> QED
    BY <1>1, <1>2, <1>3, EndKeeps DEF grounds, roomVars

\* A new account.
LEMMA RegisterKeeps ==
    ASSUME AdminInv, NEW r \in Requests, UNCHANGED <<roomVars, adminVars>>,
           NEW u \in Users, NEW h \in Handles, Register(r, u, h)
    PROVE  AdminInv'
  <1>1. UNCHANGED grounds
    BY DEF Register, grounds, roomVars
  <1>2. AskKept(r)
    BY AskUnchanged DEF AdminInv, adminVars
  <1>3. CASE End(r)
    BY <1>1, <1>2, <1>3, EndKeeps
  <1>4. CASE ~End(r)
    <2>1. req' = [req EXCEPT ![r] = [Blank EXCEPT !.kind = "register", !.step = "wallet",
                                                  !.user = u]]
      BY <1>4 DEF Register
    <2>2. /\ DOMAIN req' = Requests /\ DOMAIN req'[r] = Fields
          /\ \A q \in Requests \ {r} : req'[q] = req[q]
          /\ req'[r].held = {} /\ req'[r].kind = "register"
      BY <2>1 DEF AdminInv, Shape, Blank, Fields
    <2> QED
      BY <1>1, <1>2, <2>2, PlainKeeps DEF Plain, Moves, AskKept, DeleterSure, Guarded, Reads,
                                          SessionReads, DirectoryReads
  <1> QED
    BY <1>3, <1>4

\* The calls of Accounts come in.
LEMMA BeginAccountKeeps ==
    ASSUME AdminInv, NEW r \in Requests, UNCHANGED <<roomVars, adminVars>>, BeginAny(r)
    PROVE  AdminInv'
  <1>1. PICK s \in SessionIds :
            \/ \E t \in SessionIds : Begin(r, "revoke", "lock", s, t)
            \/ \E kind \in SessionReads : Begin(r, kind, "session", s, None)
            \/ Begin(r, "roster", "member", s, None)
            \/ Begin(r, "logout", "logout", s, None)
            \/ Begin(r, "device", "device", s, None)
    BY DEF BeginAny
  <1>2. AskKept(r)
    BY AskUnchanged DEF AdminInv, adminVars
  <1>3. /\ Moves(r)
        /\ UNCHANGED <<sessions, revoked_by, members, bans>>
        /\ req'[r].user = sessions[s].owner /\ req'[r].user \in Users
        /\ req'[r].session = s
        /\ \/ req'[r].kind = "revoke" /\ req'[r].step = "lock" /\ req'[r].target \in SessionIds
           \/ req'[r].kind \in SessionReads /\ req'[r].step = "session"
           \/ req'[r].kind = "roster" /\ req'[r].step = "member"
           \/ req'[r].kind \in {"logout", "device"} /\ req'[r].step \in {"logout", "device"}
    BY <1>1, <1>2, BeginMoves DEF AdminInv
  <1>4. Sure(r)'
    BY <1>3 DEF Sure, CallerSure, RevokerSure, ReaderSure, PairSure, TypistSure, DeleterSure,
                Guarded, Reads, SessionReads, DirectoryReads
  <1>5. SameTypist(r)
    BY <1>3 DEF SameTypist, Typing, SessionReads
  <1> QED
    BY <1>3, <1>4, <1>5, QuietStep DEF grounds, roomVars

\* A revocation locks its rows, and then asks for its caller.
LEMMA RevokerKeeps ==
    ASSUME AdminInv, NEW r \in Requests, UNCHANGED <<roomVars, adminVars>>,
           LockOwned(r) \/ CheckCaller(r)
    PROVE  AdminInv'
  <1>1. Sure(r) /\ req[r].kind = "revoke" /\ AskKept(r)
    BY AskUnchanged DEF AdminInv, LockOwned, CheckCaller, Serves, adminVars
  <1>2. UNCHANGED grounds
    BY DEF LockOwned, CheckCaller, accountVars, grounds, roomVars
  <1>3. CASE End(r)
    BY <1>1, <1>2, <1>3, EndKeeps
  <1>4. CASE ~End(r)
    <2>1. /\ Moves(r) /\ SameCall(r) /\ req[r].held \subseteq req'[r].held
          /\ \/ req'[r].step = "lock"
             \/ /\ req'[r].step = "revoke"
                /\ Unlocked(r) = {} /\ Live(req[r].session)
                /\ req[r].target \in Owned(r)
      BY <1>1, <1>4, TakeEffect, ToEffect DEF AdminInv, LockOwned, CheckCaller
    <2>2. req'[r].step = "revoke" =>
             /\ Update(SessionRow(req[r].session)) \in req[r].held
             /\ Update(SessionRow(req[r].target)) \in req[r].held
             /\ ~sessions[req[r].session].revoked
      BY <1>1, <2>1 DEF Unlocked, Owned, Live, Sure, CallerSure, Guarded
    <2>3. Sure(r)'
      BY <1>1, <1>2, <2>1, <2>2 DEF Sure, SameCall, CallerSure, RevokerSure, ReaderSure, PairSure,
             TypistSure, DeleterSure, Guarded, Reads, SessionReads, DirectoryReads, grounds
    <2> QED
      BY <1>2, <2>1, <2>3, QuietStep DEF SameCall, SameTypist, Typing
  <1> QED
    BY <1>3, <1>4

\* The row of a member is locked, if it is there.
LEMMA LockMemberEffect ==
    ASSUME Shape, NEW r \in Requests, UNCHANGED ask, LockMember(r)
    PROVE  /\ Moves(r) /\ SameCall(r)
           /\ req'[r].step = "check" /\ req'[r].role = members[req[r].user]
           /\ req'[r].held = IF members[req[r].user] = None THEN req[r].held
                             ELSE req[r].held \cup {Share(MemberRow(req[r].user))}
  BY DEF Shape, LockMember, Moves, SameCall, Fields

\* The reads lock, check and read.
LEMMA ReaderKeeps ==
    ASSUME AdminInv, NEW r \in Requests, UNCHANGED <<roomVars, adminVars>>,
           LockSession(r) \/ LockMember(r) \/ CheckReader(r)
    PROVE  AdminInv'
  <1>1. Sure(r) /\ req[r].kind \in Reads /\ AskKept(r)
    BY AskUnchanged DEF AdminInv, LockSession, LockMember, CheckReader, Reads, adminVars
  <1>2. UNCHANGED grounds
    BY DEF LockSession, LockMember, CheckReader, accountVars, grounds, roomVars
  <1>3. CASE End(r)
    BY <1>1, <1>2, <1>3, EndKeeps
  <1>4. CASE ~End(r)
    <2>1. /\ Moves(r) /\ SameCall(r)
          /\ req'[r].step \in {"member", "check", "read"}
          /\ ReaderSure(r)'
      <3>1. CASE LockSession(r)
        <4>1. /\ Moves(r) /\ SameCall(r)
              /\ req[r].kind \in SessionReads
              /\ req'[r].step = IF req[r].kind = "sessions" THEN "check" ELSE "member"
              /\ req'[r].held = req[r].held \cup {Share(SessionRow(req[r].session))}
              /\ req[r].kind = "stats" => ~sessions[req[r].session].revoked
          BY <1>1, <1>4, <3>1, TakeEffect DEF AdminInv, LockSession, Serves
        <4> QED
          BY <1>2, <4>1 DEF ReaderSure, SameCall, SessionReads, DirectoryReads, grounds
      <3>2. CASE LockMember(r)
        <4>1. /\ Moves(r) /\ SameCall(r)
              /\ req[r].step = "member" /\ req[r].kind \in DirectoryReads
              /\ req'[r].step = "check" /\ req'[r].role = members[req[r].user]
              /\ req'[r].held = IF members[req[r].user] = None THEN req[r].held
                                ELSE req[r].held \cup {Share(MemberRow(req[r].user))}
          BY <3>2, LockMemberEffect DEF AdminInv, LockMember, adminVars
        <4> QED
          BY <1>1, <1>2, <4>1 DEF Sure, ReaderSure, SameCall, SessionReads, DirectoryReads, grounds
      <3>3. CASE CheckReader(r)
        <4>1. /\ Moves(r) /\ SameCall(r)
              /\ req[r].step = "check" /\ req'[r].step = "read"
              /\ req'[r].held = req[r].held /\ req'[r].role = req[r].role
              /\ Admitted(r)
          BY <1>1, <1>4, <3>3, ToEffect DEF AdminInv, CheckReader
        <4> QED
          BY <1>1, <1>2, <4>1 DEF Sure, ReaderSure, SameCall, Admitted, Live, Serves,
                                  SessionReads, DirectoryReads, grounds
      <3> QED
        BY <3>1, <3>2, <3>3
    <2>2. Sure(r)'
      BY <1>1, <1>2, <2>1 DEF Sure, SameCall, CallerSure, RevokerSure, PairSure,
             TypistSure, DeleterSure, Guarded, Reads, SessionReads, DirectoryReads, grounds
    <2> QED
      BY <1>1, <1>2, <2>1, <2>2, QuietStep DEF SameTypist, SameCall, Typing
  <1> QED
    BY <1>3, <1>4

-----------------------------------------------------------------------------
(* Steps that change sessions.                                             *)

\* Sessions keep their owners, and what a request has locked is not revoked.
SessionsKeptFor(q) ==
    /\ \A s \in SessionIds : sessions[s].owner # None => sessions'[s].owner = sessions[s].owner
    /\ \A s \in SessionIds :
          /\ Share(SessionRow(s)) \in req[q].held \/ Update(SessionRow(s)) \in req[q].held
          /\ ~sessions[s].revoked
          => ~sessions'[s].revoked

\* What a request is sure of outlives a change of sessions that it does not pin.
LEMMA SureOfSessions ==
    ASSUME NEW q \in Requests, Sure(q), req'[q] = req[q], ask'[q] = ask[q],
           UNCHANGED <<members, bans, conversations>>, SessionsKeptFor(q)
    PROVE  Sure(q)'
  <1>1. CallerSure(q)'
    BY NoneAssumption DEF Sure, CallerSure, SessionsKeptFor
  <1>2. RevokerSure(q)'
    BY DEF Sure, CallerSure, RevokerSure, SessionsKeptFor, Guarded
  <1>3. ReaderSure(q)'
    BY DEF Sure, CallerSure, ReaderSure, SessionsKeptFor, Guarded, Reads
  <1>4. PairSure(q)' /\ TypistSure(q)' /\ DeleterSure(q)'
    BY DEF Sure, PairSure, TypistSure, DeleterSure, DmOf
  <1> QED
    BY <1>1, <1>2, <1>3, <1>4 DEF Sure

\* A call that ends with a change of sessions.
LEMMA SessionStep ==
    ASSUME AdminInv, NEW r \in Requests, End(r), UNCHANGED <<roomVars, adminVars, members, bans>>,
           \A q \in Requests \ {r} : SessionsKeptFor(q),
           sessions' \in [SessionIds -> Session], DOMAIN revoked_by' = SessionIds,
           \A s \in SessionIds : ~sessions'[s].revoked => revoked_by'[s] = None,
           NoMutualRevocation'
    PROVE  AdminInv'
  <1>1. /\ Moves(r) /\ req'[r].kind = "none" /\ DeleterSure(r)' /\ AskKept(r)
    BY EndEffect, AskUnchanged DEF AdminInv, adminVars
  <1>2. Shape'
    BY <1>1 DEF AdminInv, Shape, Moves, roomVars
  <1>3. Exclusive'
    BY <1>1, ExclusionKept DEF AdminInv
  <1>4. Sure(r)'
    BY <1>1 DEF Sure, CallerSure, RevokerSure, ReaderSure, PairSure, TypistSure, Guarded, Reads,
                SessionReads, DirectoryReads
  <1>5. \A q \in Requests \ {r} : Sure(q)'
    BY <1>1, SureOfSessions DEF AdminInv, Moves, roomVars
  <1>6. Spacing'
    BY <1>1, SpacingKept DEF AdminInv, SameTypist, Typing, roomVars
  <1>7. OneDm'
    BY DEF AdminInv, OneDm, roomVars
  <1> QED
    BY <1>2, <1>3, <1>4, <1>5, <1>6, <1>7 DEF AdminInv

\* A new session.
LEMMA LoginKeeps ==
    ASSUME AdminInv, NEW r \in Requests, UNCHANGED <<roomVars, adminVars>>,
           NEW h \in Handles, NEW right \in BOOLEAN, NEW s \in SessionIds, Login(r, h, right, s)
    PROVE  AdminInv'
  <1>1. PICK u \in Users : sessions[s].owner = None /\ sessions' = [sessions EXCEPT ![s].owner = u]
    BY DEF Login
  <1>2. End(r) /\ UNCHANGED <<revoked_by, members, bans>>
    BY DEF Login
  <1>3. sessions \in [SessionIds -> Session]
    BY DEF AdminInv, Shape
  <1>4. sessions' \in [SessionIds -> Session]
    BY <1>1, <1>3 DEF Session
  <1>5. \A t \in SessionIds : /\ sessions'[t].revoked = sessions[t].revoked
                              /\ sessions[t].owner # None => sessions'[t].owner = sessions[t].owner
    BY <1>1, <1>3 DEF Session
  <1>6. NoMutualRevocation'
    BY <1>2 DEF AdminInv, NoMutualRevocation
  <1> QED
    BY <1>2, <1>4, <1>5, <1>6, SessionStep DEF AdminInv, Shape, SessionsKeptFor

\* The UPDATE of one row, by the session that revokes it.
LEMMA RevokedEffect ==
    ASSUME AdminInv, NEW s \in SessionIds, NEW by \in SessionIds, Revoked(s, by),
           s = by \/ ~sessions[by].revoked
    PROVE  /\ sessions' \in [SessionIds -> Session] /\ DOMAIN revoked_by' = SessionIds
           /\ \A t \in SessionIds : sessions'[t].owner = sessions[t].owner
           /\ \A t \in SessionIds \ {s} : sessions'[t].revoked = sessions[t].revoked
           /\ \A t \in SessionIds : ~sessions'[t].revoked => revoked_by'[t] = None
           /\ NoMutualRevocation'
  <1>1. sessions \in [SessionIds -> Session] /\ DOMAIN revoked_by = SessionIds
    BY DEF AdminInv, Shape
  <1>2. CASE sessions[s].revoked
    BY <1>1, <1>2 DEF Revoked, AdminInv, Shape, NoMutualRevocation
  <1>3. CASE ~sessions[s].revoked
    <2>1. /\ sessions' = [sessions EXCEPT ![s].revoked = TRUE]
          /\ revoked_by' = [revoked_by EXCEPT ![s] = by]
      BY <1>3 DEF Revoked
    <2>2. /\ sessions' \in [SessionIds -> Session]
          /\ sessions'[s].revoked
          /\ \A t \in SessionIds : sessions'[t].owner = sessions[t].owner
          /\ \A t \in SessionIds \ {s} : sessions'[t].revoked = sessions[t].revoked
      BY <1>1, <2>1 DEF Session
    <2>3. revoked_by'[s] = by /\ \A t \in SessionIds \ {s} : revoked_by'[t] = revoked_by[t]
      BY <1>1, <2>1
    <2>4. by # s => revoked_by[by] = None /\ None # s
      BY NoneAssumption DEF AdminInv, Shape, SessionIds
    <2>5. NoMutualRevocation'
      BY <2>3, <2>4 DEF AdminInv, NoMutualRevocation
    <2> QED
      BY <1>1, <2>1, <2>2, <2>3, <2>5 DEF AdminInv, Shape
  <1> QED
    BY <1>2, <1>3

\* A session revokes itself.
LEMMA LogoutKeeps ==
    ASSUME AdminInv, NEW r \in Requests, UNCHANGED <<roomVars, adminVars>>, Logout(r)
    PROVE  AdminInv'
  <1> req[r].session \in SessionIds
    BY DEF AdminInv, Sure, CallerSure, Logout, Serves, Guarded
  <1>1. /\ End(r) /\ UNCHANGED <<members, bans>>
        /\ Revoked(req[r].session, req[r].session)
        /\ Free(r, Update(SessionRow(req[r].session)))
    BY DEF Logout
  <1>2. \A q \in Requests \ {r} : SessionsKeptFor(q)
    BY <1>1, RevokedEffect, HeldBlocks DEF SessionsKeptFor
  <1> QED
    BY <1>1, <1>2, RevokedEffect, SessionStep

\* A session revokes another.
LEMMA RevokeTargetKeeps ==
    ASSUME AdminInv, NEW r \in Requests, UNCHANGED <<roomVars, adminVars>>, RevokeTarget(r)
    PROVE  AdminInv'
  <1>1. /\ End(r) /\ UNCHANGED <<members, bans>>
        /\ Revoked(req[r].target, req[r].session)
    BY DEF RevokeTarget
  <1>2. /\ req[r].session \in SessionIds /\ req[r].target \in SessionIds
        /\ ~sessions[req[r].session].revoked
        /\ Update(SessionRow(req[r].target)) \in req[r].held
    BY DEF AdminInv, Sure, CallerSure, RevokerSure, RevokeTarget, Serves, Guarded
  <1>3. \A q \in Requests \ {r} : SessionsKeptFor(q)
    BY <1>1, <1>2, RevokedEffect, HeldOnce DEF AdminInv, SessionsKeptFor
  <1> QED
    BY <1>1, <1>2, <1>3, RevokedEffect, SessionStep

\* Time revokes nothing.
LEMMA ExpireKeeps ==
    ASSUME AdminInv, UNCHANGED <<roomVars, adminVars>>, NEW s \in SessionIds, Expire(s)
    PROVE  AdminInv'
  <1>1. /\ sessions' = [sessions EXCEPT ![s].expired = TRUE]
        /\ UNCHANGED <<revoked_by, members, bans, req, ask>>
    BY DEF Expire, adminVars
  <1>2. /\ sessions' \in [SessionIds -> Session]
        /\ \A t \in SessionIds : /\ sessions'[t].revoked = sessions[t].revoked
                                 /\ sessions'[t].owner = sessions[t].owner
    BY <1>1 DEF AdminInv, Shape, Session
  <1>3. Shape'
    BY <1>1, <1>2 DEF AdminInv, Shape, roomVars
  <1>4. Exclusive' /\ NoMutualRevocation' /\ OneDm' /\ Spacing'
    BY <1>1 DEF AdminInv, Exclusive, NoMutualRevocation, OneDm, Spacing, Typing, Throttled, Apart,
                SignalsSpaced, roomVars
  <1>5. \A q \in Requests : Sure(q)'
    BY <1>1, <1>2, SureOfSessions DEF AdminInv, SessionsKeptFor, roomVars
  <1> QED
    BY <1>3, <1>4, <1>5 DEF AdminInv

-----------------------------------------------------------------------------
(* The requests of Conversations.                                          *)

\* What another request relies on in the conversations.
RoomsKeptFor(q) ==
    /\ Typing(q) /\ req[q].step \in {"recipients", "publish"} =>
          req[q].user \in conversations'[req[q].target].members
    /\ req[q].kind = "dm" /\ req[q].step = "create" =>
          \A c \in ConversationIds :
              /\ conversations'[c].kind = "dm"
              /\ conversations'[c].members = {req[q].user, req[q].target}
              => req[q].user = req[q].target

RoomShape ==
    /\ DOMAIN conversations = ConversationIds
    /\ \A c \in ConversationIds :
          /\ DOMAIN conversations[c] = {"kind", "members"}
          /\ conversations[c].kind = "none" => conversations[c].members = {}

\* What a request is sure of outlives a change of rooms that it does not pin.
LEMMA SureOfRooms ==
    ASSUME NEW q \in Requests, Sure(q), req'[q] = req[q], ask'[q] = ask[q],
           UNCHANGED <<sessions, members, bans>>, RoomsKeptFor(q)
    PROVE  Sure(q)'
  <1>1. CallerSure(q)' /\ RevokerSure(q)' /\ ReaderSure(q)' /\ DeleterSure(q)'
    BY DEF Sure, CallerSure, RevokerSure, ReaderSure, DeleterSure
  <1>2. PairSure(q)'
    BY DEF Sure, PairSure, RoomsKeptFor, DmOf
  <1>3. TypistSure(q)'
    BY DEF Sure, TypistSure, RoomsKeptFor, Typing
  <1> QED
    BY <1>1, <1>2, <1>3 DEF Sure

\* A step that changes the conversations, the throttle or the signals.
LEMMA RoomStep ==
    ASSUME AdminInv, NEW r \in Requests, Moves(r), Sure(r)',
           \A q \in Requests \ {r} : RoomsKeptFor(q),
           UNCHANGED <<sessions, revoked_by, members, bans>>,
           RoomShape', OneDm', Spacing'
    PROVE  AdminInv'
  <1>1. Shape'
    BY DEF AdminInv, Shape, RoomShape, Moves
  <1>2. Exclusive'
    BY ExclusionKept DEF AdminInv
  <1>3. \A q \in Requests \ {r} : Sure(q)'
    BY SureOfRooms DEF AdminInv, Moves
  <1>4. NoMutualRevocation'
    BY DEF AdminInv, NoMutualRevocation
  <1> QED
    BY <1>1, <1>2, <1>3, <1>4 DEF AdminInv

\* Nothing that the rooms are asked for changes with them unchanged.
LEMMA RoomsUnchanged ==
    ASSUME AdminInv, UNCHANGED conversations
    PROVE  /\ RoomShape' /\ OneDm'
           /\ \A q \in Requests : RoomsKeptFor(q)
  BY DEF AdminInv, Shape, RoomShape, OneDm, RoomsKeptFor, Sure, PairSure, TypistSure, Typing, DmOf

\* A request that ends is sure of everything.
LEMMA EndSure ==
    ASSUME AdminInv, NEW r \in Requests, End(r), AskKept(r)
    PROVE  /\ Moves(r) /\ Sure(r)' /\ ~Typing(r)' /\ SameTypist(r)
  <1>1. /\ Moves(r) /\ req'[r].kind = "none" /\ DeleterSure(r)'
    BY EndEffect DEF AdminInv
  <1> QED
    BY <1>1 DEF Sure, CallerSure, RevokerSure, ReaderSure, PairSure, TypistSure, Guarded, Reads,
                SessionReads, DirectoryReads, Typing, SameTypist

\* An id that was not taken becomes a conversation; nobody was in it.
LEMMA InsertEffect ==
    ASSUME AdminInv, NEW c \in ConversationIds, NEW kind, kind # "none", NEW S,
           Insert(c, kind, S)
    PROVE  /\ RoomShape'
           /\ conversations'[c].kind = kind /\ conversations'[c].members = S
           /\ conversations[c].kind = "none"
           /\ \A d \in ConversationIds \ {c} : conversations'[d] = conversations[d]
           /\ \A q \in Requests :
                 Typing(q) /\ req[q].step \in {"recipients", "publish"} =>
                     req[q].user \in conversations'[req[q].target].members
  <1>1. /\ conversations[c].kind = "none"
        /\ conversations' = [conversations EXCEPT ![c] = [kind |-> kind, members |-> S]]
    BY DEF Insert
  <1>2. /\ DOMAIN conversations' = ConversationIds
        /\ conversations'[c] = [kind |-> kind, members |-> S]
        /\ \A d \in ConversationIds \ {c} : conversations'[d] = conversations[d]
    BY <1>1 DEF AdminInv, Shape
  <1>3. RoomShape'
    BY <1>2 DEF AdminInv, Shape, RoomShape
  <1>4. conversations[c].members = {}
    BY <1>1 DEF AdminInv, Shape
  <1>5. \A q \in Requests :
            Typing(q) /\ req[q].step \in {"recipients", "publish"} =>
                req[q].target \in ConversationIds \ {c}
    BY <1>4 DEF AdminInv, Sure, TypistSure, Typing
  <1> QED
    BY <1>1, <1>2, <1>3, <1>5 DEF AdminInv, Sure, TypistSure, Typing

\* A group or a channel is no dm.
LEMMA InsertOther ==
    ASSUME AdminInv, NEW c \in ConversationIds, NEW kind, kind \notin {"none", "dm"}, NEW S,
           Insert(c, kind, S)
    PROVE  /\ RoomShape' /\ OneDm'
           /\ \A q \in Requests : RoomsKeptFor(q)
  <1>1. \A d \in ConversationIds : conversations'[d].kind = "dm" =>
            conversations'[d] = conversations[d]
    BY InsertEffect
  <1>2. OneDm'
    BY <1>1 DEF AdminInv, OneDm
  <1>3. ASSUME NEW q \in Requests, req[q].kind = "dm", req[q].step = "create",
               NEW d \in ConversationIds, conversations'[d].kind = "dm",
               conversations'[d].members = {req[q].user, req[q].target}
        PROVE  req[q].user = req[q].target
    <2>1. DmOf(req[q].user, req[q].target) = {}
      BY <1>3 DEF AdminInv, Sure, PairSure
    <2> QED
      BY <1>1, <1>3, <2>1 DEF DmOf
  <1>4. /\ RoomShape'
        /\ \A q \in Requests :
              Typing(q) /\ req[q].step \in {"recipients", "publish"} =>
                  req[q].user \in conversations'[req[q].target].members
    BY InsertEffect
  <1> QED
    BY <1>2, <1>3, <1>4 DEF RoomsKeptFor

\* A dm is made under the lock of its pair.
LEMMA CreateDmKeeps ==
    ASSUME AdminInv, NEW r \in Requests, UNCHANGED adminVars, CreateDm(r)
    PROVE  AdminInv'
  <1> DEFINE u == req[r].user
             v == req[r].target
  <1>1. PICK c \in ConversationIds : Insert(c, "dm", {u, v})
    BY DEF CreateDm
  <1>2. End(r) /\ UNCHANGED <<sessions, revoked_by, members, bans, slots, signals, now>>
    BY DEF CreateDm, accountVars
  <1>3. AskKept(r)
    BY AskUnchanged DEF AdminInv, adminVars
  <1>4. DmOf(u, v) = {} /\ Update(PairLock(u, v)) \in req[r].held
    BY DEF AdminInv, Sure, PairSure, CreateDm, Serves
  <1>5. /\ RoomShape'
        /\ conversations'[c].kind = "dm" /\ conversations'[c].members = {u, v}
        /\ \A d \in ConversationIds \ {c} : conversations'[d] = conversations[d]
    BY <1>1, InsertEffect
  <1>6. OneDm'
    <2>1. ASSUME NEW d \in ConversationIds \ {c}, conversations[d].kind = "dm",
                 conversations[d].members = {u, v}, u # v
          PROVE  FALSE
      BY <1>4, <2>1 DEF DmOf
    <2>2. SUFFICES ASSUME NEW d \in ConversationIds, NEW e \in ConversationIds, d # e,
                          conversations'[d].kind = "dm", conversations'[e].kind = "dm",
                          conversations'[d].members = conversations'[e].members,
                          NEW a \in conversations'[d].members,
                          NEW b \in conversations'[d].members, a # b
                   PROVE  FALSE
      BY DEF OneDm
    <2>3. d = c \/ e = c
      BY <1>5, <2>2 DEF AdminInv, OneDm
    <2>4. conversations'[d].members = {u, v} /\ u # v
      BY <1>5, <2>2, <2>3
    <2> QED
      BY <1>5, <2>1, <2>2, <2>3, <2>4
  <1>7. ASSUME NEW q \in Requests \ {r}, req[q].kind = "dm", req[q].step = "create",
               NEW d \in ConversationIds, conversations'[d].kind = "dm",
               conversations'[d].members = {req[q].user, req[q].target}
        PROVE  req[q].user = req[q].target
    <2>1. DmOf(req[q].user, req[q].target) = {}
      BY <1>7 DEF AdminInv, Sure, PairSure
    <2>2. Update(PairLock(req[q].user, req[q].target)) \in req[q].held
      BY <1>7 DEF AdminInv, Sure, PairSure
    <2>3. {req[q].user, req[q].target} # {u, v}
      BY <1>4, <2>2, HeldOnce DEF PairLock, AdminInv
    <2>4. d # c
      BY <1>5, <1>7, <2>3
    <2> QED
      BY <1>5, <1>7, <2>1, <2>4 DEF DmOf
  <1>8. \A q \in Requests \ {r} : RoomsKeptFor(q)
    BY <1>1, <1>7, InsertEffect DEF RoomsKeptFor
  <1>9. Moves(r) /\ Sure(r)' /\ Spacing'
    BY <1>2, <1>3, EndSure, SpacingKept DEF AdminInv
  <1> QED
    BY <1>2, <1>5, <1>6, <1>8, <1>9, RoomStep

\* Beginnings and the reads without locks.
LEMMA PlainRooms ==
    ASSUME AdminInv, NEW r \in Requests, UNCHANGED adminVars,
           \/ ListRows(r) \/ ListMembers(r) \/ ListProfiles(r)
           \/ CheckHistory(r) \/ ReadHistory(r)
           \/ NamedGroup(r)
    PROVE  AdminInv'
  <1>1. UNCHANGED grounds
    BY DEF ListRows, ListMembers, ListProfiles, CheckHistory, ReadHistory, NamedGroup, BeginGroup,
           accountVars, roomVars, grounds
  <1>2. AskKept(r)
    BY AskUnchanged DEF AdminInv, adminVars
  <1>3. CASE End(r)
    BY <1>1, <1>2, <1>3, EndKeeps
  <1>4. CASE To(r, "page") /\ Serves(r, "history")
    <2>1. Moves(r) /\ req'[r].kind = "history" /\ req'[r].step = "page"
      BY <1>2, <1>4, ToEffect DEF AdminInv, SameCall, Serves
    <2> QED
      BY <1>1, <2>1, PlainKeeps DEF Plain, DeleterSure, Guarded, Reads, SessionReads, DirectoryReads
  <1>5. CASE ListRows(r) \/ ListMembers(r)
    <2>1. PICK step, seen : /\ req' = [req EXCEPT ![r].step = step, ![r].seen = seen]
                            /\ req[r].kind = "rooms"
      BY <1>5 DEF ListRows, ListMembers, Serves
    <2>2. Moves(r) /\ req'[r].kind = "rooms"
      BY <1>2, <2>1, SeenEffect DEF AdminInv, SameCall
    <2> QED
      BY <1>1, <2>2, PlainKeeps DEF Plain, DeleterSure, Guarded, Reads, SessionReads, DirectoryReads
  <1>6. CASE NamedGroup(r)
    <2>1. /\ DOMAIN req' = Requests /\ DOMAIN req'[r] = Fields
          /\ \A q \in Requests \ {r} : req'[q] = req[q]
          /\ req'[r].held = {} /\ req'[r].kind = "group"
      <3>1. PICK s, named : req' = [req EXCEPT ![r] = [Blank EXCEPT !.kind = "group",
                                 !.step = "create", !.session = s, !.user = sessions[s].owner,
                                 !.seen = named]]
        BY <1>6 DEF NamedGroup, BeginGroup
      <3> QED
        BY <3>1 DEF AdminInv, Shape, Blank, Fields
    <2>2. Moves(r)
      BY <1>2, <2>1 DEF Moves, AskKept
    <2> QED
      BY <1>1, <2>1, <2>2, PlainKeeps DEF Plain, DeleterSure, Guarded, Reads, SessionReads,
                                          DirectoryReads
  <1> QED
    BY <1>3, <1>4, <1>5, <1>6 DEF ListProfiles, CheckHistory, ReadHistory

\* The calls of Conversations come in.
LEMMA BeginRoomKeeps ==
    ASSUME AdminInv, NEW r \in Requests, UNCHANGED adminVars, BeginRoom(r)
    PROVE  AdminInv'
  <1>1. PICK s \in SessionIds :
            \/ \E peer \in Users : Begin(r, "dm", "pair", s, peer)
            \/ Begin(r, "rooms", "rows", s, None)
            \/ \E c \in Known : Begin(r, "history", "member?", s, c)
    BY DEF BeginRoom, Callers
  <1>2. AskKept(r) /\ UNCHANGED roomVars
    BY AskUnchanged DEF AdminInv, adminVars, BeginRoom
  <1>3. /\ Moves(r)
        /\ UNCHANGED <<sessions, revoked_by, members, bans>>
        /\ req'[r].user = sessions[s].owner /\ req'[r].user \in Users
        /\ req'[r].session = s
        /\ \/ req'[r].kind = "dm" /\ req'[r].step = "pair"
           \/ req'[r].kind \in {"rooms", "history"}
    BY <1>1, <1>2, BeginMoves DEF AdminInv
  <1>4. Sure(r)'
    BY <1>3 DEF Sure, CallerSure, RevokerSure, ReaderSure, PairSure, TypistSure, DeleterSure,
                Guarded, Reads, SessionReads, DirectoryReads
  <1>5. SameTypist(r)
    BY <1>3 DEF SameTypist, Typing
  <1> QED
    BY <1>2, <1>3, <1>4, <1>5, QuietStep DEF grounds, roomVars

\* The pair is locked and looked up.
LEMMA PairKeeps ==
    ASSUME AdminInv, NEW r \in Requests, UNCHANGED adminVars, LockPair(r) \/ FindDm(r)
    PROVE  AdminInv'
  <1>1. Sure(r) /\ req[r].kind = "dm" /\ AskKept(r)
    BY AskUnchanged DEF AdminInv, LockPair, FindDm, Serves, adminVars
  <1>2. UNCHANGED grounds
    BY DEF LockPair, FindDm, accountVars, grounds, roomVars
  <1>3. CASE End(r)
    BY <1>1, <1>2, <1>3, EndKeeps
  <1>4. CASE ~End(r)
    <2>1. /\ Moves(r) /\ SameCall(r)
          /\ req'[r].step \in {"find", "create"}
          /\ Update(PairLock(req[r].user, req[r].target)) \in req'[r].held
          /\ req'[r].step = "create" => DmOf(req[r].user, req[r].target) = {}
      <3>1. CASE LockPair(r)
        BY <1>1, <3>1, TakeEffect DEF AdminInv, LockPair
      <3>2. CASE FindDm(r)
        BY <1>1, <1>4, <3>2, ToEffect DEF AdminInv, FindDm, Sure, PairSure
      <3> QED
        BY <3>1, <3>2
    <2>2. Sure(r)'
      BY <1>1, <1>2, <2>1 DEF Sure, SameCall, CallerSure, RevokerSure, ReaderSure, PairSure, DmOf,
             TypistSure, DeleterSure, Guarded, Reads, SessionReads, DirectoryReads, grounds
    <2> QED
      BY <1>1, <1>2, <2>1, <2>2, QuietStep DEF SameTypist, SameCall, Typing
  <1> QED
    BY <1>3, <1>4

\* A group is made.
LEMMA CreateGroupKeeps ==
    ASSUME AdminInv, NEW r \in Requests, UNCHANGED adminVars, CreateGroup(r)
    PROVE  AdminInv'
  <1>1. End(r) /\ UNCHANGED <<sessions, revoked_by, members, bans, slots, signals, now>>
    BY DEF CreateGroup, accountVars
  <1>2. AskKept(r)
    BY AskUnchanged DEF AdminInv, adminVars
  <1>3. /\ RoomShape' /\ OneDm'
        /\ \A q \in Requests : RoomsKeptFor(q)
    BY RoomsUnchanged, InsertOther DEF CreateGroup
  <1>4. Moves(r) /\ Sure(r)' /\ Spacing'
    BY <1>1, <1>2, EndSure, SpacingKept DEF AdminInv
  <1> QED
    BY <1>1, <1>3, <1>4, RoomStep

-----------------------------------------------------------------------------
(* Typing.                                                                 *)

\* A typist that gives up its slot gives up no other's: admissions are apart.
LEMMA ReleaseKeeps ==
    ASSUME AdminInv, NEW r \in Requests, Typing(r), Release(r), Moves(r), ~Typing(r)',
           UNCHANGED <<signals, now>>
    PROVE  Spacing'
  <1> DEFINE slot == [user |-> req[r].user, room |-> req[r].target, at |-> req[r].at]
  <1>1. slots' = slots \ {slot} /\ MinInterval \in Nat \ {0}
    BY RoomsAssumption DEF Release
  <1>2. \A q \in Requests : Typing(q)' => q # r /\ Typing(q) /\ req'[q] = req[q]
    BY DEF Moves, Typing
  <1>3. ASSUME NEW q \in Requests, Typing(q), q # r
        PROVE  [user |-> req[q].user, room |-> req[q].target, at |-> req[q].at] # slot
    BY <1>1, <1>3 DEF AdminInv, Spacing, Apart, Throttled
  <1>4. ASSUME NEW x \in signals
        PROVE  [user |-> x.user, room |-> x.room, at |-> x.at] # slot
    BY <1>1, <1>4 DEF AdminInv, Spacing, Apart, Throttled
  <1>5. \A q \in Requests : Typing(q)' =>
            Throttled(req[q].user, req[q].target, req[q].at)'
    BY <1>1, <1>2, <1>3 DEF AdminInv, Spacing, Throttled
  <1>6. \A x \in signals : Throttled(x.user, x.room, x.at)'
    BY <1>1, <1>4 DEF AdminInv, Spacing, Throttled
  <1> QED
    BY <1>2, <1>5, <1>6 DEF AdminInv, Spacing, Apart, SignalsSpaced, Typing

\* A typist that is over gives up its slot, and what is sure stays so.
LEMMA TypistGone ==
    ASSUME AdminInv, NEW r \in Requests, Typing(r), Release(r), End(r), AskKept(r),
           UNCHANGED <<sessions, revoked_by, members, bans, signals, now>>,
           RoomShape', OneDm', \A q \in Requests : RoomsKeptFor(q)
    PROVE  AdminInv'
  BY EndSure, ReleaseKeeps, RoomStep

\* The throttle admits when nothing of this account and room throttles.
LEMMA AdmittingKeeps ==
    ASSUME AdminInv, NEW r \in Requests, NEW u, NEW c, Admitting(u, c),
           ~ \E slot \in SlotOf(u, c) : Recent(slot),
           Moves(r), req'[r].user = u, req'[r].target = c, req'[r].at = now,
           UNCHANGED <<signals, now>>
    PROVE  Spacing'
  <1> DEFINE new == [user |-> u, room |-> c, at |-> now]
  <1>1. MinInterval \in Nat \ {0} /\ now \in Int
    BY RoomsAssumption DEF AdminInv, Spacing
  <1>2. ASSUME NEW v, NEW d, NEW t, Throttled(v, d, t)
        PROVE  /\ t \in Int /\ t <= now'
               /\ now' - t < MinInterval => [user |-> v, room |-> d, at |-> t] \in slots'
               /\ v = u /\ d = c => now - t >= MinInterval
    <2> DEFINE old == [user |-> v, room |-> d, at |-> t]
    <2>1. v = u /\ d = c => now - t >= MinInterval
      BY <1>1, <1>2 DEF Throttled, SlotOf, Recent
    <2>2. now - t < MinInterval => old \in slots /\ Recent(old) /\ ~(v = u /\ d = c)
      BY <1>1, <1>2, <2>1 DEF Throttled, Recent
    <2>3. now - t < MinInterval => old \in slots'
      BY <2>2 DEF Admitting, SlotOf
    <2> QED
      BY <1>2, <2>1, <2>3 DEF Throttled
  <1>3. new \in slots'
    BY DEF Admitting
  <1>4. \A q \in Requests \ {r} : req'[q] = req[q]
    BY DEF Moves
  <1>5. \A x \in signals : Throttled(x.user, x.room, x.at)'
    BY <1>2 DEF AdminInv, Spacing, Throttled
  <1>6. \A q \in Requests : Typing(q)' =>
            Throttled(req[q].user, req[q].target, req[q].at)'
    <2>1. ASSUME NEW q \in Requests \ {r}, Typing(q)'
          PROVE  Throttled(req[q].user, req[q].target, req[q].at)'
      BY <1>2, <1>4, <2>1 DEF AdminInv, Spacing, Throttled, Typing
    <2>2. Throttled(req[r].user, req[r].target, req[r].at)'
      BY <1>1, <1>3 DEF Throttled
    <2> QED
      BY <2>1, <2>2
  <1>7. \A x \in signals : x.user = u /\ x.room = c => Apart(now, x.at)
    BY <1>2 DEF AdminInv, Spacing, Apart
  <1>8. \A q \in Requests \ {r} :
            Typing(q) /\ req[q].user = u /\ req[q].target = c =>
                Apart(now, req[q].at) /\ Apart(req[q].at, now)
    BY <1>2 DEF AdminInv, Spacing, Apart
  <1> QED
    BY <1>4, <1>5, <1>6, <1>7, <1>8 DEF AdminInv, Spacing, Apart, SignalsSpaced, Typing

\* A typist is admitted or throttled.
LEMMA AdmitKeeps ==
    ASSUME AdminInv, NEW r \in Requests, UNCHANGED adminVars,
           NEW s \in Callers, NEW c \in Known, Admit(r, s, c)
    PROVE  AdminInv'
  <1> DEFINE u == sessions[s].owner
  <1>1. UNCHANGED <<sessions, revoked_by, members, bans, conversations, signals, now>>
    BY DEF Admit, accountVars
  <1>2. AskKept(r)
    BY AskUnchanged DEF AdminInv, adminVars
  <1>3. CASE \E slot \in SlotOf(u, c) : Recent(slot)
    BY <1>1, <1>2, <1>3, EndKeeps DEF Admit, grounds
  <1>4. CASE ~ \E slot \in SlotOf(u, c) : Recent(slot)
    <2>1. /\ Admitting(u, c)
          /\ req' = [req EXCEPT ![r] = [Blank EXCEPT !.kind = "typing", !.step = "gate",
                                 !.session = s, !.user = u, !.target = c, !.at = now]]
      BY <1>4 DEF Admit
    <2>2. s \in SessionIds /\ u \in Users /\ c \in ConversationIds
      BY DEF AdminInv, Shape, Session, Callers, Live, Known
    <2>3. /\ DOMAIN req' = Requests /\ DOMAIN req'[r] = Fields
          /\ \A q \in Requests \ {r} : req'[q] = req[q]
          /\ req'[r].kind = "typing" /\ req'[r].step = "gate"
          /\ req'[r].session = s /\ req'[r].user = u /\ req'[r].target = c
          /\ req'[r].at = now /\ req'[r].held = {}
      BY <2>1 DEF AdminInv, Shape, Blank, Fields
    <2>4. Moves(r)
      BY <1>2, <2>3 DEF Moves, AskKept
    <2>5. Sure(r)'
      BY <1>1, <2>2, <2>3 DEF Sure, CallerSure, RevokerSure, ReaderSure, PairSure, TypistSure,
                              DeleterSure, Reads, SessionReads, DirectoryReads
    <2>6. Spacing'
      BY <1>1, <1>4, <2>1, <2>3, <2>4, AdmittingKeeps
    <2> QED
      BY <1>1, <2>4, <2>5, <2>6, RoomsUnchanged, RoomStep
  <1> QED
    BY <1>3, <1>4

\* A typist goes on with the same call: its step, and what it needs, is left to show.
LEMMA TypistGoesOn ==
    ASSUME AdminInv, NEW r \in Requests, Typing(r), Moves(r), SameCall(r),
           req'[r].step \in {"seat", "recipients", "publish"}, TypistSure(r)',
           RoomShape', OneDm', \A q \in Requests : RoomsKeptFor(q),
           UNCHANGED <<sessions, revoked_by, members, bans, slots, signals, now>>
    PROVE  AdminInv'
  <1>1. Sure(r)'
    BY DEF AdminInv, Sure, Typing, SameCall, CallerSure, RevokerSure, ReaderSure, PairSure,
           DeleterSure, Guarded, Reads, SessionReads, DirectoryReads
  <1>2. Spacing'
    BY SpacingKept DEF AdminInv, SameTypist, SameCall, Typing
  <1> QED
    BY <1>1, <1>2, RoomStep

\* A typist passes the gate or not.
LEMMA GateKeeps ==
    ASSUME AdminInv, NEW r \in Requests, UNCHANGED adminVars, TypingGate(r)
    PROVE  AdminInv'
  <1>1. /\ Typing(r) /\ AskKept(r) /\ TypistSure(r)
        /\ UNCHANGED <<sessions, revoked_by, members, bans, signals, now>>
    BY AskUnchanged DEF AdminInv, Sure, TypingGate, Serves, Typing, accountVars, adminVars
  <1>2. /\ RoomShape' /\ OneDm'
        /\ \A q \in Requests : RoomsKeptFor(q)
    <2>1. CASE UNCHANGED conversations
      BY <2>1, RoomsUnchanged
    <2>2. CASE conversations' = [d \in ConversationIds |->
                   IF conversations[d].kind # "channel" THEN conversations[d]
                   ELSE [conversations[d] EXCEPT !.members = @ \cup {req[r].user}]]
      <3>1. \A d \in ConversationIds :
                /\ conversations'[d].kind = conversations[d].kind
                /\ conversations[d].kind # "channel" => conversations'[d] = conversations[d]
                /\ conversations[d].members \subseteq conversations'[d].members
                /\ DOMAIN conversations'[d] = {"kind", "members"}
        BY <2>2 DEF AdminInv, Shape
      <3>2. RoomShape'
        BY <2>2, <3>1 DEF AdminInv, Shape, RoomShape
      <3>3. OneDm'
        BY <3>1 DEF AdminInv, OneDm
      <3>4. \A q \in Requests : RoomsKeptFor(q)
        BY <3>1 DEF AdminInv, Sure, PairSure, TypistSure, Typing, DmOf, RoomsKeptFor
      <3> QED
        BY <3>2, <3>3, <3>4
    <2> QED
      BY <2>1, <2>2 DEF TypingGate
  <1>3. CASE End(r) /\ Release(r)
    BY <1>1, <1>2, <1>3, TypistGone
  <1>4. CASE To(r, "seat") /\ UNCHANGED slots
    <2>1. Moves(r) /\ SameCall(r) /\ req'[r].step = "seat"
      BY <1>1, <1>4, ToEffect DEF AdminInv
    <2>2. TypistSure(r)'
      BY <1>1, <2>1 DEF TypistSure, SameCall
    <2> QED
      BY <1>1, <1>2, <1>4, <2>1, <2>2, TypistGoesOn
  <1> QED
    BY <1>3, <1>4 DEF TypingGate

\* The typist's seat is locked, and the recipients read.
LEMMA SeatKeeps ==
    ASSUME AdminInv, NEW r \in Requests, UNCHANGED adminVars, LockSeat(r) \/ ReadRecipients(r)
    PROVE  AdminInv'
  <1>1. /\ Typing(r) /\ AskKept(r) /\ TypistSure(r)
        /\ UNCHANGED <<sessions, revoked_by, members, bans, conversations, signals, now>>
    BY AskUnchanged DEF AdminInv, Sure, LockSeat, ReadRecipients, Serves, Typing, accountVars,
                        roomVars, adminVars
  <1>2. CASE End(r) /\ Release(r)
    BY <1>1, <1>2, RoomsUnchanged, TypistGone
  <1>3. CASE LockSeat(r) /\ UNCHANGED slots /\ ~(End(r) /\ Release(r))
    <2>1. /\ Take(r, Share(SeatRow(req[r].target, req[r].user)), "recipients")
          /\ req[r].user \in conversations[req[r].target].members
      BY <1>3 DEF LockSeat
    <2>2. /\ Moves(r) /\ SameCall(r) /\ req'[r].step = "recipients"
          /\ Share(SeatRow(req[r].target, req[r].user)) \in req'[r].held
      BY <1>1, <2>1, TakeEffect DEF AdminInv
    <2>3. TypistSure(r)'
      BY <1>1, <2>1, <2>2 DEF TypistSure, Typing, SameCall
    <2> QED
      BY <1>1, <1>3, <2>2, <2>3, RoomsUnchanged, TypistGoesOn
  <1>4. CASE ReadRecipients(r)
    <2>1. /\ Moves(r) /\ SameCall(r) /\ req'[r].step = "publish"
          /\ req'[r].held = req[r].held
          /\ req[r].step = "recipients" /\ UNCHANGED slots
      <3>1. \E seen : req' = [req EXCEPT ![r].seen = seen, ![r].step = "publish"]
        BY <1>4 DEF ReadRecipients
      <3> QED
        BY <1>1, <1>4, <3>1, SeenEffect DEF AdminInv, ReadRecipients, roomVars
    <2>2. TypistSure(r)'
      BY <1>1, <2>1 DEF TypistSure, Typing, SameCall
    <2> QED
      BY <1>1, <2>1, <2>2, RoomsUnchanged, TypistGoesOn
  <1> QED
    BY <1>2, <1>3, <1>4 DEF LockSeat

\* What is published was admitted: as a signal it stays as far from the others.
LEMMA PublishKeeps ==
    ASSUME AdminInv, NEW r \in Requests, UNCHANGED adminVars, Publish(r)
    PROVE  AdminInv'
  <1> DEFINE x == [user |-> req[r].user, room |-> req[r].target, at |-> req[r].at,
                   recipients |-> req[r].seen]
  <1>1. /\ signals' = signals \cup {x} /\ End(r) /\ Typing(r)
        /\ UNCHANGED <<sessions, revoked_by, members, bans, conversations, slots, now>>
    BY DEF Publish, Serves, Typing, accountVars
  <1>2. /\ Moves(r) /\ Sure(r)' /\ ~Typing(r)'
    BY <1>1, AskUnchanged, EndSure DEF AdminInv, adminVars
  <1>3. x.user = req[r].user /\ x.room = req[r].target /\ x.at = req[r].at
    OBVIOUS
  <1>4. \A q \in Requests : Typing(q)' => q # r /\ Typing(q) /\ req'[q] = req[q]
    BY <1>2 DEF Moves, Typing
  <1>5. \A y \in signals' : Throttled(y.user, y.room, y.at)'
    BY <1>1, <1>3 DEF AdminInv, Spacing, Throttled
  <1>6. \A q \in Requests : Typing(q)' => Throttled(req[q].user, req[q].target, req[q].at)'
    BY <1>1, <1>4 DEF AdminInv, Spacing, Throttled
  <1>7. SignalsSpaced'
    BY <1>1, <1>3 DEF AdminInv, Spacing, SignalsSpaced, Apart
  <1>8. \A q \in Requests, y \in signals' :
            Typing(q)' /\ req'[q].user = y.user /\ req'[q].target = y.room =>
                Apart(req'[q].at, y.at)
    BY <1>1, <1>3, <1>4 DEF AdminInv, Spacing
  <1>9. Spacing'
    BY <1>1, <1>4, <1>5, <1>6, <1>7, <1>8 DEF AdminInv, Spacing, Apart
  <1> QED
    BY <1>1, <1>2, <1>9, RoomsUnchanged, RoomStep

\* The request of a typist is lost.
LEMMA LoseTypingKeeps ==
    ASSUME AdminInv, NEW r \in Requests, UNCHANGED adminVars, LoseTyping(r)
    PROVE  AdminInv'
  <1>1. /\ Typing(r) /\ End(r) /\ Release(r) /\ AskKept(r)
        /\ UNCHANGED <<sessions, revoked_by, members, bans, conversations, signals, now>>
    BY AskUnchanged DEF AdminInv, LoseTyping, Serves, Typing, accountVars, adminVars
  <1> QED
    BY <1>1, RoomsUnchanged, TypistGone

\* The clock ticks.
LEMMA TickKeeps ==
    ASSUME AdminInv, UNCHANGED adminVars, Tick
    PROVE  AdminInv'
  <1>1. now' = now + 1 /\ UNCHANGED <<sessions, revoked_by, members, bans, req, ask,
                                      conversations, slots, signals>>
    BY DEF Tick, avars, accountVars, adminVars
  <1>2. Shape' /\ Exclusive' /\ NoMutualRevocation' /\ OneDm'
    BY <1>1 DEF AdminInv, Shape, Exclusive, NoMutualRevocation, OneDm
  <1>3. \A q \in Requests : Sure(q)'
    BY <1>1 DEF AdminInv, Sure, CallerSure, RevokerSure, ReaderSure, PairSure, TypistSure,
                DeleterSure, DmOf
  <1>4. Spacing'
    BY <1>1, RoomsAssumption DEF AdminInv, Spacing, Typing, Throttled, Apart, SignalsSpaced
  <1> QED
    BY <1>2, <1>3, <1>4 DEF AdminInv

-----------------------------------------------------------------------------
(* Steps that change members or seats.                                     *)

\* The role that a reader has checked stays its caller's, outside the bans.
MembersKeptFor(q) ==
    req[q].kind \in DirectoryReads =>
        /\ req[q].step \in {"check", "read"} /\ req[q].role # None =>
              members'[req[q].user] = members[req[q].user]
        /\ req[q].step = "read" => req[q].user \notin bans'

\* What a request is sure of outlives a change of members that it does not pin.
LEMMA SureOfMembers ==
    ASSUME NEW q \in Requests, Sure(q), req'[q] = req[q], ask'[q] = ask[q],
           UNCHANGED sessions, RoomsKeptFor(q), MembersKeptFor(q)
    PROVE  Sure(q)'
  <1>1. CallerSure(q)' /\ RevokerSure(q)' /\ DeleterSure(q)'
    BY DEF Sure, CallerSure, RevokerSure, DeleterSure
  <1>2. PairSure(q)'
    BY DEF Sure, PairSure, RoomsKeptFor, DmOf
  <1>3. TypistSure(q)'
    BY DEF Sure, TypistSure, RoomsKeptFor, Typing
  <1>4. ReaderSure(q)'
    BY DEF Sure, ReaderSure, MembersKeptFor
  <1> QED
    BY <1>1, <1>2, <1>3, <1>4 DEF Sure

\* A call that ends with a change of members or of seats.
LEMMA MemberStep ==
    ASSUME AdminInv, NEW r \in Requests, End(r), AskKept(r),
           \A q \in Requests \ {r} : RoomsKeptFor(q) /\ MembersKeptFor(q),
           UNCHANGED <<sessions, revoked_by, slots, signals, now>>,
           DOMAIN members' = Users, RoomShape', OneDm'
    PROVE  AdminInv'
  <1>1. Moves(r) /\ Sure(r)' /\ Spacing'
    BY EndSure, SpacingKept DEF AdminInv
  <1>2. Shape'
    BY <1>1 DEF AdminInv, Shape, RoomShape, Moves
  <1>3. Exclusive'
    BY <1>1, ExclusionKept DEF AdminInv
  <1>4. \A q \in Requests \ {r} : Sure(q)'
    BY <1>1, SureOfMembers DEF AdminInv, Moves
  <1>5. NoMutualRevocation'
    BY DEF AdminInv, NoMutualRevocation
  <1> QED
    BY <1>1, <1>2, <1>3, <1>4, <1>5 DEF AdminInv

\* The row of a member that a reader relies on is not free.
LEMMA MemberPinned ==
    ASSUME AdminInv, NEW r \in Requests, NEW q \in Requests \ {r}, NEW u \in Users,
           Free(r, Update(MemberRow(u))), req[q].kind \in DirectoryReads,
           req[q].step \in {"check", "read"}, req[q].role # None
    PROVE  req[q].user \in Users \ {u}
  <1>1. /\ Share(MemberRow(req[q].user)) \in req[q].held
        /\ req[q].user \in Users
    BY DEF AdminInv, Sure, ReaderSure, CallerSure, Guarded, Reads
  <1> QED
    BY <1>1, HeldBlocks

\* Kicks, bans and changes of role wait for the readers.
LEMMA MembersKept ==
    ASSUME AdminInv, NEW r \in Requests, NEW q \in Requests \ {r}, NEW u \in Users,
           Free(r, Update(MemberRow(u))),
           \A v \in Users \ {u} : members'[v] = members[v],
           bans' \subseteq bans \cup {u}
    PROVE  MembersKeptFor(q)
  <1>1. req[q].kind \in DirectoryReads /\ req[q].step = "read" =>
            req[q].role # None /\ req[q].user \notin bans
    BY DEF AdminInv, Sure, ReaderSure
  <1> QED
    BY <1>1, MemberPinned DEF MembersKeptFor

\* A member is kicked or banned.
LEMMA DepartureKeeps ==
    ASSUME AdminInv, NEW r \in Requests, NEW u \in Users, Departure(r, u)
    PROVE  AdminInv'
  <1>1. /\ End(r) /\ Free(r, Update(MemberRow(u)))
        /\ members' = [members EXCEPT ![u] = None]
        /\ bans' \subseteq bans \cup {u}
        /\ UNCHANGED <<sessions, revoked_by, slots, signals, now, ask>>
    BY DEF Departure, Depart, Kick, Ban
  <1>2. /\ AskKept(r) /\ DOMAIN members' = Users
        /\ \A v \in Users \ {u} : members'[v] = members[v]
    BY <1>1, AskUnchanged DEF AdminInv, Shape
  <1>3. /\ SeatsFree(r, u)
        /\ conversations' = Unseated(u)
    BY DEF Departure, Depart
  <1>4. \A d \in ConversationIds :
            /\ conversations'[d].kind = conversations[d].kind
            /\ conversations[d].kind # "channel" => conversations'[d] = conversations[d]
            /\ conversations[d].members \ {u} \subseteq conversations'[d].members
            /\ conversations'[d].members \subseteq conversations[d].members
            /\ DOMAIN conversations'[d] = {"kind", "members"}
    BY <1>3 DEF AdminInv, Shape, Unseated
  <1>5. RoomShape'
    BY <1>3, <1>4 DEF AdminInv, Shape, RoomShape, Unseated
  <1>6. OneDm'
    BY <1>4 DEF AdminInv, OneDm
  <1>7. ASSUME NEW q \in Requests \ {r}, Typing(q), req[q].step \in {"recipients", "publish"}
        PROVE  req[q].user \in conversations'[req[q].target].members
    <2>1. /\ req[q].target \in ConversationIds
          /\ Share(SeatRow(req[q].target, req[q].user)) \in req[q].held
          /\ req[q].user \in conversations[req[q].target].members
      BY <1>7 DEF AdminInv, Sure, TypistSure, Typing
    <2>2. req[q].user # u
      BY <1>3, <2>1, HeldBlocks DEF SeatsFree
    <2> QED
      BY <1>4, <2>1, <2>2
  <1>8. \A q \in Requests \ {r} : RoomsKeptFor(q)
    BY <1>4, <1>7 DEF AdminInv, Sure, PairSure, DmOf, RoomsKeptFor
  <1> QED
    BY <1>1, <1>2, <1>5, <1>6, <1>8, MembersKept, MemberStep

\* A member gets another role.
LEMMA PromotionKeeps ==
    ASSUME AdminInv, NEW r \in Requests, NEW u \in Users, NEW role \in Roles, Promotion(r, u, role)
    PROVE  AdminInv'
  <1>1. /\ End(r) /\ Free(r, Update(MemberRow(u)))
        /\ members' = [members EXCEPT ![u] = role]
        /\ UNCHANGED <<sessions, revoked_by, bans, conversations, slots, signals, now, ask>>
    BY DEF Promotion, Promote, SetRole, roomVars
  <1>2. /\ AskKept(r) /\ DOMAIN members' = Users
        /\ \A v \in Users \ {u} : members'[v] = members[v]
    BY <1>1, AskUnchanged DEF AdminInv, Shape
  <1> QED
    BY <1>1, <1>2, RoomsUnchanged, MembersKept, MemberStep

\* An answer ends the call.
LEMMA ReplyEffect ==
    ASSUME Shape, NEW r \in Requests, NEW answer, Reply(r, answer)
    PROVE  End(r) /\ AskKept(r)
  BY DEF Shape, Reply, AskKept

\* Who is added was no member, and so no reader with a role.
LEMMA AddMemberKeeps ==
    ASSUME AdminInv, NEW r \in Requests, AddMember(r)
    PROVE  AdminInv'
  <1> DEFINE u == ask[r].on
  <1>1. UNCHANGED <<sessions, revoked_by, bans, slots, signals, now>>
    BY DEF AddMember
  <1>2. End(r) /\ AskKept(r)
    BY ReplyEffect DEF AdminInv, AddMember, Change
  <1>3. CASE members[u] # None
    BY <1>1, <1>2, <1>3, EndKeeps DEF AddMember, grounds
  <1>4. CASE members[u] = None
    <2>1. /\ members' = [members EXCEPT ![u] = ask[r].value]
          /\ conversations' = Seated(u)
      BY <1>4 DEF AddMember
    <2>2. /\ DOMAIN members' = Users
          /\ \A v \in Users \ {u} : members'[v] = members[v]
      BY <2>1 DEF AdminInv, Shape
    <2>3. \A q \in Requests \ {r} : MembersKeptFor(q)
      <3>1. ASSUME NEW q \in Requests, req[q].kind \in DirectoryReads
            PROVE  /\ req[q].user \in Users
                   /\ req[q].step \in {"check", "read"} /\ req[q].role # None =>
                         members[req[q].user] # None
                   /\ req[q].step = "read" => req[q].user \notin bans
        BY <3>1 DEF AdminInv, Sure, CallerSure, ReaderSure, Guarded, Reads
      <3> QED
        BY <1>1, <1>4, <2>2, <3>1 DEF MembersKeptFor
    <2>4. \A d \in ConversationIds :
              /\ conversations'[d].kind = conversations[d].kind
              /\ conversations[d].kind # "channel" => conversations'[d] = conversations[d]
              /\ conversations[d].members \subseteq conversations'[d].members
              /\ DOMAIN conversations'[d] = {"kind", "members"}
      BY <2>1 DEF AdminInv, Shape, Seated
    <2>5. RoomShape'
      BY <2>1, <2>4 DEF AdminInv, Shape, RoomShape, Seated
    <2>6. OneDm'
      BY <2>4 DEF AdminInv, OneDm
    <2>7. \A q \in Requests : RoomsKeptFor(q)
      BY <2>4 DEF AdminInv, Sure, PairSure, TypistSure, Typing, DmOf, RoomsKeptFor
    <2> QED
      BY <1>1, <1>2, <2>2, <2>3, <2>5, <2>6, <2>7, MemberStep
  <1> QED
    BY <1>3, <1>4

\* A deletion has waited for every typist of the channel.
LEMMA DeleteChannelKeeps ==
    ASSUME AdminInv, NEW r \in Requests, DeleteChannel(r)
    PROVE  AdminInv'
  <1> DEFINE c == ask[r].on
  <1>1. /\ UNCHANGED <<sessions, revoked_by, members, bans, slots, signals, now>>
        /\ conversations' = [conversations EXCEPT ![c] = [kind |-> "gone", members |-> {}]]
    BY DEF DeleteChannel, accountVars
  <1>2. End(r) /\ AskKept(r)
    BY ReplyEffect DEF AdminInv, DeleteChannel, Change
  <1>3. /\ \A d \in ConversationIds \ {c} : conversations'[d] = conversations[d]
        /\ c \in ConversationIds => conversations'[c] = [kind |-> "gone", members |-> {}]
        /\ DOMAIN conversations' = ConversationIds
    BY <1>1 DEF AdminInv, Shape
  <1>4. RoomShape'
    BY <1>3 DEF AdminInv, Shape, RoomShape
  <1>5. \A d \in ConversationIds : conversations'[d].kind = "dm" =>
            conversations'[d] = conversations[d]
    BY <1>3
  <1>6. OneDm'
    BY <1>5 DEF AdminInv, OneDm
  <1>7. ASSUME NEW q \in Requests \ {r}, Typing(q), req[q].step \in {"recipients", "publish"}
        PROVE  req[q].user \in conversations'[req[q].target].members
    <2>1. /\ req[q].target \in ConversationIds /\ req[q].user \in Users
          /\ Share(SeatRow(req[q].target, req[q].user)) \in req[q].held
          /\ req[q].user \in conversations[req[q].target].members
      BY <1>7 DEF AdminInv, Sure, CallerSure, TypistSure, Typing, Guarded
    <2>2. Update(SeatRow(c, req[q].user)) \in req[r].held
      BY <2>1 DEF AdminInv, Sure, DeleterSure, DeleteChannel, At, DoomedRows
    <2>3. req[q].target # c
      BY <2>1, <2>2, HeldOnce DEF AdminInv
    <2> QED
      BY <1>3, <2>1, <2>3
  <1>8. \A q \in Requests \ {r} : RoomsKeptFor(q)
    BY <1>5, <1>7 DEF AdminInv, Sure, PairSure, DmOf, RoomsKeptFor
  <1>9. Moves(r) /\ Sure(r)' /\ Spacing'
    BY <1>1, <1>2, EndSure, SpacingKept DEF AdminInv
  <1> QED
    BY <1>1, <1>4, <1>6, <1>8, <1>9, RoomStep

\* A channel is made.
LEMMA CreateChannelKeeps ==
    ASSUME AdminInv, NEW r \in Requests, CreateChannel(r)
    PROVE  AdminInv'
  <1>1. /\ UNCHANGED <<sessions, revoked_by, members, bans, slots, signals, now>>
        /\ \/ UNCHANGED conversations
           \/ \E c \in ConversationIds : Insert(c, "channel", req[r].seen)
    BY DEF CreateChannel, Known, accountVars
  <1>2. End(r) /\ AskKept(r)
    BY ReplyEffect DEF AdminInv, CreateChannel, Change
  <1>3. /\ RoomShape' /\ OneDm'
        /\ \A q \in Requests : RoomsKeptFor(q)
    BY <1>1, RoomsUnchanged, InsertOther
  <1>4. Moves(r) /\ Sure(r)' /\ Spacing'
    BY <1>1, <1>2, EndSure, SpacingKept DEF AdminInv
  <1> QED
    BY <1>1, <1>3, <1>4, RoomStep

-----------------------------------------------------------------------------
(* The other calls of a workspace: no ground that a guarded request needs.  *)

\* A call that goes on, at any step but that of a deletion about to commit.
LEMMA CallGoesOn ==
    ASSUME AdminInv, NEW r \in Requests, Moves(r), req'[r].kind \notin Guarded,
           req'[r].step # "delete", UNCHANGED grounds
    PROVE  AdminInv'
  BY PlainKeeps DEF Plain, DeleterSure

\* A call of the administration comes in.
LEMMA AdministerKeeps ==
    ASSUME AdminInv, NEW r \in Requests, NEW s \in SessionIds,
           NEW kind, kind \notin Guarded, NEW step, step # "delete", NEW on, NEW value,
           Administer(r, s, kind, step, on, value)
    PROVE  AdminInv'
  <1>1. Begin(r, kind, step, s, None) /\ UNCHANGED <<conversations, slots, signals, now>>
    BY DEF Administer, roomVars
  <1>2. AskKept(r)
    BY DEF AdminInv, Shape, Administer, AskKept
  <1> QED
    BY <1>1, <1>2, BeginMoves, CallGoesOn DEF AdminInv, grounds

\* The calls of the administration.
AdminKinds == {"list_workspaces", "get_workspace", "rename", "add", "list_channels",
               "create_channel", "create_invite", "revoke_invite", "list_invites",
               "list_audit"} \cup ChannelCalls

\* So do the calls of every route.
LEMMA RoutesKeep ==
    ASSUME AdminInv, NEW r \in Requests, NEW s \in Callers,
           \/ WorkspaceRoutes(r, s) \/ MemberRoutes(r, s) \/ ChannelRoutes(r, s)
           \/ OverrideRoutes(r, s) \/ InviteRoutes(r, s) \/ AuditRoute(r, s)
    PROVE  AdminInv'
  <1>1. \A kind \in AdminKinds : kind \notin Guarded
    BY DEF AdminKinds, ChannelCalls, Guarded, Reads, SessionReads, DirectoryReads
  <1>2. PICK kind \in AdminKinds, step \in {"page", "view", "require", "gate", "channel"} :
            \E on, value : Administer(r, s, kind, step, on, value)
    BY DEF WorkspaceRoutes, MemberRoutes, ChannelRoutes, OverrideRoutes, InviteRoutes, AuditRoute,
           AdminKinds, ChannelCalls
  <1>3. PICK on, value : Administer(r, s, kind, step, on, value)
    BY <1>2
  <1>4. s \in SessionIds
    BY DEF Callers
  <1> QED
    BY <1>1, <1>3, <1>4, AdministerKeeps

\* The calls that are over, whatever they have answered and written.
LEMMA AnswersKeep ==
    ASSUME AdminInv, NEW r \in Requests,
           \/ Malformed(r) \/ AnswerRename(r) \/ RenameChannel(r)
           \/ ShowWorkspace(r) \/ ListWorkspaces(r) \/ ListChannels(r) \/ ListOverrides(r)
           \/ Page(r, "list_invites") \/ Page(r, "list_audit")
           \/ SetOverride(r) \/ DeleteOverride(r) \/ CreateInvite(r) \/ RevokeInvite(r)
    PROVE  AdminInv'
  <1>1. UNCHANGED grounds
    BY DEF Malformed, AnswerRename, RenameChannel, ShowWorkspace, ListWorkspaces, ListChannels,
           ListOverrides, Page, SetOverride, DeleteOverride, CreateInvite, RevokeInvite, Reading,
           accountVars, roomVars, grounds
  <1>2. \/ End(r) /\ UNCHANGED ask
        \/ \E answer : Reply(r, answer)
    BY DEF Malformed, AnswerRename, RenameChannel, ShowWorkspace, ListWorkspaces, ListChannels,
           ListOverrides, Page, SetOverride, DeleteOverride, CreateInvite, RevokeInvite, Change,
           adminVars
  <1>3. End(r) /\ AskKept(r)
    BY <1>2, ReplyEffect, AskUnchanged DEF AdminInv
  <1> QED
    BY <1>1, <1>3, EndKeeps

\* A gate that lets a call on or answers it.
LEMMA OnOrOutKeeps ==
    ASSUME AdminInv, NEW r \in Requests, req[r].kind \notin Guarded, UNCHANGED grounds,
           NEW refusal, NEW step, step # "delete", OnOrOut(r, refusal, step)
    PROVE  AdminInv'
  <1>1. CASE Reply(r, refusal)
    BY <1>1, ReplyEffect, EndKeeps DEF AdminInv
  <1>2. CASE To(r, step) /\ UNCHANGED ask
    BY <1>2, AskUnchanged, ToEffect, CallGoesOn DEF AdminInv, SameCall
  <1> QED
    BY <1>1, <1>2 DEF OnOrOut

\* The gates of the reads.
LEMMA GatesKeep ==
    ASSUME AdminInv, NEW r \in Requests,
           \/ GetWorkspace(r) \/ GateBeforeLookup(r)
           \/ ListInvites(r) /\ ~Page(r, "list_invites")
           \/ ListAudit(r) /\ ~Page(r, "list_audit")
    PROVE  AdminInv'
  <1>1. UNCHANGED grounds /\ req[r].kind \notin Guarded
    BY DEF GetWorkspace, GateBeforeLookup, ListInvites, ListAudit, At, Reading, accountVars,
           roomVars, grounds, Guarded, Reads, SessionReads, DirectoryReads
  <1>2. \E refusal : \E step \in {"page", "handle"} : OnOrOut(r, refusal, step)
    BY DEF GetWorkspace, GateBeforeLookup, ListInvites, ListAudit
  <1> QED
    BY <1>1, <1>2, OnOrOutKeeps

\* The channel, the handle and the target of an override are looked up.
LEMMA LooksKeep ==
    ASSUME AdminInv, NEW r \in Requests,
           GetChannel(r) \/ LookupHandle(r) \/ OverrideTarget(r) \/ RenameWorkspace(r)
    PROVE  AdminInv'
  <1>1. UNCHANGED grounds /\ req[r].kind \notin Guarded
    BY DEF GetChannel, LookupHandle, OverrideTarget, RenameWorkspace, At, ChannelCalls, Reading,
           accountVars, roomVars, grounds, Guarded, Reads, SessionReads, DirectoryReads
  <1>2. \/ \E answer : Reply(r, answer)
        \/ \E step \in {"page", "require", "write", "role"} : To(r, step) /\ AskKept(r)
    BY AskUnchanged DEF AdminInv, Shape, GetChannel, LookupHandle, OverrideTarget, RenameWorkspace,
           AskKept
  <1> QED
    BY <1>1, <1>2, ReplyEffect, EndKeeps, ToEffect, CallGoesOn DEF AdminInv, SameCall

\* The step after the gate is no step that a guarded request shares.
LEMMA RequireKeeps ==
    ASSUME AdminInv, NEW r \in Requests, Require(r)
    PROVE  AdminInv'
  <1>1. UNCHANGED grounds
    BY DEF Require, Reading, accountVars, roomVars, grounds
  <1>2. req[r].kind \notin Guarded
    BY DEF AdminInv, Sure, CallerSure, Require
  <1>3. CASE \E answer : Reply(r, answer)
    BY <1>1, <1>3, ReplyEffect, EndKeeps DEF AdminInv
  <1>4. CASE \E role, value :
                /\ req' = [req EXCEPT ![r].step = FirstStatement(req[r].kind), ![r].role = role]
                /\ ask' = [ask EXCEPT ![r].value = value]
    <2>1. FirstStatement(req[r].kind) # "delete"
      BY DEF FirstStatement
    <2>2. AskKept(r)
      BY <1>4 DEF AdminInv, Shape, AskKept
    <2>3. Moves(r) /\ req'[r].kind = req[r].kind /\ req'[r].step # "delete"
      BY <1>4, <2>1, <2>2 DEF AdminInv, Shape, Moves, AskKept, Fields
    <2> QED
      BY <1>1, <1>2, <2>3, CallGoesOn
  <1> QED
    BY <1>3, <1>4 DEF Require

\* The members to seat are listed.
LEMMA SnapshotKeeps ==
    ASSUME AdminInv, NEW r \in Requests, Snapshot(r)
    PROVE  AdminInv'
  <1>1. UNCHANGED grounds /\ req[r].kind \notin Guarded /\ UNCHANGED ask
    BY DEF Snapshot, At, Reading, accountVars, roomVars, grounds, Guarded, Reads, SessionReads,
           DirectoryReads
  <1>2. PICK seen : req' = [req EXCEPT ![r].step = "name", ![r].seen = seen]
    BY DEF Snapshot
  <1>3. Moves(r) /\ SameCall(r) /\ req'[r].step = "name"
    BY <1>1, <1>2, AskUnchanged, SeenEffect DEF AdminInv
  <1> QED
    BY <1>1, <1>3, CallGoesOn DEF SameCall

\* The row of a channel is locked.
LEMMA LockChannelKeeps ==
    ASSUME AdminInv, NEW r \in Requests, LockChannel(r)
    PROVE  AdminInv'
  <1>1. UNCHANGED grounds /\ req[r].kind \notin Guarded
    BY DEF LockChannel, At, Reading, accountVars, roomVars, grounds, Guarded, Reads, SessionReads,
           DirectoryReads
  <1>2. \/ Reply(r, "Database")
        \/ Take(r, Update(ChannelRow(ask[r].on)), "name") /\ UNCHANGED ask
    BY DEF LockChannel
  <1> QED
    BY <1>1, <1>2, ReplyEffect, EndKeeps, AskUnchanged, TakeEffect, CallGoesOn
       DEF AdminInv, SameCall

\* The rows of a doomed channel are locked.
LEMMA LockDoomedKeeps ==
    ASSUME AdminInv, NEW r \in Requests, LockDoomed(r)
    PROVE  AdminInv'
  <1>1. UNCHANGED grounds /\ req[r].kind \notin Guarded
    BY DEF LockDoomed, At, Reading, accountVars, roomVars, grounds, Guarded, Reads, SessionReads,
           DirectoryReads
  <1>2. CASE Reply(r, "NotMember")
    BY <1>1, <1>2, ReplyEffect, EndKeeps DEF AdminInv
  <1>3. CASE /\ req' = [req EXCEPT ![r].held = DoomedRows(ask[r].on), ![r].step = "delete"]
             /\ UNCHANGED ask
    <2>1. \A lock \in DoomedRows(ask[r].on) : Free(r, lock)
      BY DEF LockDoomed
    <2>2. /\ DOMAIN req' = Requests /\ DOMAIN req'[r] = Fields
          /\ \A q \in Requests \ {r} : req'[q] = req[q]
          /\ req'[r].kind = req[r].kind /\ req'[r].held = DoomedRows(ask[r].on)
      BY <1>3 DEF AdminInv, Shape, Fields
    <2>3. Moves(r)
      BY <1>3, <2>1, <2>2 DEF AdminInv, Shape, Moves
    <2>4. DeleterSure(r)'
      BY <1>3, <2>2 DEF DeleterSure, DoomedRows, Update, ChannelRow, SeatRow, Row
    <2> QED
      BY <1>1, <2>2, <2>3, <2>4, PlainKeeps DEF Plain
  <1> QED
    BY <1>2, <1>3 DEF LockDoomed

-----------------------------------------------------------------------------
(* The theorems.                                                           *)

\* Every step of the administration.
LEMMA AdminServeKeeps ==
    ASSUME AdminInv, NEW r \in Requests, AdminServe(r)
    PROVE  AdminInv'
  BY RoutesKeep, LooksKeep, GatesKeep, RequireKeeps, AnswersKeep, AddMemberKeeps, SnapshotKeeps,
     CreateChannelKeeps, LockChannelKeeps, LockDoomedKeeps, DeleteChannelKeeps, DepartureKeeps,
     PromotionKeeps
  DEF AdminServe, ListInvites, ListAudit

\* Every step of Conversations.
LEMMA RoomServeKeeps ==
    ASSUME AdminInv, NEW r \in Requests, RoomServe(r), UNCHANGED adminVars
    PROVE  AdminInv'
  BY BeginRoomKeeps, PlainRooms, PairKeeps, CreateDmKeeps, CreateGroupKeeps, AdmitKeeps,
     GateKeeps, SeatKeeps, PublishKeeps, LoseTypingKeeps
  DEF RoomServe

\* Every step of Accounts.
LEMMA AccountServeKeeps ==
    ASSUME AdminInv, NEW r \in Requests, AccountServe(r), UNCHANGED adminVars
    PROVE  AdminInv'
  BY BeginAccountKeeps, RegisterKeeps, LoginKeeps, AccountEnds, LogoutKeeps, RevokerKeeps,
     RevokeTargetKeeps, ReaderKeeps
  DEF AccountServe, Serve, Anonymous

\* Every step keeps the invariant.
LEMMA AdminNextKeeps ==
    ASSUME AdminInv, [AdminNext]_allVars
    PROVE  AdminInv'
  <1>1. CASE AdminNext
    BY <1>1, AdminServeKeeps, RoomServeKeeps, AccountServeKeeps, TickKeeps, ExpireKeeps
       DEF AdminNext, RoomsClock
  <1>2. CASE UNCHANGED allVars
    <2>1. UNCHANGED <<sessions, revoked_by, members, bans, req, ask, conversations, slots,
                      signals, now>>
      BY <1>2 DEF allVars, vars, avars, accountVars, roomVars, adminVars
    <2>2. Shape' /\ Exclusive' /\ NoMutualRevocation' /\ OneDm'
      BY <2>1 DEF AdminInv, Shape, Exclusive, NoMutualRevocation, OneDm
    <2>3. \A q \in Requests : Sure(q)'
      BY <2>1 DEF AdminInv, Sure, CallerSure, RevokerSure, ReaderSure, PairSure, TypistSure,
                  DeleterSure, DmOf
    <2>4. Spacing'
      BY <2>1 DEF AdminInv, Spacing, Typing, Throttled, SignalsSpaced
    <2> QED
      BY <2>2, <2>3, <2>4 DEF AdminInv
  <1> QED
    BY <1>1, <1>2

\* No session is revoked, no dm is there, nobody types.
LEMMA AdminInitHolds ==
    ASSUME AdminInit
    PROVE  AdminInv
  <1>1. /\ req = [r \in Requests |-> Blank] /\ ask = [r \in Requests |-> NoAsk]
        /\ DOMAIN Blank = Fields /\ Blank.held = {} /\ Blank.kind = "none"
    BY DEF AdminInit, RoomsInit, Init, Blank, Fields
  <1>2. \A r \in Requests : req[r] = Blank
    BY <1>1
  <1>3. /\ sessions = [s \in SessionIds |-> [NoSession EXCEPT !.owner = Owner0[s]]]
        /\ revoked_by = [s \in SessionIds |-> None]
        /\ members = Role0
    BY DEF AdminInit, RoomsInit, Init
  <1>4. /\ sessions \in [SessionIds -> Session]
        /\ \A s \in SessionIds : revoked_by[s] = None
        /\ DOMAIN revoked_by = SessionIds /\ DOMAIN members = Users
    BY <1>3, DatabaseAssumption DEF NoSession, Session, SessionIds
  <1>5. /\ DOMAIN conversations = ConversationIds
        /\ \A c \in ConversationIds :
              \/ conversations[c] = [kind |-> "none", members |-> {}]
              \/ conversations[c] = [kind |-> "channel",
                                     members |-> {u \in Users : Role0[u] # None}]
    BY DEF AdminInit, RoomsInit, NoConversation
  <1>6. Shape
    BY <1>1, <1>2, <1>4, <1>5 DEF Shape
  <1>7. Exclusive
    BY <1>1, <1>2 DEF Exclusive
  <1>8. \A r \in Requests : Sure(r)
    BY <1>1, <1>2 DEF Sure, CallerSure, RevokerSure, ReaderSure, PairSure, TypistSure, DeleterSure,
                      Guarded, Reads, SessionReads, DirectoryReads
  <1>9. slots = {} /\ signals = {} /\ now = 0
    BY DEF AdminInit, RoomsInit
  <1>10. Spacing
    BY <1>1, <1>2, <1>9 DEF Spacing, Typing, SignalsSpaced
  <1>11. NoMutualRevocation
    BY <1>4, NoneAssumption DEF NoMutualRevocation, SessionIds
  <1>12. OneDm
    BY <1>5 DEF OneDm
  <1> QED
    BY <1>6, <1>7, <1>8, <1>10, <1>11, <1>12 DEF AdminInv

\* The inductive invariant holds, whatever the users, requests and calls.
THEOREM AdminInvariant == AdminSpec => []AdminInv
  <1>1. AdminInit => AdminInv
    BY AdminInitHolds
  <1>2. AdminInv /\ [AdminNext]_allVars => AdminInv'
    BY AdminNextKeeps
  <1> QED
    BY <1>1, <1>2, PTL DEF AdminSpec

\* No two sessions revoke each other (session_management.rs:140): the row locks
\* of the one make the other find itself revoked.
THEOREM RevocationsOneWay == AdminSpec => []NoMutualRevocation
  <1>1. AdminInv => NoMutualRevocation
    BY DEF AdminInv
  <1> QED
    BY <1>1, AdminInvariant, PTL

\* Two users have at most one dm (messaging.rs:368).
THEOREM DmUnique == AdminSpec => []OneDm
  <1>1. AdminInv => OneDm
    BY DEF AdminInv
  <1> QED
    BY <1>1, AdminInvariant, PTL

\* Published signals of an account in a conversation were admitted an interval
\* apart, whatever failed and was released in between (typing.rs:130).
THEOREM TypingSpaced == AdminSpec => []SignalsSpaced
  <1>1. AdminInv => SignalsSpaced
    BY DEF AdminInv, Spacing
  <1> QED
    BY <1>1, AdminInvariant, PTL

\* While a request reads, or publishes that somebody types, what admitted it
\* still holds (moderation.rs:57, workspace_stats.rs:47, messaging.rs:441).
THEOREM ReadersAuthorised == AdminSpec => []AuthorityHeld
  <1>1. AdminInv => ReadsUnderAuthority
    BY DEF AdminInv, Sure, ReaderSure, ReadsUnderAuthority
  <1>2. AdminInv => \A r \in Requests :
            Serves(r, "typing") /\ req[r].step \in {"recipients", "publish"} =>
                req[r].user \in conversations[req[r].target].members
    BY DEF AdminInv, Sure, TypistSure, Serves
  <1>3. AdminInv => AuthorityHeld
    BY <1>1, <1>2 DEF AuthorityHeld
  <1> QED
    BY <1>3, AdminInvariant, PTL

-----------------------------------------------------------------------------
(* Types, table by table.                                                  *)

AccountTables ==
    /\ users \in [Users -> Handles \cup {None}]
    /\ wallets \subseteq Users
    /\ sessions \in [SessionIds -> Session]
    /\ revoked_by \in [SessionIds -> SessionIds \cup {None}]
    /\ \A s \in SessionIds : sessions[s].revoked <=> revoked_by[s] # None
    /\ \A d \in devices : d.identity # Crypt!ZeroKey /\ d.agreement # Crypt!ZeroKey
    /\ members \in [Users -> Roles \cup {None}]
    /\ bans \subseteq Users

Sized ==
    \A c \in ConversationIds :
        /\ conversations[c].kind = "dm" => Cardinality(conversations[c].members) \in 1..2
        /\ conversations[c].kind = "group" => Cardinality(conversations[c].members) > 2

Throttle ==
    /\ slots \subseteq Slot /\ signals \subseteq Signal /\ now \in 0..MaxTime
    /\ \A x, y \in slots : x.user = y.user /\ x.room = y.room => x = y

RoomTables == conversations \in [ConversationIds -> Conversation] /\ Sized /\ Throttle

Overriding ==
    /\ overrides \subseteq Override
    /\ \A o, p \in overrides : o.channel = p.channel /\ o.target = p.target => o = p
    /\ \A o \in overrides : channels[o.channel] # None

\* The channels are the conversations of that kind.
ChannelTables ==
    /\ name \in Names
    /\ channels \in [ConversationIds -> Names \cup {None}]
    /\ \A c \in ConversationIds : channels[c] # None <=> conversations[c].kind = "channel"

AdminTables ==
    /\ ChannelTables /\ Overriding
    /\ invites \in [InviteIds -> {"none", "live", "revoked"}]

Tables == AccountTables /\ RoomTables /\ AdminTables

-----------------------------------------------------------------------------
(* The stages of the calls, and what their requests hold.                  *)

\* The statements of each kind of call.
StepsOf(kind) ==
    CASE kind = "none" -> {"idle", "done"}
      [] kind = "register" -> {"wallet"}
      [] kind = "logout" -> {"logout"}
      [] kind = "device" -> {"device"}
      [] kind = "revoke" -> {"lock", "revoke"}
      [] kind = "sessions" -> {"session", "check", "read"}
      [] kind \in {"bans", "stats"} -> {"session", "member", "check", "read"}
      [] kind = "roster" -> {"member", "check", "read"}
      [] kind = "dm" -> {"pair", "find", "create"}
      [] kind = "group" -> {"create"}
      [] kind = "rooms" -> {"rows", "members", "profiles"}
      [] kind = "history" -> {"member?", "page"}
      [] kind = "typing" -> {"gate", "seat", "recipients", "publish"}
      [] kind = "list_workspaces" -> {"page"}
      [] kind \in {"get_workspace", "list_channels"} -> {"view", "page"}
      [] kind = "rename" -> {"require", "write", "role"}
      [] kind = "add" -> {"gate", "handle", "require", "write"}
      [] kind = "create_channel" -> {"require", "snapshot", "name"}
      [] kind = "get_channel" -> {"channel"}
      [] kind = "list_overrides" -> {"channel", "page"}
      [] kind = "rename_channel" -> {"channel", "require", "row", "name"}
      [] kind = "delete_channel" -> {"channel", "require", "row", "delete"}
      [] kind = "set_override" -> {"channel", "require", "target", "write"}
      [] kind = "delete_override" -> {"channel", "require", "write"}
      [] kind \in {"create_invite", "revoke_invite"} -> {"require", "write"}
      [] kind \in {"list_invites", "list_audit"} -> {"gate", "page"}

Kinds == AccountKinds \cup AdminKinds \cup {"dm", "group", "rooms", "history", "typing"}

AskFields == {"caller", "on", "value", "subject", "began", "answer"}

\* What a request holds, by its kind and its step.  A rename about to be checked
\* has locked its channel; it and the channel of a deletion about to commit are there.
Formed(r) ==
    LET c == req[r]
        a == ask[r]
    IN  /\ c.kind \in Kinds /\ c.step \in StepsOf(c.kind)
        /\ c.kind # "none" => c.user \in Users
        /\ c.session \in SessionIds \cup {None}
        /\ c.kind = "typing" =>
               c.target \in ConversationIds /\ c.at \in 0..MaxTime
        /\ c.kind = "dm" => c.target \in Users
        /\ c.kind \in {"group", "create_channel"} => c.seen \subseteq Users
        /\ c.kind = "typing" /\ c.step = "publish" => c.seen \subseteq Users
        /\ c.kind \in AccountKinds => c.held \subseteq Locks
        /\ DOMAIN a = AskFields /\ a.began \in Nat /\ a.began <= Len(trail)
        /\ c.kind \in AdminKinds => a.caller = c.user
        /\ c.kind \in ChannelCalls => a.on \in ConversationIds
        /\ c.kind = "create_channel" => a.on = None
        /\ c.kind = "revoke_invite" => a.on \in InviteIds
        /\ c.kind = "add" /\ c.step \in {"require", "write"} =>
               a.on \in Users /\ a.value \in Roles
        /\ c.kind \in Naming /\ c.step \in {"write", "role", "snapshot", "row", "name"} =>
               a.value \in Names
        /\ c.kind = "set_override" /\ c.step = "write" => a.subject \in Subjects
        /\ c.kind = "rename_channel" /\ c.step = "name" =>
               Update(ChannelRow(a.on)) \in c.held /\ channels[a.on] # None
        /\ c.kind = "delete_channel" /\ c.step = "delete" => channels[a.on] # None

\* A value that is a sequence.
Listed(s) == s \in Seq({s[i] : i \in DOMAIN s})

\* The types, and what requests hold.
TypedInv ==
    /\ Tables
    /\ Listed(trail)
    /\ \A r \in Requests : Formed(r)

-----------------------------------------------------------------------------
(* The order of locks.                                                     *)

HoldsRow(r, row) == Share(row) \in req[r].held \/ Update(row) \in req[r].held

\* Sessions in the order of their ids, by revocations and by the reads that go on
\* to a member; members only to share.
Ordered(r) ==
    /\ \A u \in Users : Update(MemberRow(u)) \notin req[r].held
    /\ req[r].kind \notin Reads \cup {"revoke"} =>
          \A l \in req[r].held :
              /\ \A s \in SessionIds : l.row # SessionRow(s)
              /\ \A u \in Users : l.row # MemberRow(u)
    /\ \A s \in SessionIds : HoldsRow(r, SessionRow(s)) =>
          \/ req[r].kind = "revoke"
          \/ req[r].kind \in SessionReads /\ req[r].step \in {"member", "check", "read"}
    /\ req[r].kind = "revoke" => sessions[req[r].target].owner # None
    /\ req[r].kind = "revoke" /\ req[r].step = "lock" =>
          \A s \in SessionIds, t \in Unlocked(r) : HoldsRow(r, SessionRow(s)) => s < t

LockOrder == \A r \in Requests : Ordered(r)

-----------------------------------------------------------------------------
(* Sequences and the steps of a call.                                      *)

\* One more element: the others stay.
LEMMA OneMore ==
    ASSUME NEW s, Listed(s), NEW e
    PROVE  /\ Listed(Append(s, e)) /\ Len(s) \in Nat
           /\ Len(Append(s, e)) = Len(s) + 1
           /\ \A i \in 1..Len(s) : Append(s, e)[i] = s[i]
           /\ Append(s, e)[Len(s) + 1] = e
           /\ DOMAIN Append(s, e) = 1..(Len(s) + 1) /\ DOMAIN s = 1..Len(s)
  <1> DEFINE S == {s[i] : i \in DOMAIN s}
             t == Append(s, e)
             T == {t[i] : i \in DOMAIN t}
  <1>1. s \in Seq(S)
    BY DEF Listed
  <1>2. Len(s) \in Nat /\ DOMAIN s = 1..Len(s)
    BY <1>1
  <1>3. S \subseteq S \cup {e} /\ s \in Seq(S \cup {e})
    BY <1>1
  <1>4. /\ Len(t) = Len(s) + 1 /\ DOMAIN t = 1..(Len(s) + 1)
        /\ \A i \in 1..Len(s) : t[i] = s[i]
        /\ t[Len(s) + 1] = e /\ t \in Seq(S \cup {e})
    BY <1>2, <1>3
  <1>5. t \in Seq(T)
    BY <1>4
  <1> QED
    BY <1>2, <1>4, <1>5 DEF Listed

\* The table of StepsOf.
LEMMA StepTable ==
    /\ StepsOf("none") = {"idle", "done"} /\ StepsOf("register") = {"wallet"}
    /\ StepsOf("logout") = {"logout"} /\ StepsOf("device") = {"device"}
    /\ StepsOf("revoke") = {"lock", "revoke"}
    /\ StepsOf("sessions") = {"session", "check", "read"}
    /\ StepsOf("bans") = {"session", "member", "check", "read"}
    /\ StepsOf("stats") = {"session", "member", "check", "read"}
    /\ StepsOf("roster") = {"member", "check", "read"}
  BY DEF StepsOf

\* The same for the rooms.
LEMMA RoomStepTable ==
    /\ StepsOf("dm") = {"pair", "find", "create"} /\ StepsOf("group") = {"create"}
    /\ StepsOf("rooms") = {"rows", "members", "profiles"}
    /\ StepsOf("history") = {"member?", "page"}
    /\ StepsOf("typing") = {"gate", "seat", "recipients", "publish"}
  BY DEF StepsOf

\* The same for the administration.
LEMMA AdminStepTable ==
    /\ StepsOf("list_workspaces") = {"page"}
    /\ StepsOf("get_workspace") = {"view", "page"} /\ StepsOf("list_channels") = {"view", "page"}
    /\ StepsOf("rename") = {"require", "write", "role"}
    /\ StepsOf("add") = {"gate", "handle", "require", "write"}
    /\ StepsOf("create_channel") = {"require", "snapshot", "name"}
    /\ StepsOf("get_channel") = {"channel"} /\ StepsOf("list_overrides") = {"channel", "page"}
    /\ StepsOf("rename_channel") = {"channel", "require", "row", "name"}
    /\ StepsOf("delete_channel") = {"channel", "require", "row", "delete"}
    /\ StepsOf("set_override") = {"channel", "require", "target", "write"}
    /\ StepsOf("delete_override") = {"channel", "require", "write"}
    /\ StepsOf("create_invite") = {"require", "write"}
    /\ StepsOf("revoke_invite") = {"require", "write"}
    /\ StepsOf("list_invites") = {"gate", "page"} /\ StepsOf("list_audit") = {"gate", "page"}
  BY DEF StepsOf

-----------------------------------------------------------------------------
(* Types are kept.                                                         *)

\* The type invariant follows from the types table by table.
LEMMA TypesImplied ==
    ASSUME TypedInv
    PROVE  AdminTypeOK
  <1>1. \A r \in Requests : req[r].kind \in AccountKinds =>
            req[r].step \in AccountSteps /\ req[r].held \subseteq Locks
    BY StepTable DEF TypedInv, Formed, AccountKinds, AccountSteps, Reads, SessionReads,
                     DirectoryReads
  <1>2. TypeOK
    BY <1>1 DEF TypedInv, Tables, AccountTables, Formed, TypeOK
  <1>3. RoomsTypeOK
    BY <1>2 DEF TypedInv, Tables, RoomTables, Sized, Throttle, RoomsTypeOK
  <1> QED
    BY <1>3 DEF TypedInv, Tables, AdminTables, ChannelTables, Overriding, Formed, AdminTypeOK

\* The variables of the tables.
tableVars == <<users, wallets, sessions, revoked_by, devices, members, bans, conversations,
               slots, signals, now, name, channels, overrides, invites>>

\* The audit stays or grows, and no channel goes.
Grows ==
    /\ Listed(trail') /\ Len(trail) \in Nat /\ Len(trail') \in Nat
    /\ Len(trail) <= Len(trail')
    /\ \A c : channels[c] # None => channels'[c] # None

\* Nothing is told.
LEMMA TrailKept ==
    ASSUME TypedInv, UNCHANGED <<trail, channels>>
    PROVE  Grows
  <1>1. Listed(trail')
    BY DEF TypedInv, Listed
  <1>2. Len(trail) \in Nat
    BY OneMore DEF TypedInv
  <1> QED
    BY <1>1, <1>2 DEF Grows

\* One row is told.
LEMMA TrailGrows ==
    ASSUME TypedInv, NEW e, trail' = Append(trail, e),
           \A c : channels[c] # None => channels'[c] # None
    PROVE  Grows
  BY OneMore DEF TypedInv, Grows

\* What a request holds is its own.
LEMMA FormedOthers ==
    ASSUME TypedInv, NEW r \in Requests, NEW q \in Requests \ {r}, Moves(r), Grows
    PROVE  Formed(q)'
  BY DEF TypedInv, Moves, Grows, Formed

\* A step of one request.
LEMMA TypedStep ==
    ASSUME TypedInv, NEW r \in Requests, Moves(r), Formed(r)', Tables', Grows
    PROVE  TypedInv'
  BY FormedOthers DEF TypedInv, Grows

\* The tables stay.
LEMMA TablesKept ==
    ASSUME TypedInv, UNCHANGED tableVars
    PROVE  Tables'
  BY DEF TypedInv, tableVars, Tables, AccountTables, RoomTables, Sized, Throttle, AdminTables,
         ChannelTables, Overriding

\* The answer of a call over, or of one that never was.
LEMMA FormedEnd ==
    ASSUME AdminInv, TypedInv, NEW r \in Requests, Grows, End(r),
           UNCHANGED ask \/ \E answer : Reply(r, answer)
    PROVE  Moves(r) /\ Formed(r)'
  <1>1. AskKept(r) /\ Moves(r)
    BY AskUnchanged, ReplyEffect, EndEffect DEF AdminInv
  <1>2. req'[r] = Done
    BY DEF AdminInv, Shape, End
  <1>3. /\ Done.kind = "none" /\ Done.step = "done" /\ Done.session = None /\ Done.held = {}
    BY DEF Done, Blank
  <1>4. DOMAIN ask'[r] = AskFields /\ ask'[r].began = ask[r].began
    BY DEF AdminInv, Shape, Reply, NoAsk, AskFields, TypedInv, Formed
  <1>5. ask'[r].began \in Nat /\ ask'[r].began <= Len(trail')
    BY <1>4 DEF TypedInv, Formed, Grows
  <1> QED
    BY <1>1, <1>2, <1>3, <1>4, <1>5, StepTable
       DEF Formed, Kinds, AdminKinds, ChannelCalls, Naming, AccountKinds

\* A call that is over, with its change or without.
LEMMA EndTyped ==
    ASSUME AdminInv, TypedInv, NEW r \in Requests, Grows, End(r), Tables',
           UNCHANGED ask \/ \E answer : Reply(r, answer)
    PROVE  TypedInv'
  BY FormedEnd, TypedStep

\* A call of Accounts goes on.
LEMMA AccountGoesOn ==
    ASSUME AdminInv, TypedInv, NEW r \in Requests, Moves(r), SameCall(r), UNCHANGED ask, Grows,
           req[r].kind \in AccountKinds, req'[r].step \in StepsOf(req[r].kind),
           req'[r].held \subseteq Locks, Tables'
    PROVE  TypedInv'
  <1>1. req[r].kind \notin AdminKinds \cup {"typing", "dm", "group"}
    BY DEF AdminKinds, ChannelCalls, AccountKinds, Reads, SessionReads, DirectoryReads
  <1>2. Formed(r)'
    BY <1>1 DEF TypedInv, Formed, SameCall, Grows, AdminKinds, ChannelCalls, Naming
  <1> QED
    BY <1>2, TypedStep

-----------------------------------------------------------------------------
(* Types: the calls of Accounts.                                           *)

\* The row that a revocation locks next is one of its own, the least.
LEMMA NextRowIs ==
    ASSUME AdminInv, NEW r \in Requests, req[r].kind = "revoke", Unlocked(r) # {}
    PROVE  /\ NextRow(r) \in Unlocked(r) /\ NextRow(r) \in SessionIds
           /\ Unlocked(r) \subseteq SessionIds
           /\ \A t \in Unlocked(r) : NextRow(r) <= t
  <1>1. /\ req[r].session \in SessionIds /\ req[r].target \in SessionIds
        /\ SessionIds \subseteq Int
    BY DEF AdminInv, Sure, CallerSure, RevokerSure, Guarded, SessionIds
  <1>2. Unlocked(r) \subseteq {req[r].session, req[r].target}
    BY DEF Unlocked, Owned
  <1>3. \E s \in Unlocked(r) : \A t \in Unlocked(r) : s <= t
    <2>1. ASSUME NEW a \in Int, NEW b \in Int, NEW S \in SUBSET {a, b}, S # {}
          PROVE  \E s \in S : \A t \in S : s <= t
      <3>1. CASE a \in S /\ a <= b
        BY <3>1
      <3>2. CASE a \in S /\ ~(a <= b)
        <4>1. b <= a
          BY <3>2
        <4> QED
          BY <3>2, <4>1
      <3>3. CASE a \notin S
        <4>1. b \in S
          BY <2>1, <3>3
        <4>2. \A t \in S : t = b
          BY <3>3
        <4> QED
          BY <4>1, <4>2
      <3> QED
        BY <3>1, <3>2, <3>3
    <2> QED
      BY <1>1, <1>2, <2>1
  <1>4. NextRow(r) \in Unlocked(r) /\ \A t \in Unlocked(r) : NextRow(r) <= t
    BY <1>3 DEF NextRow
  <1> QED
    BY <1>1, <1>2, <1>4

\* Steps of a session's call that touch no table.
LEMMA AuthorisedTyped ==
    ASSUME AdminInv, TypedInv, NEW r \in Requests, UNCHANGED <<roomVars, adminVars>>,
           \/ LockOwned(r) \/ CheckCaller(r) \/ LockSession(r) \/ LockMember(r) \/ CheckReader(r)
           \/ Read(r) \/ Lose(r)
           \/ \E h \in Handles, right \in BOOLEAN : LoginRefused(r, h, right)
    PROVE  TypedInv'
  <1>1. Tables' /\ Grows /\ UNCHANGED ask
    <2>1. UNCHANGED <<tableVars, trail, ask>>
      BY DEF LockOwned, CheckCaller, LockSession, LockMember, CheckReader, Read, Lose,
             LoginRefused, accountVars, roomVars, adminVars, tables, tableVars
    <2> QED
      BY <2>1, TablesKept, TrailKept DEF tableVars
  <1>2. CASE End(r)
    BY <1>1, <1>2, EndTyped
  <1>3. CASE ~End(r)
    <2>1. AskKept(r)
      BY <1>1, AskUnchanged DEF AdminInv
    <2>2. req[r].kind \in Reads \cup {"revoke"} /\ req[r].kind \in AccountKinds
      BY <1>3 DEF LockOwned, CheckCaller, LockSession, LockMember, CheckReader, Read, Lose,
                  LoginRefused, Serves, Reads, AccountKinds
    <2>3. /\ req[r].held \subseteq Locks /\ Locks # {}
          /\ req[r].session \in SessionIds /\ req[r].user \in Users
      <3>1. req[r].kind # "none" /\ req[r].session \in SessionIds
        BY <2>2 DEF TypedInv, Formed, AdminInv, Sure, CallerSure, Guarded, Reads, SessionReads,
                    DirectoryReads
      <3>2. req[r].held \subseteq Locks /\ req[r].user \in Users
        BY <2>2, <3>1 DEF TypedInv, Formed
      <3>3. Share(MemberRow(req[r].user)) \in Locks
        BY <3>2 DEF Locks, Share, MemberRow
      <3> QED
        BY <3>1, <3>2, <3>3
    <2>4. /\ Moves(r) /\ SameCall(r)
          /\ req'[r].step \in StepsOf(req[r].kind)
          /\ \E lock \in Locks : req'[r].held \subseteq req[r].held \cup {lock}
      <3>1. CASE LockOwned(r)
        <4>1. Update(SessionRow(NextRow(r))) \in Locks
          BY <3>1, NextRowIs DEF LockOwned, Serves, Locks, Update, SessionRow
        <4>2. Take(r, Update(SessionRow(NextRow(r))), "lock") /\ req[r].kind = "revoke"
          BY <3>1 DEF LockOwned, Serves
        <4> QED
          BY <2>1, <4>1, <4>2, TakeEffect, StepTable DEF AdminInv
      <3>2. CASE CheckCaller(r)
        <4>1. To(r, "revoke") /\ req[r].kind = "revoke"
          BY <1>3, <3>2 DEF CheckCaller, Serves
        <4> QED
          BY <2>1, <2>3, <4>1, ToEffect, StepTable DEF AdminInv, Locks
      <3>3. CASE LockSession(r)
        <4>1. Share(SessionRow(req[r].session)) \in Locks
          BY <2>3 DEF Locks, Share, SessionRow
        <4>2. /\ req[r].kind \in SessionReads
              /\ Take(r, Share(SessionRow(req[r].session)),
                      IF req[r].kind = "sessions" THEN "check" ELSE "member")
          BY <1>3, <3>3 DEF LockSession, Serves
        <4> QED
          BY <2>1, <4>1, <4>2, TakeEffect, StepTable DEF AdminInv, SessionReads
      <3>4. CASE LockMember(r)
        <4>1. Share(MemberRow(req[r].user)) \in Locks
          BY <2>3 DEF Locks, Share, MemberRow
        <4>2. req[r].kind \in DirectoryReads
          BY <3>4 DEF LockMember
        <4> QED
          BY <1>1, <3>4, <4>1, <4>2, LockMemberEffect, StepTable DEF AdminInv, DirectoryReads
      <3>5. CASE CheckReader(r)
        <4>1. To(r, "read") /\ req[r].kind \in Reads
          BY <1>3, <3>5 DEF CheckReader
        <4> QED
          BY <2>1, <2>3, <4>1, ToEffect, StepTable
             DEF AdminInv, Reads, SessionReads, DirectoryReads, Locks
      <3> QED
        BY <1>3, <3>1, <3>2, <3>3, <3>4, <3>5 DEF Read, Lose, LoginRefused
    <2>5. req'[r].held \subseteq Locks
      BY <2>3, <2>4
    <2> QED
      BY <1>1, <2>2, <2>4, <2>5, AccountGoesOn
  <1> QED
    BY <1>2, <1>3

\* A call with a session comes in.
LEMMA BeginFormed ==
    ASSUME AdminInv, NEW r \in Requests, NEW kind, NEW step, NEW s \in SessionIds,
           NEW target, Begin(r, kind, step, s, target), AskKept(r)
    PROVE  /\ Moves(r) /\ req'[r].kind = kind /\ req'[r].step = step /\ req'[r].held = {}
           /\ req'[r].user = sessions[s].owner /\ req'[r].user \in Users
           /\ req'[r].session = s /\ req'[r].seen = {} /\ req'[r].target = target
  BY BeginMoves DEF AdminInv, Shape, Begin, Blank

\* The calls of Accounts come in.
LEMMA BeginAccountTyped ==
    ASSUME AdminInv, TypedInv, NEW r \in Requests, UNCHANGED <<roomVars, adminVars>>, BeginAny(r)
    PROVE  TypedInv'
  <1>1. PICK s, kind, step, target :
            /\ s \in SessionIds /\ kind \in AccountKinds \ {"none"}
            /\ Begin(r, kind, step, s, target) /\ step \in StepsOf(kind)
    BY StepTable DEF BeginAny, AccountKinds, Reads, SessionReads, DirectoryReads
  <1>2. UNCHANGED <<tableVars, trail, ask>>
    BY <1>1 DEF Begin, accountVars, roomVars, adminVars, tables, tableVars
  <1>3. Tables' /\ Grows /\ AskKept(r)
    BY <1>2, TablesKept, TrailKept, AskUnchanged DEF AdminInv, tableVars
  <1>4. kind \notin AdminKinds \cup {"typing", "dm", "group"} /\ kind \in Kinds
    BY <1>1 DEF AdminKinds, ChannelCalls, AccountKinds, Reads, SessionReads, DirectoryReads, Kinds
  <1>5. /\ Moves(r) /\ req'[r].kind = kind /\ req'[r].step = step /\ req'[r].held = {}
        /\ req'[r].user \in Users /\ req'[r].session \in SessionIds
    BY <1>1, <1>3, <1>4, BeginFormed
  <1>6. Formed(r)'
    BY <1>1, <1>2, <1>3, <1>4, <1>5
       DEF Formed, TypedInv, Grows, AdminKinds, ChannelCalls, Naming
  <1> QED
    BY <1>3, <1>5, <1>6, TypedStep

\* A new account.
LEMMA RegisterTyped ==
    ASSUME AdminInv, TypedInv, NEW r \in Requests, UNCHANGED <<roomVars, adminVars>>,
           NEW u \in Users, NEW h \in Handles, Register(r, u, h)
    PROVE  TypedInv'
  <1>1. Tables' /\ Grows /\ UNCHANGED ask
    <2>1. users' \in [Users -> Handles \cup {None}]
      BY DEF TypedInv, Tables, AccountTables, Register
    <2>2. AccountTables'
      BY <2>1 DEF TypedInv, Tables, AccountTables, Register
    <2> QED
      BY <2>2, TrailKept DEF TypedInv, Tables, RoomTables, Sized, Throttle, AdminTables,
             ChannelTables, Overriding, roomVars, adminVars, tables
  <1>2. CASE End(r)
    BY <1>1, <1>2, EndTyped
  <1>3. CASE ~End(r)
    <2>1. req' = [req EXCEPT ![r] = [Blank EXCEPT !.kind = "register", !.step = "wallet",
                                                  !.user = u]]
      BY <1>3 DEF Register
    <2>2. /\ DOMAIN req' = Requests /\ DOMAIN req'[r] = Fields
          /\ \A q \in Requests \ {r} : req'[q] = req[q]
          /\ req'[r].held = {} /\ req'[r].kind = "register" /\ req'[r].step = "wallet"
          /\ req'[r].user = u /\ req'[r].session = None
      BY <2>1 DEF AdminInv, Shape, Blank, Fields
    <2>3. Moves(r)
      BY <1>1, <2>2, AskUnchanged DEF AdminInv, Moves, AskKept
    <2>4. Formed(r)'
      BY <1>1, <2>2, StepTable DEF TypedInv, Formed, Grows, AdminKinds, ChannelCalls, Naming,
                                   AccountKinds, Kinds
    <2> QED
      BY <1>1, <2>3, <2>4, TypedStep
  <1> QED
    BY <1>2, <1>3

\* Steps that end with a change of accounts, sessions or devices.
LEMMA AccountEndTyped ==
    ASSUME AdminInv, TypedInv, NEW r \in Requests, UNCHANGED <<roomVars, adminVars>>, End(r),
           AccountTables'
    PROVE  TypedInv'
  <1>1. Tables' /\ Grows /\ UNCHANGED ask
    BY TrailKept DEF TypedInv, Tables, RoomTables, Sized, Throttle, AdminTables,
           ChannelTables, Overriding, roomVars, adminVars, tables
  <1> QED
    BY <1>1, EndTyped

\* A session is revoked by one: the row says by which.
LEMMA RevokedTyped ==
    ASSUME TypedInv, NEW s \in SessionIds, NEW by \in SessionIds, Revoked(s, by)
    PROVE  /\ sessions' \in [SessionIds -> Session]
           /\ revoked_by' \in [SessionIds -> SessionIds \cup {None}]
           /\ \A t \in SessionIds : sessions'[t].revoked <=> revoked_by'[t] # None
  <1>1. /\ sessions \in [SessionIds -> Session]
        /\ revoked_by \in [SessionIds -> SessionIds \cup {None}]
        /\ \A t \in SessionIds : sessions[t].revoked <=> revoked_by[t] # None
    BY DEF TypedInv, Tables, AccountTables
  <1>2. CASE sessions[s].revoked
    BY <1>1, <1>2 DEF Revoked
  <1>3. CASE ~sessions[s].revoked
    <2>1. /\ sessions' = [sessions EXCEPT ![s].revoked = TRUE]
          /\ revoked_by' = [revoked_by EXCEPT ![s] = by]
      BY <1>3 DEF Revoked
    <2>2. by # None
      BY NoneAssumption DEF SessionIds
    <2>3. /\ sessions' \in [SessionIds -> Session]
          /\ sessions'[s].revoked
          /\ \A t \in SessionIds \ {s} : sessions'[t].revoked = sessions[t].revoked
      BY <1>1, <2>1 DEF Session
    <2> QED
      BY <1>1, <2>1, <2>2, <2>3
  <1> QED
    BY <1>2, <1>3

\* Sessions and devices change.
LEMMA AccountsChangeTyped ==
    ASSUME AdminInv, TypedInv, NEW r \in Requests, UNCHANGED <<roomVars, adminVars>>,
           \/ EnsureWallet(r) \/ Logout(r) \/ RevokeTarget(r)
           \/ \E identity, agreement \in Keys : RegisterDevice(r, identity, agreement)
           \/ \E h \in Handles, right \in BOOLEAN, s \in SessionIds : Login(r, h, right, s)
    PROVE  TypedInv'
  <1> USE DEF TypedInv, Tables, AccountTables
  <1>1. CASE EnsureWallet(r)
    <2>1. req[r].user \in Users
      BY <1>1 DEF Formed, EnsureWallet, Serves
    <2>2. AccountTables' /\ End(r)
      BY <1>1, <2>1 DEF EnsureWallet
    <2> QED
      BY <2>2, AccountEndTyped
  <1>2. CASE Logout(r) \/ RevokeTarget(r)
    <2>1. PICK s \in SessionIds, by \in SessionIds : Revoked(s, by)
      BY <1>2 DEF AdminInv, Sure, CallerSure, RevokerSure, Logout, RevokeTarget, Serves, Guarded
    <2>2. UNCHANGED <<users, wallets, devices, members, bans>> /\ End(r)
      BY <1>2 DEF Logout, RevokeTarget
    <2>3. AccountTables'
      BY <2>1, <2>2, RevokedTyped
    <2> QED
      BY <2>2, <2>3, AccountEndTyped
  <1>3. CASE \E identity, agreement \in Keys : RegisterDevice(r, identity, agreement)
    <2>1. AccountTables' /\ End(r)
      BY <1>3 DEF RegisterDevice, Crypt!valid_verify_key, Crypt!valid_agreement_key
    <2> QED
      BY <2>1, AccountEndTyped
  <1>4. CASE \E h \in Handles, right \in BOOLEAN, s \in SessionIds : Login(r, h, right, s)
    <2>1. PICK s \in SessionIds, u \in Users : sessions' = [sessions EXCEPT ![s].owner = u]
      BY <1>4 DEF Login
    <2>2. /\ sessions' \in [SessionIds -> Session]
          /\ \A t \in SessionIds : sessions'[t].revoked = sessions[t].revoked
      BY <2>1 DEF Session
    <2>3. UNCHANGED <<users, wallets, revoked_by, devices, members, bans>> /\ End(r)
      BY <1>4 DEF Login
    <2>4. AccountTables'
      BY <2>2, <2>3
    <2> QED
      BY <2>3, <2>4, AccountEndTyped
  <1> QED
    BY <1>1, <1>2, <1>3, <1>4

\* A session expires.
LEMMA ExpireTyped ==
    ASSUME TypedInv, UNCHANGED <<roomVars, adminVars>>, NEW s \in SessionIds, Expire(s)
    PROVE  TypedInv'
  <1>1. /\ sessions' = [sessions EXCEPT ![s].expired = TRUE]
        /\ UNCHANGED <<users, wallets, revoked_by, devices, members, bans, req, ask, trail>>
    BY DEF Expire, adminVars
  <1>2. /\ sessions' \in [SessionIds -> Session]
        /\ \A t \in SessionIds : sessions'[t].revoked = sessions[t].revoked
    <2>1. sessions \in [SessionIds -> Session]
      BY DEF TypedInv, Tables, AccountTables
    <2>2. [sessions[s] EXCEPT !.expired = TRUE] \in Session
      BY <2>1 DEF Session
    <2>3. [sessions[s] EXCEPT !.expired = TRUE].revoked = sessions[s].revoked
      BY <2>1 DEF Session
    <2> QED
      BY <1>1, <2>1, <2>2, <2>3
  <1>3. AccountTables'
    BY <1>1, <1>2 DEF TypedInv, Tables, AccountTables
  <1>4. Tables'
    BY <1>3 DEF TypedInv, Tables, RoomTables, Sized, Throttle, AdminTables,
           ChannelTables, Overriding, roomVars, adminVars, tables
  <1> QED
    BY <1>1, <1>4 DEF TypedInv, Formed, Listed, adminVars, tables

-----------------------------------------------------------------------------
(* Types: the calls of Conversations.                                      *)

\* A call of Conversations that ends, or changes only itself.
LEMMA RoomEndTyped ==
    ASSUME AdminInv, TypedInv, NEW r \in Requests, UNCHANGED <<accountVars, adminVars>>, End(r),
           RoomTables', \A c \in ConversationIds : 
               conversations'[c].kind = "channel" <=> conversations[c].kind = "channel"
    PROVE  TypedInv'
  <1>1. Tables' /\ Grows /\ UNCHANGED ask
    BY TrailKept DEF TypedInv, Tables, AccountTables, AdminTables, ChannelTables, Overriding,
           accountVars, adminVars, tables
  <1> QED
    BY <1>1, EndTyped

\* The calls that list or read, and those that look for a dm.
LEMMA QuietRoomsTyped ==
    ASSUME AdminInv, TypedInv, NEW r \in Requests, UNCHANGED adminVars,
           \/ LockPair(r) \/ FindDm(r) \/ ListRows(r) \/ ListMembers(r) \/ ListProfiles(r)
           \/ CheckHistory(r) \/ ReadHistory(r)
    PROVE  TypedInv'
  <1>1. Tables' /\ Grows /\ UNCHANGED ask
    <2>1. UNCHANGED <<tableVars, trail, ask>>
      BY DEF LockPair, FindDm, ListRows, ListMembers, ListProfiles, CheckHistory, ReadHistory,
             accountVars, roomVars, adminVars, tables, tableVars
    <2> QED
      BY <2>1, TablesKept, TrailKept DEF tableVars
  <1>2. CASE End(r)
    BY <1>1, <1>2, EndTyped
  <1>3. CASE ~End(r)
    <2>1. AskKept(r)
      BY <1>1, AskUnchanged DEF AdminInv
    <2>2. req[r].kind \in {"dm", "rooms", "history"}
      BY <1>3 DEF LockPair, FindDm, ListRows, ListMembers, ListProfiles, CheckHistory, ReadHistory,
                  Serves
    <2>3. Moves(r) /\ SameCall(r) /\ req'[r].step \in StepsOf(req[r].kind)
      <3>1. CASE LockPair(r)
        BY <2>1, <3>1, TakeEffect, RoomStepTable DEF AdminInv, LockPair, Serves
      <3>2. CASE FindDm(r)
        BY <1>3, <2>1, <3>2, ToEffect, RoomStepTable DEF AdminInv, FindDm, Serves
      <3>3. CASE CheckHistory(r)
        BY <1>3, <2>1, <3>3, ToEffect, RoomStepTable DEF AdminInv, CheckHistory, Serves
      <3>4. CASE ListRows(r) \/ ListMembers(r)
        <4>1. PICK step \in {"members", "profiles"}, seen \in {RoomsOf(req[r].user)} \cup
                     {{<<c, conversations[c].kind, conversations[c].members>> :
                         c \in req[r].seen}} :
                 req' = [req EXCEPT ![r].step = step, ![r].seen = seen]
          BY <3>4 DEF AdminInv, Shape, Fields, ListRows, ListMembers
        <4>2. req[r].kind = "rooms"
          BY <3>4 DEF ListRows, ListMembers, Serves
        <4> QED
          BY <2>1, <4>1, <4>2, SeenEffect, RoomStepTable DEF AdminInv
      <3> QED
        BY <1>3, <3>1, <3>2, <3>3, <3>4 DEF ListProfiles, ReadHistory
    <2>4. req[r].kind \notin AdminKinds \cup AccountKinds \cup {"typing", "group"}
      BY <2>2 DEF AdminKinds, ChannelCalls, AccountKinds, Reads, SessionReads, DirectoryReads
    <2>5. Formed(r)'
      BY <1>1, <2>2, <2>3, <2>4 DEF TypedInv, Formed, SameCall, Grows, AdminKinds, ChannelCalls,
                                    Naming
    <2> QED
      BY <1>1, <2>3, <2>5, TypedStep
  <1> QED
    BY <1>2, <1>3

\* The calls of Conversations come in.
LEMMA BeginRoomTyped ==
    ASSUME AdminInv, TypedInv, NEW r \in Requests, UNCHANGED adminVars,
           BeginRoom(r) \/ NamedGroup(r)
    PROVE  TypedInv'
  <1>1. Tables' /\ Grows /\ UNCHANGED ask /\ AskKept(r)
    <2>1. UNCHANGED <<tableVars, trail, ask>>
      BY DEF BeginRoom, NamedGroup, BeginGroup, Begin, accountVars, roomVars, adminVars, tables,
             tableVars
    <2> QED
      BY <2>1, TablesKept, TrailKept, AskUnchanged DEF AdminInv, tableVars
  <1>2. /\ Moves(r) /\ req'[r].kind \in {"dm", "rooms", "history", "group"}
        /\ req'[r].step \in StepsOf(req'[r].kind)
        /\ req'[r].user \in Users /\ req'[r].session \in SessionIds
        /\ req'[r].kind = "dm" => req'[r].target \in Users
        /\ req'[r].seen \subseteq Users
    <2>1. CASE BeginRoom(r)
      <3>1. PICK s, kind, step, target :
                /\ s \in SessionIds /\ kind \in {"dm", "rooms", "history"}
                /\ Begin(r, kind, step, s, target) /\ step \in StepsOf(kind)
                /\ kind = "dm" => target \in Users
        BY <2>1, RoomStepTable DEF BeginRoom, Callers
      <3> QED
        BY <1>1, <3>1, BeginFormed
    <2>2. CASE NamedGroup(r)
      <3>1. PICK s \in Callers, named \in SUBSET Users :
                req' = [req EXCEPT ![r] = [Blank EXCEPT !.kind = "group", !.step = "create",
                           !.session = s, !.user = sessions[s].owner, !.seen = named]]
        BY <2>2 DEF NamedGroup, BeginGroup
      <3>2. s \in SessionIds /\ sessions[s].owner \in Users
        BY DEF Callers, Live, AdminInv, Shape, Session
      <3>3. /\ DOMAIN req' = Requests /\ DOMAIN req'[r] = Fields
            /\ \A q \in Requests \ {r} : req'[q] = req[q]
            /\ req'[r].held = {} /\ req'[r].kind = "group" /\ req'[r].step = "create"
            /\ req'[r].user = sessions[s].owner /\ req'[r].session = s /\ req'[r].seen = named
        BY <3>1 DEF AdminInv, Shape, Blank, Fields
      <3> QED
        BY <1>1, <3>2, <3>3, RoomStepTable DEF Moves, AskKept
    <2> QED
      BY <2>1, <2>2
  <1>3. req'[r].kind \in Kinds \ (AdminKinds \cup AccountKinds)
    BY <1>2 DEF AdminKinds, ChannelCalls, AccountKinds, Reads, SessionReads, DirectoryReads, Kinds
  <1>4. Formed(r)'
    BY <1>1, <1>2, <1>3 DEF TypedInv, Formed, Grows, AdminKinds, ChannelCalls, Naming
  <1> QED
    BY <1>1, <1>2, <1>4, TypedStep

\* One or two users are a dm, and two others with the creator a group.
LEMMA RoomSizes ==
    /\ \A a, b : Cardinality({a, b}) \in 1..2
    /\ \A S \in SUBSET Users : \A u \in Users \ S :
           ~(Cardinality(S) < 2) => Cardinality(S \cup {u}) > 2
  <1>1. ASSUME NEW a, NEW b
        PROVE  Cardinality({a, b}) \in 1..2
    <2>1. IsFiniteSet({a}) /\ Cardinality({a}) = 1
      BY FS_Singleton
    <2>2. CASE a = b
      BY <2>1, <2>2
    <2>3. CASE a # b
      <3>1. Cardinality({a} \cup {b}) = 2
        BY <2>1, <2>3, FS_AddElement
      <3>2. {a, b} = {a} \cup {b}
        OBVIOUS
      <3> QED
        BY <3>1, <3>2
    <2> QED
      BY <2>2, <2>3
  <1>2. ASSUME NEW S \in SUBSET Users, NEW u \in Users \ S, ~(Cardinality(S) < 2)
        PROVE  Cardinality(S \cup {u}) > 2
    <2>1. IsFiniteSet(S) /\ Cardinality(S) \in Nat
      BY UsersAssumption, FS_Subset, FS_CardinalityType
    <2>2. Cardinality(S \cup {u}) = Cardinality(S) + 1
      BY <2>1, FS_AddElement
    <2> QED
      BY <1>2, <2>1, <2>2
  <1> QED
    BY <1>1, <1>2

\* A conversation is inserted under an id not taken.
LEMMA InsertTyped ==
    ASSUME TypedInv, NEW c \in ConversationIds, NEW kind \in {"dm", "group", "channel"},
           NEW S \in SUBSET Users, Insert(c, kind, S),
           kind = "dm" => Cardinality(S) \in 1..2, kind = "group" => Cardinality(S) > 2
    PROVE  /\ conversations' \in [ConversationIds -> Conversation] /\ Sized'
           /\ conversations[c].kind = "none" /\ conversations'[c].kind = kind
           /\ \A d \in ConversationIds \ {c} : conversations'[d] = conversations[d]
  <1>1. conversations \in [ConversationIds -> Conversation] /\ Sized
    BY DEF TypedInv, Tables, RoomTables
  <1>2. /\ conversations[c].kind = "none"
        /\ conversations' = [conversations EXCEPT ![c] = [kind |-> kind, members |-> S]]
    BY DEF Insert
  <1>3. /\ conversations'[c] = [kind |-> kind, members |-> S]
        /\ \A d \in ConversationIds \ {c} : conversations'[d] = conversations[d]
        /\ conversations' \in [ConversationIds -> Conversation]
    BY <1>1, <1>2 DEF Conversation
  <1> QED
    BY <1>1, <1>2, <1>3 DEF Sized

\* A dm or a group is made.
LEMMA CreateTyped ==
    ASSUME AdminInv, TypedInv, NEW r \in Requests, UNCHANGED adminVars,
           CreateDm(r) \/ CreateGroup(r)
    PROVE  TypedInv'
  <1>1. End(r) /\ UNCHANGED <<accountVars, slots, signals, now>>
    BY DEF CreateDm, CreateGroup
  <1>2. \/ UNCHANGED conversations
        \/ \E c \in ConversationIds, kind \in {"dm", "group"}, S \in SUBSET Users :
              /\ Insert(c, kind, S)
              /\ kind = "dm" => Cardinality(S) \in 1..2
              /\ kind = "group" => Cardinality(S) > 2
    <2>1. CASE CreateDm(r)
      <3>1. req[r].user \in Users /\ req[r].target \in Users
        BY <2>1 DEF TypedInv, Formed, CreateDm, Serves
      <3>2. PICK c \in ConversationIds : Insert(c, "dm", {req[r].user, req[r].target})
        BY <2>1 DEF CreateDm
      <3>3. Cardinality({req[r].user, req[r].target}) \in 1..2
        BY RoomSizes
      <3>4. {req[r].user, req[r].target} \in SUBSET Users /\ "dm" # "group"
        BY <3>1
      <3> QED
        BY <3>2, <3>3, <3>4
    <2>2. CASE CreateGroup(r)
      <3> DEFINE others == req[r].seen \ {req[r].user}
      <3>1. req[r].user \in Users /\ req[r].seen \subseteq Users
        BY <2>2 DEF TypedInv, Formed, CreateGroup, Serves
      <3>2. CASE UNCHANGED conversations
        BY <3>2
      <3>3. CASE ~(Cardinality(others) < 2)
        <4>1. others \in SUBSET Users /\ req[r].user \in Users \ others
          BY <3>1
        <4>2. Cardinality(others \cup {req[r].user}) > 2
          <5> HIDE DEF others
          <5> QED
            BY <3>3, <4>1, RoomSizes
        <4>3. \E c \in ConversationIds : Insert(c, "group", others \cup {req[r].user})
          BY <2>2, <3>3 DEF CreateGroup
        <4>4. others \cup {req[r].user} \in SUBSET Users
          BY <3>1
        <4> HIDE DEF others
        <4> QED
          BY <4>2, <4>3, <4>4
      <3> QED
        BY <2>2, <3>2, <3>3 DEF CreateGroup
    <2> QED
      BY <2>1, <2>2
  <1>3. Throttle'
    BY <1>1 DEF TypedInv, Tables, RoomTables, Throttle
  <1>4. CASE UNCHANGED conversations
    BY <1>1, <1>3, <1>4, RoomEndTyped DEF TypedInv, Tables, RoomTables, Sized
  <1>5. CASE ~UNCHANGED conversations
    <2>1. PICK c \in ConversationIds, kind \in {"dm", "group"}, S \in SUBSET Users :
              /\ Insert(c, kind, S)
              /\ kind = "dm" => Cardinality(S) \in 1..2
              /\ kind = "group" => Cardinality(S) > 2
      BY <1>2, <1>5
    <2>2. RoomTables' /\ \A d \in ConversationIds :
              conversations'[d].kind = "channel" <=> conversations[d].kind = "channel"
      BY <1>3, <2>1, InsertTyped DEF RoomTables
    <2> QED
      BY <1>1, <2>2, RoomEndTyped
  <1> QED
    BY <1>4, <1>5

-----------------------------------------------------------------------------
(* Types: typing.                                                          *)

\* Seats come and go; the conversations keep their kinds, and the others their
\* participants.
LEMMA SeatsTyped ==
    ASSUME TypedInv, NEW S \in SUBSET Users,
           \/ conversations' = [d \in ConversationIds |->
                  IF conversations[d].kind # "channel" THEN conversations[d]
                  ELSE [conversations[d] EXCEPT !.members = @ \cup S]]
           \/ conversations' = [d \in ConversationIds |->
                  IF conversations[d].kind # "channel" THEN conversations[d]
                  ELSE [conversations[d] EXCEPT !.members = @ \ S]]
    PROVE  /\ conversations' \in [ConversationIds -> Conversation] /\ Sized'
           /\ \A d \in ConversationIds : conversations'[d].kind = conversations[d].kind
  <1>1. conversations \in [ConversationIds -> Conversation] /\ Sized
    BY DEF TypedInv, Tables, RoomTables
  <1>2. ASSUME NEW d \in ConversationIds
        PROVE  /\ conversations'[d] \in Conversation
               /\ conversations'[d].kind = conversations[d].kind
               /\ conversations[d].kind # "channel" => conversations'[d] = conversations[d]
    <2>1. conversations[d] \in Conversation
      BY <1>1
    <2>2. \A T \in SUBSET Users :
              /\ [conversations[d] EXCEPT !.members = T] \in Conversation
              /\ [conversations[d] EXCEPT !.members = T].kind = conversations[d].kind
      BY <2>1 DEF Conversation
    <2>3. conversations[d].members \cup S \in SUBSET Users
      BY <2>1 DEF Conversation
    <2>4. conversations[d].members \ S \in SUBSET Users
      BY <2>1 DEF Conversation
    <2> QED
      BY <2>1, <2>2, <2>3, <2>4
  <1>3. conversations' \in [ConversationIds -> Conversation]
    BY <1>2
  <1>4. Sized'
    BY <1>1, <1>2 DEF Sized
  <1> QED
    BY <1>2, <1>3, <1>4

\* A typist goes on with its call.
LEMMA TypistTyped ==
    ASSUME AdminInv, TypedInv, NEW r \in Requests, UNCHANGED <<accountVars, adminVars>>,
           Typing(r), Moves(r), SameCall(r), req'[r].step \in {"seat", "recipients", "publish"},
           req'[r].step = "publish" => req'[r].seen \subseteq Users, RoomTables',
           \A c \in ConversationIds :
               conversations'[c].kind = "channel" <=> conversations[c].kind = "channel"
    PROVE  TypedInv'
  <1>1. Tables' /\ Grows /\ UNCHANGED ask
    BY TrailKept DEF TypedInv, Tables, AccountTables, AdminTables, ChannelTables, Overriding,
           accountVars, adminVars, tables
  <1>2. req[r].kind \notin AdminKinds \cup AccountKinds /\ req[r].kind = "typing"
    BY DEF Typing, AdminKinds, ChannelCalls, AccountKinds, Reads, SessionReads, DirectoryReads
  <1>3. Formed(r)'
    BY <1>1, <1>2, RoomStepTable DEF TypedInv, Formed, SameCall, Grows, AdminKinds, ChannelCalls,
                                     Naming
  <1> QED
    BY <1>1, <1>3, TypedStep

\* The slots that stay are slots.
LEMMA SlotsFewer ==
    ASSUME TypedInv, slots' \subseteq slots, UNCHANGED <<signals, now>>
    PROVE  Throttle'
  BY DEF TypedInv, Tables, RoomTables, Throttle

\* A typist passes the gate or not.
LEMMA GateTyped ==
    ASSUME AdminInv, TypedInv, NEW r \in Requests, UNCHANGED adminVars, TypingGate(r)
    PROVE  TypedInv'
  <1>1. Typing(r) /\ AskKept(r) /\ UNCHANGED <<accountVars, signals, now>>
    BY AskUnchanged DEF AdminInv, TypingGate, Serves, Typing, adminVars
  <1>2. req[r].user \in Users
    BY <1>1 DEF TypedInv, Formed, Typing
  <1>3. /\ conversations' \in [ConversationIds -> Conversation] /\ Sized'
        /\ \A d \in ConversationIds : conversations'[d].kind = conversations[d].kind
    <2>1. CASE UNCHANGED conversations
      BY <2>1 DEF TypedInv, Tables, RoomTables, Sized
    <2>2. CASE conversations' = [d \in ConversationIds |->
                   IF conversations[d].kind # "channel" THEN conversations[d]
                   ELSE [conversations[d] EXCEPT !.members = @ \cup {req[r].user}]]
      <3>1. {req[r].user} \in SUBSET Users
        BY <1>2
      <3> QED
        BY <2>2, <3>1, SeatsTyped
    <2> QED
      BY <2>1, <2>2 DEF TypingGate
  <1>4. RoomTables' /\ \A d \in ConversationIds :
            conversations'[d].kind = "channel" <=> conversations[d].kind = "channel"
    <2>1. slots' \subseteq slots
      BY DEF TypingGate, Release
    <2> QED
      BY <1>1, <1>3, <2>1, SlotsFewer DEF RoomTables
  <1>5. CASE End(r)
    BY <1>1, <1>4, <1>5, RoomEndTyped
  <1>6. CASE To(r, "seat")
    <2>1. Moves(r) /\ SameCall(r) /\ req'[r].step = "seat"
      BY <1>1, <1>6, ToEffect DEF AdminInv
    <2> QED
      BY <1>1, <1>4, <2>1, TypistTyped
  <1> QED
    BY <1>5, <1>6 DEF TypingGate

\* The steps of a typist that change no conversation.
LEMMA SignalTyped ==
    ASSUME AdminInv, TypedInv, NEW r \in Requests, UNCHANGED adminVars,
           LockSeat(r) \/ ReadRecipients(r) \/ Publish(r) \/ LoseTyping(r)
    PROVE  TypedInv'
  <1>1. Typing(r) /\ AskKept(r) /\ UNCHANGED <<accountVars, conversations, now>>
    BY AskUnchanged DEF AdminInv, LockSeat, ReadRecipients, Publish, LoseTyping, Serves, Typing,
                        adminVars, roomVars
  <1>2. /\ req[r].user \in Users /\ req[r].target \in ConversationIds /\ req[r].at \in 0..MaxTime
        /\ req[r].step = "publish" => req[r].seen \subseteq Users
        /\ conversations[req[r].target].members \subseteq Users
    BY <1>1 DEF TypedInv, Formed, Typing, Tables, RoomTables, Conversation
  <1>3. Throttle'
    <2>1. CASE Publish(r)
      <3>1. [user |-> req[r].user, room |-> req[r].target, at |-> req[r].at,
             recipients |-> req[r].seen] \in Signal
        BY <1>2, <2>1 DEF Publish, Signal
      <3> QED
        BY <1>1, <2>1, <3>1 DEF Publish, TypedInv, Tables, RoomTables, Throttle
    <2>2. CASE ~Publish(r)
      <3>1. slots' \subseteq slots /\ UNCHANGED signals
        BY <2>2 DEF LockSeat, ReadRecipients, LoseTyping, Release, roomVars
      <3> QED
        BY <1>1, <3>1, SlotsFewer
    <2> QED
      BY <2>1, <2>2
  <1>4. RoomTables' /\ \A d \in ConversationIds :
            conversations'[d].kind = "channel" <=> conversations[d].kind = "channel"
    BY <1>1, <1>3 DEF TypedInv, Tables, RoomTables, Sized
  <1>5. CASE End(r)
    BY <1>1, <1>4, <1>5, RoomEndTyped
  <1>6. CASE Take(r, Share(SeatRow(req[r].target, req[r].user)), "recipients")
    <2>1. Moves(r) /\ SameCall(r) /\ req'[r].step = "recipients"
      BY <1>1, <1>6, TakeEffect DEF AdminInv
    <2> QED
      BY <1>1, <1>4, <2>1, TypistTyped
  <1>7. CASE ReadRecipients(r)
    <2>1. req' = [req EXCEPT ![r].seen = conversations[req[r].target].members,
                             ![r].step = "publish"]
      BY <1>7 DEF ReadRecipients
    <2>2. /\ Moves(r) /\ SameCall(r) /\ req'[r].step = "publish"
          /\ req'[r].seen = conversations[req[r].target].members
      BY <1>1, <2>1, SeenEffect DEF AdminInv
    <2> QED
      BY <1>1, <1>2, <1>4, <2>2, TypistTyped
  <1> QED
    BY <1>5, <1>6, <1>7 DEF LockSeat, Publish, LoseTyping

\* A slot for this account and room replaces the one it had.
LEMMA AdmittingTyped ==
    ASSUME TypedInv, NEW u \in Users, NEW c \in ConversationIds, Admitting(u, c),
           UNCHANGED <<signals, now>>
    PROVE  Throttle'
  <1> DEFINE new == [user |-> u, room |-> c, at |-> now]
  <1>1. PICK kept \in SUBSET slots : slots' = (kept \ SlotOf(u, c)) \cup {new}
    BY DEF Admitting
  <1>2. new \in Slot /\ new.user = u /\ new.room = c
    BY DEF TypedInv, Tables, RoomTables, Throttle, Slot
  <1>3. slots' \subseteq Slot
    BY <1>1, <1>2 DEF TypedInv, Tables, RoomTables, Throttle
  <1>4. ASSUME NEW x \in slots', NEW y \in slots', x.user = y.user, x.room = y.room
        PROVE  x = y
    <2>1. ASSUME NEW z \in slots', z # new
          PROVE  z \in slots /\ ~(z.user = u /\ z.room = c)
      <3>1. z \in slots /\ z \notin SlotOf(u, c)
        BY <1>1, <2>1
      <3> QED
        BY <3>1 DEF SlotOf
    <2>2. CASE x = new \/ y = new
      BY <1>2, <1>4, <2>1, <2>2
    <2>3. CASE x # new /\ y # new
      <3>1. x \in slots /\ y \in slots
        BY <2>1, <2>3
      <3> QED
        BY <1>4, <3>1 DEF TypedInv, Tables, RoomTables, Throttle
    <2> QED
      BY <2>2, <2>3
  <1> QED
    BY <1>3, <1>4 DEF TypedInv, Tables, RoomTables, Throttle

\* A typist is admitted or throttled.
LEMMA AdmitTyped ==
    ASSUME AdminInv, TypedInv, NEW r \in Requests, UNCHANGED adminVars,
           NEW s \in Callers, NEW c \in Known, Admit(r, s, c)
    PROVE  TypedInv'
  <1> DEFINE u == sessions[s].owner
  <1>1. UNCHANGED <<accountVars, conversations, signals, now, trail, ask>>
    BY DEF Admit, adminVars
  <1>2. AskKept(r) /\ s \in SessionIds /\ u \in Users /\ c \in ConversationIds
    BY <1>1, AskUnchanged DEF AdminInv, Shape, Session, Callers, Live, Known
  <1>3. CASE \E slot \in SlotOf(u, c) : Recent(slot)
    <2>1. RoomTables' /\ End(r)
      BY <1>1, <1>3 DEF Admit, TypedInv, Tables, RoomTables, Sized, Throttle
    <2> QED
      BY <1>1, <2>1, RoomEndTyped
  <1>4. CASE ~ \E slot \in SlotOf(u, c) : Recent(slot)
    <2>1. /\ Admitting(u, c)
          /\ req' = [req EXCEPT ![r] = [Blank EXCEPT !.kind = "typing", !.step = "gate",
                                 !.session = s, !.user = u, !.target = c, !.at = now]]
      BY <1>4 DEF Admit
    <2>2. /\ DOMAIN req' = Requests /\ DOMAIN req'[r] = Fields
          /\ \A q \in Requests \ {r} : req'[q] = req[q]
          /\ req'[r].kind = "typing" /\ req'[r].step = "gate"
          /\ req'[r].session = s /\ req'[r].user = u /\ req'[r].target = c
          /\ req'[r].at = now /\ req'[r].held = {}
      BY <2>1 DEF AdminInv, Shape, Blank, Fields
    <2>3. Moves(r)
      BY <1>2, <2>2 DEF Moves, AskKept
    <2>4. Throttle'
      BY <1>1, <1>2, <2>1, AdmittingTyped
    <2>5. Tables' /\ Grows
      BY <1>1, <2>4, TrailKept DEF TypedInv, Tables, AccountTables, RoomTables, Sized, AdminTables,
             ChannelTables, Overriding, accountVars, adminVars, tables
    <2>6. /\ "typing" \notin AdminKinds \cup AccountKinds \cup Naming
          /\ now \in 0..MaxTime
      BY DEF AdminKinds, ChannelCalls, AccountKinds, Reads, SessionReads, DirectoryReads, Naming,
             TypedInv, Tables, RoomTables, Throttle
    <2>7. Formed(r)'
      BY <1>1, <1>2, <2>2, <2>5, <2>6, RoomStepTable
         DEF TypedInv, Formed, Grows, Kinds, ChannelCalls
    <2> QED
      BY <2>3, <2>5, <2>7, TypedStep
  <1> QED
    BY <1>3, <1>4

\* The clock ticks.
LEMMA TickTyped ==
    ASSUME TypedInv, UNCHANGED adminVars, Tick
    PROVE  TypedInv'
  <1>1. now' = now + 1 /\ now < MaxTime
        /\ UNCHANGED <<accountVars, req, conversations, slots, signals, adminVars>>
    BY DEF Tick, avars
  <1>2. Throttle'
    BY <1>1, RoomsAssumption DEF TypedInv, Tables, RoomTables, Throttle
  <1>3. Tables'
    BY <1>1, <1>2 DEF TypedInv, Tables, AccountTables, RoomTables, Sized, AdminTables,
             ChannelTables, Overriding, accountVars, adminVars, tables
  <1> QED
    BY <1>1, <1>3 DEF TypedInv, Formed, Listed, adminVars, tables

-----------------------------------------------------------------------------
(* Types: the calls of a workspace.                                        *)

\* No kind of call is two.
LEMMA KindsApart ==
    /\ AdminKinds \cap (AccountKinds \cup {"dm", "group", "rooms", "history", "typing"}) = {}
    /\ ChannelCalls \subseteq AdminKinds /\ AdminKinds \subseteq Kinds
    /\ Naming \subseteq AdminKinds
  BY DEF AdminKinds, ChannelCalls, AccountKinds, Reads, SessionReads, DirectoryReads, Kinds, Naming

\* A call of the administration comes in.
LEMMA AdministerTyped ==
    ASSUME AdminInv, TypedInv, NEW r \in Requests, NEW s \in SessionIds,
           NEW kind \in AdminKinds, NEW step \in {"page", "view", "require", "gate", "channel"},
           NEW on, NEW value, step \in StepsOf(kind),
           kind = "add" => step = "gate",
           kind \in ChannelCalls => on \in ConversationIds,
           kind = "create_channel" => on = None,
           kind = "revoke_invite" => on \in InviteIds,
           kind = "set_override" => step = "channel",
           Administer(r, s, kind, step, on, value)
    PROVE  TypedInv'
  <1>1. Begin(r, kind, step, s, None)
    BY DEF Administer
  <1>2. UNCHANGED <<tableVars, trail>>
    BY <1>1 DEF Administer, Begin, accountVars, roomVars, tables, tableVars
  <1>3. Tables' /\ Grows /\ AskKept(r)
    BY <1>2, TablesKept, TrailKept DEF AdminInv, Shape, Administer, AskKept, tableVars
  <1>4. /\ Moves(r) /\ req'[r].kind = kind /\ req'[r].step = step /\ req'[r].session = s
        /\ req'[r].user = sessions[s].owner /\ req'[r].user \in Users
    BY <1>1, <1>3, BeginMoves DEF AdminInv
  <1>5. req'[r].seen = {}
    BY <1>1 DEF AdminInv, Shape, Begin, Blank, Fields
  <1>6. /\ DOMAIN ask'[r] = AskFields /\ ask'[r].caller = sessions[s].owner
        /\ ask'[r].on = on /\ ask'[r].began = Len(trail)
    BY DEF AdminInv, Shape, Administer, NoAsk, AskFields
  <1>7. Len(trail) \in Nat /\ Len(trail) <= Len(trail')
    BY <1>2, <1>3 DEF Grows
  <1>8. kind \notin AccountKinds \cup {"dm", "group", "rooms", "history", "typing", "none"}
    BY KindsApart DEF AccountKinds
  <1>9. Formed(r)'
    BY <1>4, <1>5, <1>6, <1>7, <1>8, KindsApart DEF Formed
  <1> QED
    BY <1>3, <1>4, <1>9, TypedStep

\* So do the calls of every route.
LEMMA RoutesTyped ==
    ASSUME AdminInv, TypedInv, NEW r \in Requests, NEW s \in Callers,
           \/ WorkspaceRoutes(r, s) \/ MemberRoutes(r, s) \/ ChannelRoutes(r, s)
           \/ OverrideRoutes(r, s) \/ InviteRoutes(r, s) \/ AuditRoute(r, s)
    PROVE  TypedInv'
  <1> DEFINE Suits(kind, step, on) ==
               /\ kind \in AdminKinds /\ step \in {"page", "view", "require", "gate", "channel"}
               /\ step \in StepsOf(kind)
               /\ kind = "add" => step = "gate"
               /\ kind \in ChannelCalls => on \in ConversationIds
               /\ kind = "create_channel" => on = None
               /\ kind = "revoke_invite" => on \in InviteIds
               /\ kind = "set_override" => step = "channel"
  <1>1. \E kind, step, on, value : Administer(r, s, kind, step, on, value) /\ Suits(kind, step, on)
    <2>1. Known \subseteq ConversationIds
      BY DEF Known
    <2>2. CASE WorkspaceRoutes(r, s) \/ MemberRoutes(r, s) \/ AuditRoute(r, s)
      BY <2>2, AdminStepTable DEF WorkspaceRoutes, MemberRoutes, AuditRoute, AdminKinds,
                                  ChannelCalls
    <2>3. CASE ChannelRoutes(r, s)
      BY <2>1, <2>3, AdminStepTable DEF ChannelRoutes, AdminKinds, ChannelCalls
    <2>4. CASE OverrideRoutes(r, s)
      BY <2>1, <2>4, AdminStepTable DEF OverrideRoutes, AdminKinds, ChannelCalls
    <2>5. CASE InviteRoutes(r, s)
      BY <2>5, AdminStepTable DEF InviteRoutes, AdminKinds, ChannelCalls
    <2> QED
      BY <2>2, <2>3, <2>4, <2>5
  <1>2. s \in SessionIds
    BY DEF Callers
  <1> QED
    BY <1>1, <1>2, AdministerTyped

\* An answer with no table changed.
LEMMA ReplyTyped ==
    ASSUME AdminInv, TypedInv, NEW r \in Requests, NEW answer, Reply(r, answer), Reading
    PROVE  TypedInv'
  <1>1. UNCHANGED <<tableVars, trail>> /\ End(r)
    BY DEF Reading, Reply, accountVars, roomVars, tables, tableVars
  <1>2. Tables' /\ Grows
    BY <1>1, TablesKept, TrailKept DEF tableVars
  <1> QED
    BY <1>1, <1>2, EndTyped

\* What the next step of a call needs of its arguments.
Suited(r) ==
    LET c == req[r]
        a == ask[r]
    IN  /\ c.kind = "add" /\ c.step \in {"require", "write"} =>
               a.on \in Users /\ a.value \in Roles
        /\ c.kind \in Naming /\ c.step \in {"write", "role", "snapshot", "row", "name"} =>
               a.value \in Names
        /\ c.kind = "set_override" /\ c.step = "write" => a.subject \in Subjects
        /\ c.kind = "create_channel" => c.seen \subseteq Users
        /\ c.kind = "rename_channel" /\ c.step = "name" =>
               Update(ChannelRow(a.on)) \in c.held /\ channels[a.on] # None
        /\ c.kind = "delete_channel" /\ c.step = "delete" => channels[a.on] # None

\* The arguments of a call stay, but for those that this step sets.
SameAsk(r) ==
    /\ AskKept(r) /\ DOMAIN ask'[r] = AskFields
    /\ ask'[r].caller = ask[r].caller /\ ask'[r].began = ask[r].began
    /\ req[r].kind # "add" => ask'[r].on = ask[r].on

\* A call of the administration goes on.
LEMMA AdminGoesOn ==
    ASSUME AdminInv, TypedInv, NEW r \in Requests, req[r].kind \in AdminKinds,
           Moves(r), SameCall(r), SameAsk(r), req'[r].step \in StepsOf(req[r].kind),
           Suited(r)', Tables', Grows
    PROVE  TypedInv'
  <1>1. req[r].kind \notin AccountKinds \cup {"dm", "group", "rooms", "history", "typing", "none"}
    BY KindsApart DEF AccountKinds
  <1>2. "add" \notin ChannelCalls
    BY DEF ChannelCalls
  <1>3. Formed(r)'
    BY <1>1, <1>2 DEF TypedInv, Formed, SameCall, SameAsk, Suited, Grows
  <1> QED
    BY <1>3, TypedStep

\* On to the next step with the same arguments, and no table changed.
LEMMA ToTyped ==
    ASSUME AdminInv, TypedInv, NEW r \in Requests, req[r].kind \in AdminKinds,
           NEW step \in StepsOf(req[r].kind), To(r, step), SameAsk(r), Reading,
           Suited(r)'
    PROVE  TypedInv'
  <1>1. UNCHANGED <<tableVars, trail>>
    BY DEF Reading, accountVars, roomVars, tables, tableVars
  <1>2. Tables' /\ Grows
    BY <1>1, TablesKept, TrailKept DEF tableVars
  <1>3. Moves(r) /\ SameCall(r) /\ req'[r].step = step
    BY ToEffect DEF AdminInv, SameAsk
  <1> QED
    BY <1>2, <1>3, AdminGoesOn

\* The arguments stay.
LEMMA AskSame ==
    ASSUME AdminInv, TypedInv, NEW r \in Requests, UNCHANGED ask
    PROVE  SameAsk(r)
  BY AskUnchanged DEF AdminInv, SameAsk, TypedInv, Formed

\* The gates of the reads and of the route that looks up a handle.
LEMMA GatesTyped ==
    ASSUME AdminInv, TypedInv, NEW r \in Requests,
           GetWorkspace(r) \/ GateBeforeLookup(r) \/ ListInvites(r) \/ ListAudit(r)
    PROVE  TypedInv'
  <1>1. Reading
    BY DEF GetWorkspace, GateBeforeLookup, ListInvites, ListAudit, Page
  <1>2. CASE \E answer : Reply(r, answer)
    BY <1>1, <1>2, ReplyTyped
  <1>3. CASE ~ \E answer : Reply(r, answer)
    <2>1. PICK step \in {"page", "handle"} :
              /\ To(r, step) /\ UNCHANGED ask
              /\ \/ step = "page" /\ req[r].kind \in {"get_workspace", "list_channels",
                                                     "list_invites", "list_audit"}
                 \/ step = "handle" /\ req[r].kind = "add"
      BY <1>3 DEF GetWorkspace, GateBeforeLookup, ListInvites, ListAudit, Page, OnOrOut, At
    <2>2. step \in StepsOf(req[r].kind) /\ req[r].kind \in AdminKinds
      BY <2>1, AdminStepTable DEF AdminKinds
    <2>3. SameAsk(r)
      BY <2>1, AskSame
    <2>4. SameCall(r) /\ req'[r].step = step
      BY <2>1, <2>3, ToEffect DEF AdminInv, SameAsk
    <2>5. Suited(r)'
      BY <2>1, <2>4 DEF Suited, SameCall, Naming
    <2> QED
      BY <1>1, <2>1, <2>2, <2>3, <2>5, ToTyped
  <1> QED
    BY <1>2, <1>3

\* The answers of the reads.
LEMMA PagesTyped ==
    ASSUME AdminInv, TypedInv, NEW r \in Requests,
           \/ ShowWorkspace(r) \/ ListWorkspaces(r) \/ ListChannels(r) \/ ListOverrides(r)
           \/ AnswerRename(r)
    PROVE  TypedInv'
  <1>1. PICK answer : Reply(r, answer) /\ Reading
    BY DEF ShowWorkspace, ListWorkspaces, ListChannels, ListOverrides, AnswerRename, Page
  <1> QED
    BY <1>1, ReplyTyped

\* A call is refused unread.
LEMMA MalformedTyped ==
    ASSUME AdminInv, TypedInv, NEW r \in Requests, Malformed(r)
    PROVE  TypedInv'
  <1>1. End(r) /\ UNCHANGED <<tableVars, trail, ask>>
    BY DEF Malformed, accountVars, roomVars, adminVars, tables, tableVars
  <1>2. Tables' /\ Grows
    BY <1>1, TablesKept, TrailKept DEF tableVars
  <1> QED
    BY <1>1, <1>2, EndTyped

\* The channel looked up, the handle resolved, the target of an override ranked.
LEMMA LooksTyped ==
    ASSUME AdminInv, TypedInv, NEW r \in Requests,
           GetChannel(r) \/ LookupHandle(r) \/ OverrideTarget(r)
    PROVE  TypedInv'
  <1>1. Reading
    BY DEF GetChannel, LookupHandle, OverrideTarget
  <1>2. CASE \E answer : Reply(r, answer)
    BY <1>1, <1>2, ReplyTyped
  <1>3. CASE GetChannel(r) /\ ~ \E answer : Reply(r, answer)
    <2>1. /\ req[r].kind \in ChannelCalls \ {"get_channel"}
          /\ To(r, IF req[r].kind = "list_overrides" THEN "page" ELSE "require")
          /\ \E value : ask' = [ask EXCEPT ![r].value = value]
      BY <1>3 DEF GetChannel, At
    <2>2. SameAsk(r)
      BY <2>1 DEF AdminInv, Shape, TypedInv, Formed, SameAsk, AskKept, AskFields
    <2>3. SameCall(r) /\ req'[r].step \in {"page", "require"}
      BY <2>1, <2>2, ToEffect DEF AdminInv, SameAsk
    <2>4. Suited(r)'
      BY <2>1, <2>3 DEF Suited, SameCall, Naming, ChannelCalls
    <2>5. (IF req[r].kind = "list_overrides" THEN "page" ELSE "require") \in StepsOf(req[r].kind)
      BY <2>1, AdminStepTable DEF ChannelCalls
    <2> QED
      BY <1>1, <2>1, <2>2, <2>4, <2>5, KindsApart, ToTyped
  <1>4. CASE LookupHandle(r) /\ ~ \E answer : Reply(r, answer)
    <2>1. PICK u \in Users, role \in Roles :
              To(r, "require") /\ ask' = [ask EXCEPT ![r].on = u, ![r].value = role]
      BY <1>4 DEF LookupHandle
    <2>2. req[r].kind = "add" /\ "require" \in StepsOf("add")
      BY <1>4, AdminStepTable DEF LookupHandle, At
    <2>3. SameAsk(r) /\ ask'[r].on = u /\ ask'[r].value = role
      BY <2>1, <2>2 DEF AdminInv, Shape, TypedInv, Formed, SameAsk, AskKept, AskFields
    <2>4. SameCall(r)
      BY <2>1, <2>3, ToEffect DEF AdminInv, SameAsk
    <2>5. Suited(r)'
      BY <2>2, <2>3, <2>4 DEF Suited, SameCall, Naming
    <2> QED
      BY <1>1, <2>1, <2>2, <2>3, <2>5, ToTyped DEF AdminKinds
  <1>5. CASE OverrideTarget(r) /\ ~ \E answer : Reply(r, answer)
    <2>1. PICK subject \in Subjects : To(r, "write") /\ ask' = [ask EXCEPT ![r].subject = subject]
      BY <1>5 DEF OverrideTarget
    <2>2. /\ req[r].kind = "set_override" /\ "write" \in StepsOf("set_override")
          /\ "set_override" \in AdminKinds
      BY <1>5, AdminStepTable, KindsApart DEF OverrideTarget, At, ChannelCalls
    <2>3. SameAsk(r) /\ ask'[r].subject = subject
      BY <2>1, <2>2 DEF AdminInv, Shape, TypedInv, Formed, SameAsk, AskKept, AskFields
    <2>4. SameCall(r)
      BY <2>1, <2>3, ToEffect DEF AdminInv, SameAsk
    <2>5. Suited(r)'
      BY <2>2, <2>3, <2>4 DEF Suited, SameCall, Naming
    <2> QED
      BY <1>1, <2>1, <2>2, <2>3, <2>5, ToTyped
  <1> QED
    BY <1>2, <1>3, <1>4, <1>5

\* The name or the role of a call is checked before its transaction.
LEMMA RequireTyped ==
    ASSUME AdminInv, TypedInv, NEW r \in Requests, Require(r)
    PROVE  TypedInv'
  <1>1. Reading
    BY DEF Require
  <1>2. CASE \E answer : Reply(r, answer)
    BY <1>1, <1>2, ReplyTyped
  <1>3. CASE ~ \E answer : Reply(r, answer)
    <2> DEFINE kind == req[r].kind
               actor == members[req[r].user]
    <2>1. PICK value \in Values(r) :
              /\ Objection(r, actor, value) = "ok"
              /\ req' = [req EXCEPT ![r].step = FirstStatement(kind), ![r].role = actor]
              /\ ask' = [ask EXCEPT ![r].value = value]
      BY <1>3 DEF Require
    <2>2. req[r].step = "require" /\ kind \in Kinds /\ req[r].step \in StepsOf(kind)
      BY DEF Require, TypedInv, Formed
    <2>3. kind \in {"rename", "add", "create_channel", "rename_channel", "delete_channel",
                    "set_override", "delete_override", "create_invite", "revoke_invite"}
      BY <2>2, StepTable, RoomStepTable, AdminStepTable
         DEF Kinds, AdminKinds, ChannelCalls, AccountKinds, Reads, SessionReads, DirectoryReads
    <2>4. FirstStatement(kind) \in StepsOf(kind) /\ kind \in AdminKinds
      BY <2>3, AdminStepTable DEF FirstStatement, AdminKinds, ChannelCalls
    <2>5. FirstStatement(kind) = IF kind = "create_channel" THEN "snapshot"
                                 ELSE IF kind = "set_override" THEN "target"
                                 ELSE IF kind \in {"rename_channel", "delete_channel"} THEN "row"
                                 ELSE "write"
      BY <2>3 DEF FirstStatement
    <2>6. /\ SameAsk(r) /\ ask'[r].value = value /\ ask'[r].on = ask[r].on
      BY <2>1 DEF AdminInv, Shape, TypedInv, Formed, SameAsk, AskKept, AskFields
    <2>7. /\ Moves(r) /\ SameCall(r) /\ req'[r].step = FirstStatement(kind)
          /\ req'[r].seen = req[r].seen
      BY <2>1, <2>6 DEF AdminInv, Shape, Moves, SameCall, SameAsk, AskKept, Fields
    <2>8. kind \in Naming => value \in Names
      BY <2>1 DEF Objection, CleanName
    <2>9. kind = "add" => ask[r].on \in Users /\ value \in Roles
      BY <2>1, <2>2 DEF Values, Naming, TypedInv, Formed
    <2>10. kind = "create_channel" => req[r].seen \subseteq Users
      BY DEF TypedInv, Formed
    <2>11. Suited(r)'
      BY <2>3, <2>5, <2>6, <2>7, <2>8, <2>9, <2>10 DEF Suited, SameCall
    <2>12. UNCHANGED <<tableVars, trail>>
      BY <1>1 DEF Reading, accountVars, roomVars, tables, tableVars
    <2>13. Tables' /\ Grows
      BY <2>12, TablesKept, TrailKept DEF tableVars
    <2> HIDE DEF kind
    <2> QED
      BY <2>4, <2>6, <2>7, <2>11, <2>13, AdminGoesOn DEF kind
  <1> QED
    BY <1>2, <1>3

\* The workspace gets another name.
LEMMA RenameWorkspaceTyped ==
    ASSUME AdminInv, TypedInv, NEW r \in Requests, RenameWorkspace(r)
    PROVE  TypedInv'
  <1>1. /\ req[r].kind = "rename" /\ req[r].step = "write" /\ To(r, "role")
        /\ name' = ask[r].value
        /\ UNCHANGED <<accountVars, roomVars, channels, overrides, invites, ask>>
    BY DEF RenameWorkspace, At
  <1>2. ask[r].value \in Names
    BY <1>1 DEF TypedInv, Formed, Naming
  <1>3. Grows
    BY <1>1, TrailGrows DEF RenameWorkspace, RecordAudit
  <1>4. Tables'
    BY <1>1, <1>2 DEF TypedInv, Tables, AccountTables, RoomTables, Sized, Throttle, AdminTables,
           ChannelTables, Overriding, accountVars, roomVars
  <1>5. SameAsk(r) /\ Moves(r) /\ SameCall(r) /\ req'[r].step = "role"
    BY <1>1, AskSame, ToEffect DEF AdminInv, SameAsk
  <1>6. Suited(r)'
    BY <1>1, <1>2, <1>5 DEF Suited, SameCall, Naming
  <1>7. "rename" \in AdminKinds /\ "role" \in StepsOf("rename")
    BY AdminStepTable DEF AdminKinds
  <1> QED
    BY <1>1, <1>3, <1>4, <1>5, <1>6, <1>7, AdminGoesOn

\* A change that is told, and the answer.
LEMMA ChangeTyped ==
    ASSUME AdminInv, TypedInv, NEW r \in Requests, NEW action, NEW on, NEW value,
           Change(r, action, on, value), Tables',
           \A c : channels[c] # None => channels'[c] # None
    PROVE  TypedInv'
  <1>1. Grows
    BY TrailGrows DEF Change, RecordAudit
  <1>2. Reply(r, "ok") /\ End(r)
    BY DEF Change, Reply
  <1> QED
    BY <1>1, <1>2, EndTyped

\* Members change, and seats with them.
LEMMA MembersTyped ==
    ASSUME TypedInv, members' \in [Users -> Roles \cup {None}], bans' \subseteq Users,
           UNCHANGED <<users, wallets, sessions, revoked_by, devices, slots, signals, now,
                       name, channels, invites>>,
           conversations' \in [ConversationIds -> Conversation], Sized',
           \A d \in ConversationIds : conversations'[d].kind = conversations[d].kind,
           overrides' \subseteq overrides
    PROVE  Tables'
  <1>1. AccountTables' /\ RoomTables'
    BY DEF TypedInv, Tables, AccountTables, RoomTables, Throttle
  <1>2. AdminTables'
    BY DEF TypedInv, Tables, AdminTables, ChannelTables, Overriding
  <1> QED
    BY <1>1, <1>2 DEF Tables

\* A member is added.
LEMMA AddMemberTyped ==
    ASSUME AdminInv, TypedInv, NEW r \in Requests, AddMember(r)
    PROVE  TypedInv'
  <1> DEFINE u == ask[r].on
  <1>1. CASE members[u] # None
    <2>1. Reply(r, "BadInput") /\ Reading
      BY <1>1 DEF AddMember, Reading, accountVars, roomVars
    <2> QED
      BY <2>1, ReplyTyped
  <1>2. CASE members[u] = None
    <2>1. /\ members' = [members EXCEPT ![u] = ask[r].value]
          /\ conversations' = Seated(u)
          /\ Change(r, "member.added", u, ask[r].value)
          /\ UNCHANGED <<users, wallets, sessions, revoked_by, devices, bans, slots, signals, now,
                         name, channels, overrides, invites>>
      BY <1>2 DEF AddMember, tables
    <2>2. u \in Users /\ ask[r].value \in Roles
      BY DEF AddMember, At, TypedInv, Formed
    <2>3. members' \in [Users -> Roles \cup {None}] /\ bans' \subseteq Users
      BY <2>1, <2>2 DEF TypedInv, Tables, AccountTables
    <2>4. {u} \in SUBSET Users
      BY <2>2
    <2>5. /\ conversations' \in [ConversationIds -> Conversation] /\ Sized'
          /\ \A d \in ConversationIds : conversations'[d].kind = conversations[d].kind
      BY <2>1, <2>4, SeatsTyped DEF Seated
    <2>6. Tables'
      BY <2>1, <2>3, <2>5, MembersTyped
    <2> QED
      BY <2>1, <2>6, ChangeTyped
  <1> QED
    BY <1>1, <1>2

\* A member is kicked or banned.
LEMMA DepartureTyped ==
    ASSUME AdminInv, TypedInv, NEW r \in Requests, NEW u \in Users, Departure(r, u)
    PROVE  TypedInv'
  <1>1. /\ End(r) /\ members' = [members EXCEPT ![u] = None]
        /\ bans' \subseteq bans \cup {u}
        /\ UNCHANGED <<users, wallets, sessions, revoked_by, devices, slots, signals, now,
                       name, channels, invites, ask>>
        /\ conversations' = Unseated(u)
        /\ overrides' \subseteq overrides
    BY DEF Departure, Depart, Kick, Ban
  <1>2. members' \in [Users -> Roles \cup {None}] /\ bans' \subseteq Users
    BY <1>1 DEF TypedInv, Tables, AccountTables
  <1>3. /\ conversations' \in [ConversationIds -> Conversation] /\ Sized'
        /\ \A d \in ConversationIds : conversations'[d].kind = conversations[d].kind
    <2>1. {u} \in SUBSET Users
      OBVIOUS
    <2> QED
      BY <1>1, <2>1, SeatsTyped DEF Unseated
  <1>4. Tables'
    BY <1>1, <1>2, <1>3, MembersTyped
  <1>5. Grows
    BY <1>1, TrailGrows DEF Departure, RecordAudit
  <1> QED
    BY <1>1, <1>4, <1>5, EndTyped

\* A member gets another role.
LEMMA PromotionTyped ==
    ASSUME AdminInv, TypedInv, NEW r \in Requests, NEW u \in Users, NEW role \in Roles,
           Promotion(r, u, role)
    PROVE  TypedInv'
  <1>1. /\ End(r) /\ members' = [members EXCEPT ![u] = role]
        /\ UNCHANGED <<users, wallets, sessions, revoked_by, devices, bans, roomVars,
                       tables, ask>>
    BY DEF Promotion, Promote, SetRole
  <1>2. members' \in [Users -> Roles \cup {None}] /\ bans' \subseteq Users
    BY <1>1 DEF TypedInv, Tables, AccountTables
  <1>3. UNCHANGED <<conversations, slots, signals, now, name, channels, overrides, invites>>
    BY <1>1 DEF roomVars, tables
  <1>4. Tables'
    BY <1>1, <1>2, <1>3 DEF TypedInv, Tables, AccountTables, RoomTables, Sized, Throttle,
           AdminTables, ChannelTables, Overriding
  <1>5. Grows
    BY <1>3, TrailGrows DEF Promotion, RecordAudit
  <1> QED
    BY <1>1, <1>4, <1>5, EndTyped

-----------------------------------------------------------------------------
(* Types: channels, overrides and invites.                                 *)

\* The members to seat are listed.
LEMMA SnapshotTyped ==
    ASSUME AdminInv, TypedInv, NEW r \in Requests, Snapshot(r)
    PROVE  TypedInv'
  <1>1. /\ req[r].kind = "create_channel" /\ UNCHANGED ask /\ Reading
    BY DEF Snapshot, At
  <1>2. /\ SameAsk(r) /\ Moves(r) /\ SameCall(r) /\ req'[r].step = "name"
        /\ req'[r].seen \subseteq Users
    <2>1. PICK seen \in SUBSET Users : req' = [req EXCEPT ![r].step = "name", ![r].seen = seen]
      BY DEF Snapshot
    <2>2. SameAsk(r) /\ AskKept(r)
      BY <1>1, AskSame DEF SameAsk
    <2>3. Moves(r) /\ SameCall(r) /\ req'[r].step = "name" /\ req'[r].seen = seen
      BY <2>1, <2>2, SeenEffect DEF AdminInv
    <2> QED
      BY <2>2, <2>3
  <1>3. req[r].step = "snapshot" /\ ask[r].value \in Names /\ UNCHANGED ask
    BY <1>1 DEF Snapshot, At, TypedInv, Formed, Naming
  <1>4. Suited(r)'
    BY <1>1, <1>2, <1>3 DEF Suited, SameCall
  <1>5. UNCHANGED <<tableVars, trail>>
    BY <1>1 DEF Reading, accountVars, roomVars, tables, tableVars
  <1>6. Tables' /\ Grows
    BY <1>5, TablesKept, TrailKept DEF tableVars
  <1>7. "create_channel" \in AdminKinds /\ "name" \in StepsOf("create_channel")
    BY AdminStepTable DEF AdminKinds
  <1> QED
    BY <1>1, <1>2, <1>4, <1>6, <1>7, AdminGoesOn

\* The rows of a channel are locked, for its new name or for its end.
LEMMA LocksTyped ==
    ASSUME AdminInv, TypedInv, NEW r \in Requests, LockChannel(r) \/ LockDoomed(r)
    PROVE  TypedInv'
  <1> DEFINE c == ask[r].on
  <1>1. Reading
    BY DEF LockChannel, LockDoomed
  <1>2. CASE \E answer : Reply(r, answer)
    BY <1>1, <1>2, ReplyTyped
  <1>3. UNCHANGED <<tableVars, trail>>
    BY <1>1 DEF Reading, accountVars, roomVars, tables, tableVars
  <1>4. Tables' /\ Grows /\ UNCHANGED channels
    BY <1>3, TablesKept, TrailKept DEF tableVars
  <1>5. CASE LockChannel(r) /\ ~ \E answer : Reply(r, answer)
    <2>1. /\ req[r].kind = "rename_channel" /\ req[r].step = "row" /\ channels[c] # None
          /\ Take(r, Update(ChannelRow(c)), "name") /\ UNCHANGED ask
      BY <1>5 DEF LockChannel, At
    <2>2. /\ SameAsk(r) /\ Moves(r) /\ SameCall(r) /\ req'[r].step = "name"
          /\ req'[r].held = req[r].held \cup {Update(ChannelRow(c))}
      BY <2>1, AskSame, TakeEffect DEF AdminInv, SameAsk
    <2>3. ask[r].value \in Names
      BY <2>1 DEF TypedInv, Formed, Naming
    <2>4. Suited(r)'
      BY <1>4, <2>1, <2>2, <2>3 DEF Suited, SameCall
    <2>5. "rename_channel" \in AdminKinds /\ "name" \in StepsOf("rename_channel")
      BY AdminStepTable DEF AdminKinds, ChannelCalls
    <2> QED
      BY <1>4, <2>1, <2>2, <2>4, <2>5, AdminGoesOn
  <1>6. CASE LockDoomed(r) /\ ~ \E answer : Reply(r, answer)
    <2>1. /\ req[r].kind = "delete_channel" /\ channels[c] # None
          /\ req' = [req EXCEPT ![r].held = DoomedRows(c), ![r].step = "delete"]
          /\ UNCHANGED ask /\ \A lock \in DoomedRows(c) : Free(r, lock)
      BY <1>6 DEF LockDoomed, At
    <2>2. SameAsk(r)
      BY <2>1, AskSame
    <2>3. /\ Moves(r) /\ SameCall(r) /\ req'[r].step = "delete"
      BY <2>1, <2>2 DEF AdminInv, Shape, Moves, SameCall, SameAsk, AskKept, Fields
    <2>4. Suited(r)'
      BY <1>4, <2>1, <2>3 DEF Suited, SameCall, Naming
    <2>5. "delete_channel" \in AdminKinds /\ "delete" \in StepsOf("delete_channel")
      BY AdminStepTable DEF AdminKinds, ChannelCalls
    <2> QED
      BY <1>4, <2>1, <2>2, <2>3, <2>4, <2>5, AdminGoesOn
  <1> QED
    BY <1>2, <1>5, <1>6

\* A channel is made.
LEMMA CreateChannelTyped ==
    ASSUME AdminInv, TypedInv, NEW r \in Requests, CreateChannel(r)
    PROVE  TypedInv'
  <1> DEFINE n == ask[r].value
  <1>1. UNCHANGED <<accountVars, slots, signals, now, name, overrides, invites>>
    BY DEF CreateChannel
  <1>2. CASE Reply(r, "BadInput") /\ UNCHANGED <<conversations, channels, trail>>
    BY <1>1, <1>2, ReplyTyped DEF Reading, roomVars, tables
  <1>3. CASE \E c \in Known :
              /\ Insert(c, "channel", req[r].seen)
              /\ channels' = [channels EXCEPT ![c] = n]
              /\ Change(r, "channel.created", c, n)
    <2>1. PICK c \in ConversationIds :
              /\ Insert(c, "channel", req[r].seen)
              /\ channels' = [channels EXCEPT ![c] = n]
              /\ Change(r, "channel.created", c, n)
      BY <1>3 DEF Known
    <2>2. n \in Names /\ n # None /\ req[r].seen \in SUBSET Users
      BY AdminAssumption DEF CreateChannel, At, TypedInv, Formed, Naming
    <2>3. /\ conversations' \in [ConversationIds -> Conversation] /\ Sized'
          /\ conversations[c].kind = "none" /\ conversations'[c].kind = "channel"
          /\ \A d \in ConversationIds \ {c} : conversations'[d] = conversations[d]
      BY <2>1, <2>2, InsertTyped
    <2>4. AccountTables' /\ RoomTables'
      BY <1>1, <2>3 DEF TypedInv, Tables, AccountTables, RoomTables, Throttle, accountVars
    <2>5. channels \in [ConversationIds -> Names \cup {None}]
      BY DEF TypedInv, Tables, AdminTables, ChannelTables
    <2>6. /\ channels' \in [ConversationIds -> Names \cup {None}] /\ channels'[c] = n
          /\ \A d \in ConversationIds \ {c} : channels'[d] = channels[d]
      BY <2>1, <2>2, <2>5
    <2>7. \A d : channels[d] # None => channels'[d] # None
      BY <2>1, <2>2, <2>5
    <2>8. ChannelTables'
      BY <1>1, <2>2, <2>3, <2>6 DEF TypedInv, Tables, AdminTables, ChannelTables
    <2>9. Overriding' /\ (invites \in [InviteIds -> {"none", "live", "revoked"}])'
      BY <1>1, <2>7 DEF TypedInv, Tables, AdminTables, Overriding
    <2> QED
      BY <2>1, <2>4, <2>7, <2>8, <2>9, ChangeTyped DEF Tables, AdminTables
  <1> QED
    BY <1>2, <1>3 DEF CreateChannel

\* The channel that is renamed is still there: its row is locked.
LEMMA RenameChannelTyped ==
    ASSUME AdminInv, TypedInv, NEW r \in Requests, RenameChannel(r)
    PROVE  TypedInv'
  <1> DEFINE c == ask[r].on
             n == ask[r].value
  <1>1. UNCHANGED <<accountVars, roomVars, name, overrides, invites>>
    BY DEF RenameChannel
  <1>2. CASE Reply(r, "BadInput") /\ UNCHANGED <<channels, trail>>
    BY <1>1, <1>2, ReplyTyped DEF Reading, tables
  <1>3. CASE channels' = [channels EXCEPT ![c] = n] /\ Change(r, "channel.renamed", c, n)
    <2>1. n \in Names /\ n # None /\ c \in ConversationIds /\ channels[c] # None
      BY AdminAssumption DEF RenameChannel, At, TypedInv, Formed, Naming, ChannelCalls
    <2>2. channels \in [ConversationIds -> Names \cup {None}]
      BY DEF TypedInv, Tables, AdminTables, ChannelTables
    <2>3. /\ channels' \in [ConversationIds -> Names \cup {None}] /\ channels'[c] = n
          /\ \A d \in ConversationIds \ {c} : channels'[d] = channels[d]
      BY <1>3, <2>1, <2>2
    <2>4. \A d : channels[d] # None => channels'[d] # None
      BY <1>3, <2>1, <2>2
    <2>5. AccountTables' /\ RoomTables'
      BY <1>1 DEF TypedInv, Tables, AccountTables, RoomTables, Sized, Throttle, accountVars,
                  roomVars
    <2>6. ChannelTables'
      BY <1>1, <2>1, <2>3 DEF TypedInv, Tables, AdminTables, ChannelTables, roomVars
    <2>7. Overriding' /\ (invites \in [InviteIds -> {"none", "live", "revoked"}])'
      BY <1>1, <2>4 DEF TypedInv, Tables, AdminTables, Overriding
    <2> QED
      BY <1>3, <2>4, <2>5, <2>6, <2>7, ChangeTyped DEF Tables, AdminTables
  <1> QED
    BY <1>2, <1>3 DEF RenameChannel

\* A channel that another call relies on is not the one that is deleted.
LEMMA DeletedAlone ==
    ASSUME AdminInv, TypedInv, NEW r \in Requests, NEW q \in Requests \ {r}, DeleteChannel(r),
           Moves(r), Listed(trail'), Len(trail) \in Nat, Len(trail') \in Nat,
           Len(trail) <= Len(trail')
    PROVE  Formed(q)'
  <1> DEFINE c == ask[r].on
  <1>1. /\ Update(ChannelRow(c)) \in req[r].held
        /\ channels' = [channels EXCEPT ![c] = None]
    BY DEF AdminInv, Sure, DeleterSure, DeleteChannel, At, DoomedRows
  <1>2. req'[q] = req[q] /\ ask'[q] = ask[q]
    BY DEF Moves
  <1>3. ASSUME \/ req[q].kind = "rename_channel" /\ req[q].step = "name"
               \/ req[q].kind = "delete_channel" /\ req[q].step = "delete"
        PROVE  channels'[ask[q].on] # None
    <2>1. /\ Update(ChannelRow(ask[q].on)) \in req[q].held
          /\ channels[ask[q].on] # None /\ ask[q].on \in ConversationIds
      BY <1>3 DEF AdminInv, Sure, DeleterSure, DoomedRows, TypedInv, Formed, ChannelCalls
    <2>2. ask[q].on # c
      BY <1>1, <2>1, HeldOnce DEF AdminInv
    <2>3. channels \in [ConversationIds -> Names \cup {None}]
      BY DEF TypedInv, Tables, AdminTables, ChannelTables
    <2> QED
      BY <1>1, <2>1, <2>2, <2>3
  <1> QED
    BY <1>2, <1>3 DEF TypedInv, Formed

\* A channel is deleted, with its overrides.
LEMMA DeleteChannelTyped ==
    ASSUME AdminInv, TypedInv, NEW r \in Requests, DeleteChannel(r)
    PROVE  TypedInv'
  <1> DEFINE c == ask[r].on
  <1>1. /\ UNCHANGED <<accountVars, slots, signals, now, name, invites>>
        /\ conversations' = [conversations EXCEPT ![c] = [kind |-> "gone", members |-> {}]]
        /\ channels' = [channels EXCEPT ![c] = None]
        /\ overrides' = {o \in overrides : o.channel # c}
        /\ Change(r, "channel.deleted", c, ask[r].value)
    BY DEF DeleteChannel
  <1>2. c \in ConversationIds
    BY DEF DeleteChannel, At, TypedInv, Formed, ChannelCalls
  <1>3. /\ Listed(trail') /\ Len(trail) \in Nat /\ Len(trail') \in Nat /\ Len(trail) <= Len(trail')
    BY <1>1, OneMore DEF TypedInv, Change, RecordAudit
  <1>4. End(r) /\ AskKept(r)
    BY <1>1, ReplyEffect DEF AdminInv, Change
  <1>5. Moves(r)
    BY <1>4, EndEffect DEF AdminInv
  <1>6. Formed(r)'
    <2>1. req'[r] = Done /\ Done.kind = "none" /\ Done.step = "done"
          /\ Done.session = None /\ Done.held = {}
      BY <1>4 DEF AdminInv, Shape, End, Done, Blank
    <2>2. DOMAIN ask'[r] = AskFields /\ ask'[r].began = ask[r].began
      BY <1>1 DEF AdminInv, Shape, Change, Reply, NoAsk, AskFields
    <2>3. ask'[r].began \in Nat /\ ask'[r].began <= Len(trail')
      BY <1>3, <2>2 DEF TypedInv, Formed
    <2> QED
      BY <2>1, <2>2, <2>3, StepTable DEF Formed, Kinds, AdminKinds, ChannelCalls, Naming,
                                         AccountKinds
  <1>7. \A q \in Requests : Formed(q)'
    BY <1>3, <1>5, <1>6, DeletedAlone
  <1>8. AccountTables'
    BY <1>1 DEF TypedInv, Tables, AccountTables, accountVars
  <1>9. /\ conversations \in [ConversationIds -> Conversation] /\ Sized
        /\ channels \in [ConversationIds -> Names \cup {None}]
    BY DEF TypedInv, Tables, RoomTables, AdminTables, ChannelTables
  <1>10. /\ conversations'[c] = [kind |-> "gone", members |-> {}] /\ channels'[c] = None
         /\ \A d \in ConversationIds \ {c} :
                conversations'[d] = conversations[d] /\ channels'[d] = channels[d]
    BY <1>1, <1>2, <1>9
  <1>11. /\ conversations' \in [ConversationIds -> Conversation]
         /\ channels' \in [ConversationIds -> Names \cup {None}]
    BY <1>1, <1>9 DEF Conversation
  <1>12. RoomTables'
    BY <1>1, <1>9, <1>10, <1>11 DEF TypedInv, Tables, RoomTables, Sized, Throttle
  <1>13. ChannelTables'
    BY <1>1, <1>10, <1>11 DEF TypedInv, Tables, AdminTables, ChannelTables
  <1>14. Overriding'
    <2>1. overrides' \subseteq overrides /\ \A o \in overrides' : o.channel # c
      BY <1>1
    <2>2. \A o \in overrides : o.channel \in ConversationIds
      BY DEF TypedInv, Tables, AdminTables, Overriding, Override
    <2> QED
      BY <1>10, <2>1, <2>2 DEF TypedInv, Tables, AdminTables, Overriding
  <1>15. Tables'
    BY <1>1, <1>8, <1>12, <1>13, <1>14 DEF TypedInv, Tables, AdminTables
  <1> QED
    BY <1>3, <1>7, <1>15 DEF TypedInv

\* A call that changes the overrides or the invites alone.
LEMMA VerdictTyped ==
    ASSUME TypedInv, UNCHANGED <<accountVars, roomVars, name, channels>>, Overriding',
           invites' \in [InviteIds -> {"none", "live", "revoked"}]
    PROVE  Tables'
  BY DEF TypedInv, Tables, AccountTables, RoomTables, Sized, Throttle, AdminTables, ChannelTables,
         accountVars, roomVars

\* A verdict replaces the one of its target.
LEMMA SetOverrideTyped ==
    ASSUME AdminInv, TypedInv, NEW r \in Requests, SetOverride(r)
    PROVE  TypedInv'
  <1> DEFINE c == ask[r].on
             t == ask[r].subject
  <1>1. UNCHANGED <<accountVars, roomVars, name, channels, invites>>
    BY DEF SetOverride
  <1>2. CASE Reply(r, "Database") /\ UNCHANGED <<overrides, trail>>
    BY <1>1, <1>2, ReplyTyped DEF Reading, tables
  <1>3. CASE channels[c] # None /\ \E allow \in BOOLEAN :
              /\ overrides' = (overrides \ OverridesOf(c, t)) \cup
                                {[channel |-> c, target |-> t, allowed |-> allow]}
              /\ Change(r, "channel.override_set", c, allow)
    <2>1. PICK allow \in BOOLEAN :
              /\ overrides' = (overrides \ OverridesOf(c, t)) \cup
                                {[channel |-> c, target |-> t, allowed |-> allow]}
              /\ Change(r, "channel.override_set", c, allow)
      BY <1>3
    <2> DEFINE new == [channel |-> c, target |-> t, allowed |-> allow]
    <2>2. c \in ConversationIds /\ t \in Subjects
      BY DEF SetOverride, At, TypedInv, Formed, ChannelCalls
    <2>3. new \in Override /\ new.channel = c /\ new.target = t
      BY <2>2 DEF Override
    <2>4. ASSUME NEW o \in overrides', o # new
          PROVE  o \in overrides /\ ~(o.channel = c /\ o.target = t)
      <3>1. o \in overrides /\ o \notin OverridesOf(c, t)
        BY <2>1, <2>4
      <3> QED
        BY <3>1 DEF OverridesOf
    <2>5. overrides \subseteq Override
      BY DEF TypedInv, Tables, AdminTables, Overriding
    <2>6. overrides' \subseteq Override
      BY <2>3, <2>4, <2>5
    <2>7. ASSUME NEW o \in overrides', NEW p \in overrides',
                 o.channel = p.channel, o.target = p.target
          PROVE  o = p
      <3>1. CASE o = new \/ p = new
        BY <2>3, <2>4, <2>7, <3>1
      <3>2. CASE o # new /\ p # new
        BY <2>4, <2>7, <3>2 DEF TypedInv, Tables, AdminTables, Overriding
      <3> QED
        BY <3>1, <3>2
    <2>8. \A o \in overrides' : channels'[o.channel] # None
      <3> SUFFICES ASSUME NEW o \in overrides'
                   PROVE  channels[o.channel] # None
        BY <1>1
      <3>1. CASE o = new
        BY <1>3, <2>3, <3>1
      <3>2. CASE o # new
        BY <2>4, <3>2 DEF TypedInv, Tables, AdminTables, Overriding
      <3> QED
        BY <3>1, <3>2
    <2>9. Overriding'
      BY <2>6, <2>7, <2>8 DEF Overriding
    <2>10. invites' \in [InviteIds -> {"none", "live", "revoked"}]
      BY <1>1 DEF TypedInv, Tables, AdminTables
    <2>11. Tables' /\ \A d : channels[d] # None => channels'[d] # None
      BY <1>1, <2>9, <2>10, VerdictTyped
    <2> QED
      BY <2>1, <2>11, ChangeTyped
  <1> QED
    BY <1>2, <1>3 DEF SetOverride

\* A verdict is dropped.
LEMMA DeleteOverrideTyped ==
    ASSUME AdminInv, TypedInv, NEW r \in Requests, DeleteOverride(r)
    PROVE  TypedInv'
  <1> DEFINE c == ask[r].on
  <1>1. UNCHANGED <<accountVars, roomVars, name, channels, invites>>
    BY DEF DeleteOverride
  <1>2. CASE Reply(r, "ok") /\ UNCHANGED <<overrides, trail>>
    BY <1>1, <1>2, ReplyTyped DEF Reading, tables
  <1>3. CASE overrides' \subseteq overrides /\ Change(r, "channel.override_removed", c, None)
    <2>1. Overriding' /\ invites' \in [InviteIds -> {"none", "live", "revoked"}]
      BY <1>1, <1>3 DEF TypedInv, Tables, AdminTables, Overriding
    <2>2. Tables' /\ \A d : channels[d] # None => channels'[d] # None
      BY <1>1, <2>1, VerdictTyped
    <2> QED
      BY <1>3, <2>2, ChangeTyped
  <1> QED
    BY <1>2, <1>3 DEF DeleteOverride

\* An invite is made or revoked.
LEMMA InvitesTyped ==
    ASSUME AdminInv, TypedInv, NEW r \in Requests, CreateInvite(r) \/ RevokeInvite(r)
    PROVE  TypedInv'
  <1>1. UNCHANGED <<accountVars, roomVars, name, channels, overrides>>
    BY DEF CreateInvite, RevokeInvite
  <1>2. CASE Reply(r, "NotMember") /\ UNCHANGED <<invites, trail>>
    BY <1>1, <1>2, ReplyTyped DEF Reading, tables
  <1>3. CASE \E i \in InviteIds, status \in {"live", "revoked"} : \E action, value :
                invites' = [invites EXCEPT ![i] = status] /\ Change(r, action, i, value)
    <2>1. PICK i \in InviteIds, status \in {"live", "revoked"} : \E action, value :
              invites' = [invites EXCEPT ![i] = status] /\ Change(r, action, i, value)
      BY <1>3
    <2>2. invites' \in [InviteIds -> {"none", "live", "revoked"}]
      BY <2>1 DEF TypedInv, Tables, AdminTables
    <2>3. Overriding'
      BY <1>1 DEF TypedInv, Tables, AdminTables, Overriding
    <2>4. Tables' /\ \A d : channels[d] # None => channels'[d] # None
      BY <1>1, <2>2, <2>3, VerdictTyped
    <2> QED
      BY <2>1, <2>4, ChangeTyped
  <1>4. RevokeInvite(r) => ask[r].on \in InviteIds
    BY DEF RevokeInvite, At, TypedInv, Formed
  <1> QED
    BY <1>2, <1>3, <1>4 DEF CreateInvite, RevokeInvite

-----------------------------------------------------------------------------
(* The types are those of every behaviour.                                 *)

\* Every step of the administration.
LEMMA AdminServeTyped ==
    ASSUME AdminInv, TypedInv, NEW r \in Requests, AdminServe(r)
    PROVE  TypedInv'
  BY RoutesTyped, LooksTyped, GatesTyped, RequireTyped, MalformedTyped, PagesTyped,
     RenameWorkspaceTyped, AddMemberTyped, SnapshotTyped, CreateChannelTyped, LocksTyped,
     RenameChannelTyped, DeleteChannelTyped, SetOverrideTyped, DeleteOverrideTyped, InvitesTyped,
     DepartureTyped, PromotionTyped
  DEF AdminServe

\* Every step of Conversations.
LEMMA RoomServeTyped ==
    ASSUME AdminInv, TypedInv, NEW r \in Requests, RoomServe(r), UNCHANGED adminVars
    PROVE  TypedInv'
  BY BeginRoomTyped, QuietRoomsTyped, CreateTyped, AdmitTyped, GateTyped, SignalTyped
  DEF RoomServe

\* Every step of Accounts.
LEMMA AccountServeTyped ==
    ASSUME AdminInv, TypedInv, NEW r \in Requests, AccountServe(r), UNCHANGED adminVars
    PROVE  TypedInv'
  <1>1. UNCHANGED <<roomVars, adminVars>>
    BY DEF AccountServe
  <1> QED
    BY <1>1, BeginAccountTyped, RegisterTyped, AuthorisedTyped, AccountsChangeTyped
       DEF AccountServe, Serve, Anonymous

\* Every step.
LEMMA TypedKept ==
    ASSUME AdminInv, TypedInv, [AdminNext]_allVars
    PROVE  TypedInv'
  <1>1. CASE AdminNext
    BY <1>1, AdminServeTyped, RoomServeTyped, AccountServeTyped, TickTyped, ExpireTyped
       DEF AdminNext, RoomsClock
  <1>2. CASE UNCHANGED allVars
    <2>1. UNCHANGED <<tableVars, trail, req, ask>>
      BY <1>2 DEF allVars, vars, avars, accountVars, roomVars, adminVars, tables, tableVars
    <2>2. Tables' /\ Grows /\ UNCHANGED channels
      BY <2>1, TablesKept, TrailKept DEF tableVars
    <2>3. \A r \in Requests : Formed(r)'
      BY <2>1, <2>2 DEF TypedInv, Formed
    <2> QED
      BY <2>2, <2>3 DEF TypedInv, Grows
  <1> QED
    BY <1>1, <1>2

\* The start.
LEMMA TypedInit ==
    ASSUME AdminInit
    PROVE  TypedInv
  <1>1. /\ req = [r \in Requests |-> Blank] /\ ask = [r \in Requests |-> NoAsk] /\ trail = <<>>
    BY DEF AdminInit, RoomsInit, Init
  <1>2. /\ \A r \in Requests : req[r] = Blank /\ ask[r] = NoAsk
        /\ Blank.kind = "none" /\ Blank.step = "idle" /\ Blank.session = None /\ Blank.held = {}
        /\ DOMAIN NoAsk = AskFields /\ NoAsk.began = 0
    BY <1>1 DEF Blank, NoAsk, AskFields
  <1>3. Len(trail) = 0 /\ Listed(trail)
    BY <1>1 DEF Listed
  <1>4. \A r \in Requests : Formed(r)
    BY <1>2, <1>3, StepTable DEF Formed, Kinds, AdminKinds, ChannelCalls, Naming, AccountKinds
  <1>5. AccountTables
    <2>1. /\ users = Handle0 /\ members = Role0 /\ bans = {} /\ devices = {}
          /\ wallets = {u \in Users : Handle0[u] # None}
          /\ sessions = [s \in SessionIds |-> [NoSession EXCEPT !.owner = Owner0[s]]]
          /\ revoked_by = [s \in SessionIds |-> None]
      BY DEF AdminInit, RoomsInit, Init
    <2>2. /\ sessions \in [SessionIds -> Session]
          /\ \A s \in SessionIds : ~sessions[s].revoked
      BY <2>1, DatabaseAssumption DEF NoSession, Session, SessionIds
    <2> QED
      BY <2>1, <2>2, DatabaseAssumption DEF AccountTables
  <1>6. /\ \A c \in ConversationIds :
              conversations[c] = IF c \notin Channels0 THEN NoConversation
                                 ELSE [kind |-> "channel",
                                       members |-> {u \in Users : Role0[u] # None}]
        /\ DOMAIN conversations = ConversationIds
        /\ slots = {} /\ signals = {} /\ now = 0
        /\ conversations = [c \in ConversationIds |-> conversations[c]]
    BY DEF AdminInit, RoomsInit
  <1>7. \A c \in ConversationIds :
            conversations[c] \in Conversation
            /\ conversations[c].kind = IF c \notin Channels0 THEN "none" ELSE "channel"
    BY <1>6 DEF NoConversation, Conversation
  <1>8. RoomTables
    <2>1. conversations \in [ConversationIds -> Conversation]
      BY <1>6, <1>7
    <2>2. Sized
      BY <1>7 DEF Sized
    <2> QED
      BY <1>6, <2>1, <2>2, RoomsAssumption DEF RoomTables, Throttle
  <1>9. AdminTables
    <2>1. /\ name = Name0 /\ overrides = {} /\ invites = [i \in InviteIds |-> "none"]
          /\ channels = [c \in ConversationIds |-> IF c \in Channels0 THEN Name0 ELSE None]
      BY DEF AdminInit
    <2>2. Name0 \in Names /\ Name0 # None
      BY AdminAssumption
    <2>3. ChannelTables
      BY <1>7, <2>1, <2>2 DEF ChannelTables
    <2> QED
      BY <2>1, <2>3 DEF AdminTables, Overriding
  <1> QED
    BY <1>3, <1>4, <1>5, <1>8, <1>9 DEF TypedInv, Tables

\* The types, with the grounds on which they are kept.
THEOREM AdminTyped == AdminSpec => [](AdminInv /\ TypedInv)
  <1>1. AdminInit => AdminInv /\ TypedInv
    BY AdminInitHolds, TypedInit
  <1>2. (AdminInv /\ TypedInv) /\ [AdminNext]_allVars => (AdminInv /\ TypedInv)'
    BY AdminNextKeeps, TypedKept
  <1> QED
    BY <1>1, <1>2, PTL DEF AdminSpec

\* Every variable of the administration, its rooms and accounts keeps its type,
\* an override has a channel and is one per target, a channel has a name while its
\* conversation is one, and a dm or group has the participants of its kind.
THEOREM AdminTypesCorrect == AdminSpec => []AdminTypeOK
  <1>1. AdminInv /\ TypedInv => AdminTypeOK
    BY TypesImplied
  <1> QED
    BY <1>1, AdminTyped, PTL

-----------------------------------------------------------------------------
(* The order of locks is kept.                                             *)

\* No session loses its owner.
OwnersKept ==
    \A s \in SessionIds : sessions[s].owner # None => sessions'[s].owner = sessions[s].owner

\* A request that begins or ends, or takes no row of a session or a member.
Gentle(r) ==
    /\ Moves(r)
    /\ \/ /\ req'[r].held = {}
          /\ req'[r].kind = "revoke" => sessions'[req'[r].target].owner # None
       \/ /\ req'[r].kind = req[r].kind /\ req[r].kind \notin Reads \cup {"revoke"}
          /\ \A l \in req'[r].held \ req[r].held :
                 /\ \A s \in SessionIds : l.row # SessionRow(s)
                 /\ \A u \in Users : l.row # MemberRow(u)

\* The locks of the other requests stay in order.
LEMMA OthersOrdered ==
    ASSUME AdminInv, LockOrder, NEW r \in Requests, Moves(r), OwnersKept,
           NEW q \in Requests \ {r}
    PROVE  Ordered(q)'
  <1>1. req'[q] = req[q] /\ Ordered(q)
    BY DEF Moves, LockOrder
  <1>2. CASE req[q].kind # "revoke"
    BY <1>1, <1>2 DEF Ordered, HoldsRow
  <1>3. CASE req[q].kind = "revoke"
    <2>1. /\ req[q].session \in SessionIds /\ req[q].target \in SessionIds
          /\ sessions[req[q].session].owner # None /\ sessions[req[q].target].owner # None
      BY <1>1, <1>3, NoneAssumption
         DEF Ordered, AdminInv, Sure, CallerSure, RevokerSure, Guarded
    <2>2. Owned(q)' = Owned(q)
      BY <1>1, <2>1 DEF Owned, OwnersKept
    <2>3. Unlocked(q)' = Unlocked(q)
      BY <1>1, <2>2 DEF Unlocked
    <2>4. sessions'[req[q].target].owner # None
      BY <2>1 DEF OwnersKept
    <2> QED
      BY <1>1, <2>3, <2>4 DEF Ordered, HoldsRow
  <1> QED
    BY <1>2, <1>3

\* A step of one request.
LEMMA OrderStep ==
    ASSUME AdminInv, LockOrder, NEW r \in Requests, Moves(r), OwnersKept, Ordered(r)'
    PROVE  LockOrder'
  BY OthersOrdered DEF LockOrder

\* A gentle step keeps the order.
LEMMA GentleKeeps ==
    ASSUME AdminInv, LockOrder, NEW r \in Requests, Gentle(r), OwnersKept
    PROVE  LockOrder'
  <1>1. CASE /\ req'[r].held = {}
             /\ req'[r].kind = "revoke" => sessions'[req'[r].target].owner # None
    <2>1. Ordered(r)'
      BY <1>1 DEF Ordered, HoldsRow
    <2> QED
      BY <2>1, OrderStep DEF Gentle
  <1>2. CASE /\ req'[r].kind = req[r].kind /\ req[r].kind \notin Reads \cup {"revoke"}
             /\ \A l \in req'[r].held \ req[r].held :
                    /\ \A s \in SessionIds : l.row # SessionRow(s)
                    /\ \A u \in Users : l.row # MemberRow(u)
    <2>1. \A row : Share(row).row = row /\ Update(row).row = row
      BY DEF Share, Update
    <2>2. \A s \in SessionIds : HoldsRow(r, SessionRow(s))' => HoldsRow(r, SessionRow(s))
      BY <1>2, <2>1 DEF HoldsRow
    <2>3. \A u \in Users : Update(MemberRow(u)) \in req'[r].held =>
              Update(MemberRow(u)) \in req[r].held
      BY <1>2, <2>1
    <2>4. Ordered(r)
      BY DEF LockOrder
    <2>5. Ordered(r)'
      BY <1>2, <2>2, <2>3, <2>4 DEF Ordered, Reads
    <2> QED
      BY <2>5, OrderStep DEF Gentle
  <1> QED
    BY <1>1, <1>2 DEF Gentle

\* A call that is over.
LEMMA EndGentle ==
    ASSUME AdminInv, NEW r \in Requests, End(r), AskKept(r)
    PROVE  Gentle(r)
  BY EndEffect DEF AdminInv, Gentle

\* The rows are told apart by their table.
LEMMA RowsApart ==
    /\ \A s \in SessionIds : \A t, u :
          /\ PairLock(t, u) # SessionRow(s) /\ SeatRow(t, u) # SessionRow(s)
          /\ ChannelRow(t) # SessionRow(s)
    /\ \A v \in Users : \A t, u :
          /\ PairLock(t, u) # MemberRow(v) /\ SeatRow(t, u) # MemberRow(v)
          /\ ChannelRow(t) # MemberRow(v)
    /\ \A row : Share(row).row = row /\ Update(row).row = row
  BY DEF PairLock, SessionRow, MemberRow, SeatRow, ChannelRow, Row, Share, Update

\* Every step of the administration is gentle.
LEMMA AdminGentle ==
    ASSUME AdminInv, TypedInv, NEW r \in Requests, AdminServe(r)
    PROVE  Gentle(r)
  <1>1. CASE \E s \in Callers :
               \/ WorkspaceRoutes(r, s) \/ MemberRoutes(r, s) \/ ChannelRoutes(r, s)
               \/ OverrideRoutes(r, s) \/ InviteRoutes(r, s) \/ AuditRoute(r, s)
    <2>1. PICK s, kind, step, on, value :
              /\ s \in SessionIds /\ kind \in AdminKinds
              /\ Administer(r, s, kind, step, on, value)
      BY <1>1 DEF WorkspaceRoutes, MemberRoutes, ChannelRoutes, OverrideRoutes, InviteRoutes,
                  AuditRoute, AdminKinds, ChannelCalls, Callers
    <2>2. Begin(r, kind, step, s, None) /\ AskKept(r)
      BY <2>1 DEF AdminInv, Shape, Administer, AskKept
    <2>3. req'[r].held = {}
      BY <2>2 DEF AdminInv, Shape, Begin, Blank, Fields
    <2> QED
      BY <2>1, <2>2, <2>3, BeginMoves, KindsApart DEF AdminInv, Gentle, AccountKinds
  <1>2. CASE \/ Malformed(r)
             \/ \E u \in Users : Departure(r, u) \/ \E role \in Roles : Promotion(r, u, role)
    <2>1. End(r) /\ UNCHANGED ask
      BY <1>2 DEF Malformed, Departure, Depart, Kick, Ban, Promotion, Promote, SetRole, adminVars
    <2> QED
      BY <2>1, AskUnchanged, EndGentle DEF AdminInv
  <1>3. CASE \E answer : Reply(r, answer)
    BY <1>3, ReplyEffect, EndGentle DEF AdminInv
  <1>4. CASE /\ ~ \E answer : Reply(r, answer)
             /\ \/ GetChannel(r) \/ GetWorkspace(r) \/ Require(r) \/ GateBeforeLookup(r)
                \/ LookupHandle(r) \/ ListInvites(r) \/ ListAudit(r) \/ RenameWorkspace(r)
                \/ Snapshot(r) \/ LockChannel(r) \/ LockDoomed(r) \/ OverrideTarget(r)
    <2>1. req[r].kind \in AdminKinds
      <3>1. req[r].step = "require" => req[r].kind \in AdminKinds
        BY StepTable, RoomStepTable
           DEF TypedInv, Formed, Kinds, AccountKinds, Reads, SessionReads, DirectoryReads
      <3> QED
        BY <1>4, <3>1, KindsApart
           DEF GetChannel, GetWorkspace, Require, GateBeforeLookup, LookupHandle, ListInvites,
               ListAudit, RenameWorkspace, Snapshot, LockChannel, LockDoomed, OverrideTarget, Page,
               At, AdminKinds, ChannelCalls
    <2>2. req[r].kind \notin Reads \cup {"revoke"}
      BY <2>1, KindsApart DEF AccountKinds
    <2>3. AskKept(r)
      BY <1>4, AskUnchanged
         DEF AdminInv, Shape, GetChannel, GetWorkspace, Require, GateBeforeLookup, LookupHandle,
             ListInvites, ListAudit, RenameWorkspace, Snapshot, LockChannel, LockDoomed,
             OverrideTarget, Page, OnOrOut, AskKept
    <2>4. \/ \E step : To(r, step)
          \/ \E step, role : req' = [req EXCEPT ![r].step = step, ![r].role = role]
          \/ \E step, seen : req' = [req EXCEPT ![r].step = step, ![r].seen = seen]
          \/ Take(r, Update(ChannelRow(ask[r].on)), "name")
          \/ /\ req' = [req EXCEPT ![r].held = DoomedRows(ask[r].on), ![r].step = "delete"]
             /\ \A lock \in DoomedRows(ask[r].on) : Free(r, lock)
      BY <1>4 DEF GetChannel, GetWorkspace, Require, GateBeforeLookup, LookupHandle, ListInvites,
             ListAudit, RenameWorkspace, Snapshot, LockChannel, LockDoomed, OverrideTarget, Page,
             OnOrOut
    <2>5. CASE \E step : To(r, step)
      BY <2>2, <2>3, <2>5, ToEffect DEF AdminInv, SameCall, Gentle
    <2>6. CASE \/ \E step, role : req' = [req EXCEPT ![r].step = step, ![r].role = role]
               \/ \E step, seen : req' = [req EXCEPT ![r].step = step, ![r].seen = seen]
      <3>1. /\ DOMAIN req' = Requests /\ DOMAIN req'[r] = Fields
            /\ \A q \in Requests \ {r} : req'[q] = req[q]
            /\ req'[r].kind = req[r].kind /\ req'[r].held = req[r].held
        <4>1. CASE \E step, role : req' = [req EXCEPT ![r].step = step, ![r].role = role]
          BY <4>1 DEF AdminInv, Shape, Fields
        <4>2. CASE \E step, seen : req' = [req EXCEPT ![r].step = step, ![r].seen = seen]
          BY <4>2 DEF AdminInv, Shape, Fields
        <4> QED
          BY <2>6, <4>1, <4>2
      <3> QED
        BY <2>2, <2>3, <3>1 DEF Moves, AskKept, Gentle
    <2>7. CASE Take(r, Update(ChannelRow(ask[r].on)), "name")
      <3>1. /\ Moves(r) /\ req'[r].kind = req[r].kind
            /\ req'[r].held = req[r].held \cup {Update(ChannelRow(ask[r].on))}
        BY <2>3, <2>7, TakeEffect DEF AdminInv, SameCall
      <3> QED
        BY <2>2, <3>1, RowsApart DEF Gentle
    <2>8. CASE /\ req' = [req EXCEPT ![r].held = DoomedRows(ask[r].on), ![r].step = "delete"]
               /\ \A lock \in DoomedRows(ask[r].on) : Free(r, lock)
      <3>1. /\ DOMAIN req' = Requests /\ DOMAIN req'[r] = Fields
            /\ \A q \in Requests \ {r} : req'[q] = req[q]
            /\ req'[r].kind = req[r].kind /\ req'[r].held = DoomedRows(ask[r].on)
        BY <2>8 DEF AdminInv, Shape, Fields
      <3>2. Moves(r)
        BY <2>3, <2>8, <3>1 DEF Moves, AskKept
      <3>3. \A l \in DoomedRows(ask[r].on) :
                /\ \A s \in SessionIds : l.row # SessionRow(s)
                /\ \A u \in Users : l.row # MemberRow(u)
        BY RowsApart DEF DoomedRows
      <3> QED
        BY <2>2, <3>1, <3>2, <3>3 DEF Gentle
    <2> QED
      BY <2>4, <2>5, <2>6, <2>7, <2>8
  <1>5. \/ \E answer : Reply(r, answer)
        \/ ~ (\/ ShowWorkspace(r) \/ ListWorkspaces(r) \/ ListChannels(r) \/ ListOverrides(r)
              \/ AnswerRename(r) \/ AddMember(r) \/ CreateChannel(r) \/ RenameChannel(r)
              \/ DeleteChannel(r) \/ SetOverride(r) \/ DeleteOverride(r) \/ CreateInvite(r)
              \/ RevokeInvite(r))
    BY DEF ShowWorkspace, ListWorkspaces, ListChannels, ListOverrides, Page, AnswerRename,
           AddMember, CreateChannel, RenameChannel, DeleteChannel, SetOverride, DeleteOverride,
           CreateInvite, RevokeInvite, Change
  <1> QED
    BY <1>1, <1>2, <1>3, <1>4, <1>5 DEF AdminServe

\* Every step of Conversations is gentle.
LEMMA RoomGentle ==
    ASSUME AdminInv, NEW r \in Requests, RoomServe(r), UNCHANGED adminVars
    PROVE  Gentle(r)
  <1>1. AskKept(r)
    BY AskUnchanged DEF AdminInv, adminVars
  <1>2. CASE End(r)
    BY <1>1, <1>2, EndGentle
  <1>3. CASE BeginRoom(r)
    <2>1. PICK s, kind, step, target :
              /\ s \in SessionIds /\ kind \in {"dm", "rooms", "history"}
              /\ Begin(r, kind, step, s, target)
      BY <1>3 DEF BeginRoom, Callers
    <2>2. req'[r].held = {}
      BY <2>1 DEF AdminInv, Shape, Begin, Blank, Fields
    <2> QED
      BY <1>1, <2>1, <2>2, BeginMoves DEF AdminInv, Gentle
  <1>4. CASE NamedGroup(r) \/ \E s \in Callers, c \in Known : Admit(r, s, c) /\ ~End(r)
    <2>1. /\ DOMAIN req' = Requests /\ DOMAIN req'[r] = Fields
          /\ \A q \in Requests \ {r} : req'[q] = req[q]
          /\ req'[r].held = {} /\ req'[r].kind # "revoke"
      <3>1. CASE NamedGroup(r)
        <4>1. PICK s \in Callers, named \in SUBSET Users :
                  req' = [req EXCEPT ![r] = [Blank EXCEPT !.kind = "group", !.step = "create",
                             !.session = s, !.user = sessions[s].owner, !.seen = named]]
          BY <3>1 DEF NamedGroup, BeginGroup
        <4> QED
          BY <4>1 DEF AdminInv, Shape, Blank, Fields
      <3>2. CASE \E s \in Callers, c \in Known : Admit(r, s, c) /\ ~End(r)
        <4>1. PICK s \in Callers, c \in Known :
                  req' = [req EXCEPT ![r] = [Blank EXCEPT !.kind = "typing", !.step = "gate",
                             !.session = s, !.user = sessions[s].owner, !.target = c, !.at = now]]
          BY <3>2 DEF Admit
        <4> QED
          BY <4>1 DEF AdminInv, Shape, Blank, Fields
      <3> QED
        BY <1>4, <3>1, <3>2
    <2> QED
      BY <1>1, <2>1 DEF Moves, AskKept, Gentle
  <1>5. CASE /\ ~End(r)
             /\ \/ LockPair(r) \/ FindDm(r) \/ ListRows(r) \/ ListMembers(r) \/ CheckHistory(r)
                \/ TypingGate(r) \/ LockSeat(r) \/ ReadRecipients(r)
    <2>1. req[r].kind \notin Reads \cup {"revoke"}
      BY <1>5 DEF LockPair, FindDm, ListRows, ListMembers, CheckHistory, TypingGate, LockSeat,
             ReadRecipients, Serves, Reads, SessionReads, DirectoryReads
    <2>2. \/ \E step : To(r, step)
          \/ \E step, seen : \/ req' = [req EXCEPT ![r].step = step, ![r].seen = seen]
                             \/ req' = [req EXCEPT ![r].seen = seen, ![r].step = step]
          \/ \E step, row : /\ Take(r, row, step)
                            /\ row \in {Update(PairLock(req[r].user, req[r].target)),
                                        Share(SeatRow(req[r].target, req[r].user))}
      <3>1. CASE LockPair(r) \/ FindDm(r) \/ CheckHistory(r) \/ TypingGate(r) \/ LockSeat(r)
        BY <1>5, <3>1 DEF LockPair, FindDm, CheckHistory, TypingGate, LockSeat
      <3>2. CASE ListRows(r)
        <4>1. PICK seen : req' = [req EXCEPT ![r].step = "members", ![r].seen = seen]
          BY <3>2 DEF ListRows
        <4> QED
          BY <4>1
      <3>3. CASE ListMembers(r)
        <4> DEFINE listed == {<<c, conversations[c].kind, conversations[c].members>> :
                                c \in req[r].seen}
        <4>1. req' = [req EXCEPT ![r].step = "profiles", ![r].seen = listed]
          BY <3>3 DEF AdminInv, Shape, Fields, ListMembers
        <4> HIDE DEF listed
        <4> QED
          BY <4>1
      <3>4. CASE ReadRecipients(r)
        BY <3>4 DEF ReadRecipients
      <3> QED
        BY <1>5, <3>1, <3>2, <3>3, <3>4
    <2>3. CASE \E step : To(r, step)
      BY <1>1, <2>1, <2>3, ToEffect DEF AdminInv, SameCall, Gentle
    <2>4. CASE \E step, seen : \/ req' = [req EXCEPT ![r].step = step, ![r].seen = seen]
                               \/ req' = [req EXCEPT ![r].seen = seen, ![r].step = step]
      <3>1. Moves(r) /\ SameCall(r) /\ req'[r].held = req[r].held
        BY <1>1, <2>4, SeenEffect DEF AdminInv
      <3> QED
        BY <2>1, <3>1 DEF SameCall, Gentle
    <2>5. CASE \E step, row : /\ Take(r, row, step)
                              /\ row \in {Update(PairLock(req[r].user, req[r].target)),
                                          Share(SeatRow(req[r].target, req[r].user))}
      <3>1. PICK row \in {Update(PairLock(req[r].user, req[r].target)),
                          Share(SeatRow(req[r].target, req[r].user))} :
                Moves(r) /\ SameCall(r) /\ req'[r].held = req[r].held \cup {row}
        BY <1>1, <2>5, TakeEffect DEF AdminInv
      <3> QED
        BY <2>1, <3>1, RowsApart DEF SameCall, Gentle
    <2> QED
      BY <2>2, <2>3, <2>4, <2>5
  <1>6. CASE ~End(r)
    <2>1. ~ (\/ CreateDm(r) \/ CreateGroup(r) \/ ListProfiles(r) \/ ReadHistory(r)
             \/ Publish(r) \/ LoseTyping(r))
      BY <1>6 DEF CreateDm, CreateGroup, ListProfiles, ReadHistory, Publish, LoseTyping
    <2> QED
      BY <1>3, <1>4, <1>5, <1>6, <2>1 DEF RoomServe
  <1> QED
    BY <1>2, <1>6

\* The rows that a revocation has locked come before those it has not.
LEMMA RevokerOrdered ==
    ASSUME AdminInv, TypedInv, LockOrder, NEW r \in Requests, UNCHANGED <<roomVars, adminVars>>,
           LockOwned(r) \/ CheckCaller(r)
    PROVE  LockOrder'
  <1>1. /\ req[r].kind = "revoke" /\ AskKept(r) /\ OwnersKept /\ UNCHANGED sessions
        /\ Ordered(r)
    BY AskUnchanged
       DEF AdminInv, LockOwned, CheckCaller, Serves, adminVars, accountVars, OwnersKept, LockOrder
  <1>2. CASE End(r)
    BY <1>1, <1>2, EndGentle, GentleKeeps
  <1>3. CASE LockOwned(r)
    <2> DEFINE next == NextRow(r)
    <2>1. /\ next \in Unlocked(r) /\ next \in SessionIds /\ Unlocked(r) \subseteq SessionIds
          /\ \A t \in Unlocked(r) : next <= t
      BY <1>1, <1>3, NextRowIs DEF LockOwned
    <2>2. Take(r, Update(SessionRow(next)), "lock") /\ req[r].step = "lock"
      BY <1>3 DEF LockOwned
    <2>3. /\ Moves(r) /\ SameCall(r) /\ req'[r].step = "lock"
          /\ req'[r].held = req[r].held \cup {Update(SessionRow(next))}
      BY <1>1, <2>2, TakeEffect DEF AdminInv
    <2>4. Owned(r)' = Owned(r)
      BY <1>1, <2>3 DEF Owned, SameCall
    <2>5. Unlocked(r)' \subseteq Unlocked(r) \ {next}
      BY <2>3, <2>4 DEF Unlocked
    <2>6. \A s \in SessionIds :
              HoldsRow(r, SessionRow(s))' => HoldsRow(r, SessionRow(s)) \/ s = next
      BY <2>3 DEF HoldsRow, Share, Update, SessionRow
    <2>7. \A u \in Users : Update(MemberRow(u)) # Update(SessionRow(next))
      BY DEF Update, MemberRow, SessionRow
    <2>8. \A s \in SessionIds, t \in Unlocked(r)' : HoldsRow(r, SessionRow(s))' => s < t
      <3>1. SUFFICES ASSUME NEW s \in SessionIds, NEW t \in Unlocked(r)',
                            HoldsRow(r, SessionRow(s))'
                     PROVE  s < t
        OBVIOUS
      <3>2. t \in Unlocked(r) /\ t # next /\ t \in SessionIds
        BY <2>1, <2>5
      <3>3. CASE HoldsRow(r, SessionRow(s))
        BY <1>1, <2>2, <3>2, <3>3 DEF Ordered
      <3>4. CASE s = next
        BY <2>1, <3>2, <3>4 DEF SessionIds
      <3> QED
        BY <2>6, <3>1, <3>3, <3>4
    <2> HIDE DEF next
    <2>9. Ordered(r)'
      BY <1>1, <2>3, <2>6, <2>7, <2>8 DEF Ordered, SameCall
    <2> QED
      BY <1>1, <2>3, <2>9, OrderStep
  <1>4. CASE CheckCaller(r) /\ ~End(r)
    <2>1. Moves(r) /\ SameCall(r) /\ req'[r].step = "revoke" /\ req'[r].held = req[r].held
      BY <1>1, <1>4, ToEffect DEF AdminInv, CheckCaller
    <2>2. Ordered(r)'
      BY <1>1, <2>1 DEF Ordered, HoldsRow, SameCall
    <2> QED
      BY <1>1, <2>1, <2>2, OrderStep
  <1> QED
    BY <1>2, <1>3, <1>4

\* A reader that has locked its session goes on to the member.
LEMMA ReaderOrdered ==
    ASSUME AdminInv, LockOrder, NEW r \in Requests, UNCHANGED <<roomVars, adminVars>>,
           LockSession(r) \/ LockMember(r) \/ CheckReader(r)
    PROVE  LockOrder'
  <1>1. /\ req[r].kind \in Reads /\ AskKept(r) /\ OwnersKept /\ UNCHANGED <<sessions, ask>>
        /\ Ordered(r)
    BY AskUnchanged
       DEF AdminInv, LockSession, LockMember, CheckReader, Reads, adminVars, accountVars,
           OwnersKept, LockOrder
  <1>2. req[r].kind # "revoke"
    BY <1>1 DEF Reads, SessionReads, DirectoryReads
  <1>3. CASE End(r)
    BY <1>1, <1>3, EndGentle, GentleKeeps
  <1>4. CASE LockSession(r) /\ ~End(r)
    <2>1. /\ Take(r, Share(SessionRow(req[r].session)),
                  IF req[r].kind = "sessions" THEN "check" ELSE "member")
          /\ req[r].kind \in SessionReads
      BY <1>4 DEF LockSession, Serves
    <2>2. /\ Moves(r) /\ SameCall(r) /\ req'[r].step \in {"check", "member"}
          /\ req'[r].held = req[r].held \cup {Share(SessionRow(req[r].session))}
      BY <1>1, <2>1, TakeEffect DEF AdminInv
    <2>3. \A u \in Users : Update(MemberRow(u)) # Share(SessionRow(req[r].session))
      BY DEF Update, Share
    <2>4. Ordered(r)'
      BY <1>1, <1>2, <2>1, <2>2, <2>3 DEF Ordered, SameCall
    <2> QED
      BY <1>1, <2>2, <2>4, OrderStep
  <1>5. CASE LockMember(r)
    <2>1. /\ Moves(r) /\ SameCall(r) /\ req'[r].step = "check"
          /\ req'[r].held \subseteq req[r].held \cup {Share(MemberRow(req[r].user))}
      BY <1>1, <1>5, LockMemberEffect DEF AdminInv
    <2>2. \A u \in Users : Update(MemberRow(u)) # Share(MemberRow(req[r].user))
      BY DEF Update, Share
    <2>3. \A s \in SessionIds : HoldsRow(r, SessionRow(s))' => HoldsRow(r, SessionRow(s))
      BY <2>1 DEF HoldsRow, Share, Update, SessionRow, MemberRow
    <2>4. req[r].kind \in SessionReads \/ \A s \in SessionIds : ~HoldsRow(r, SessionRow(s))
      BY <1>1, <1>2 DEF Ordered
    <2>5. Ordered(r)'
      BY <1>1, <1>2, <2>1, <2>2, <2>3, <2>4 DEF Ordered, SameCall
    <2> QED
      BY <1>1, <2>1, <2>5, OrderStep
  <1>6. CASE CheckReader(r) /\ ~End(r)
    <2>1. Moves(r) /\ SameCall(r) /\ req'[r].step = "read" /\ req'[r].held = req[r].held
      BY <1>1, <1>6, ToEffect DEF AdminInv, CheckReader
    <2>2. Ordered(r)'
      BY <1>1, <1>2, <2>1 DEF Ordered, HoldsRow, SameCall
    <2> QED
      BY <1>1, <2>1, <2>2, OrderStep
  <1> QED
    BY <1>3, <1>4, <1>5, <1>6

\* The other calls of Accounts begin or end here.
LEMMA AccountGentle ==
    ASSUME AdminInv, TypedInv, NEW r \in Requests, UNCHANGED <<roomVars, adminVars>>,
           \/ BeginAny(r) \/ Anonymous(r) \/ EnsureWallet(r) \/ Logout(r)
           \/ \E identity, agreement \in Keys : RegisterDevice(r, identity, agreement)
           \/ RevokeTarget(r) \/ Read(r) \/ Lose(r)
    PROVE  Gentle(r) /\ OwnersKept
  <1>1. AskKept(r)
    BY AskUnchanged DEF AdminInv, adminVars
  <1>2. CASE BeginAny(r)
    <2>1. PICK s, kind, step, target :
              /\ s \in SessionIds
              /\ Begin(r, kind, step, s, target)
              /\ kind = "revoke" => sessions[target].owner # None
      BY <1>2 DEF BeginAny, SessionReads
    <2>2. req'[r].held = {} /\ req'[r].kind = kind /\ req'[r].target = target /\ Moves(r)
          /\ UNCHANGED sessions
      <3>1. req'[r].held = {}
        BY <2>1 DEF AdminInv, Shape, Begin, Blank, Fields
      <3> QED
        BY <1>1, <2>1, <3>1, BeginMoves DEF AdminInv
    <2> QED
      BY <2>1, <2>2 DEF Gentle, OwnersKept
  <1>3. CASE Anonymous(r) /\ ~End(r)
    <2>1. UNCHANGED sessions /\ \E u \in Users :
              req' = [req EXCEPT ![r] = [Blank EXCEPT !.kind = "register", !.step = "wallet",
                                                      !.user = u]]
      BY <1>3 DEF Anonymous, Register, Login, LoginRefused
    <2>2. /\ DOMAIN req' = Requests /\ DOMAIN req'[r] = Fields
          /\ \A q \in Requests \ {r} : req'[q] = req[q]
          /\ req'[r].held = {} /\ req'[r].kind # "revoke"
      BY <2>1 DEF AdminInv, Shape, Blank, Fields
    <2> QED
      BY <1>1, <2>1, <2>2 DEF Moves, AskKept, Gentle, OwnersKept
  <1>4. CASE End(r)
    <2>1. OwnersKept
      <3>1. sessions \in [SessionIds -> Session]
        BY DEF AdminInv, Shape
      <3>2. CASE Logout(r) \/ RevokeTarget(r)
        <4>1. PICK s \in SessionIds, by \in SessionIds : Revoked(s, by)
          BY <3>2 DEF AdminInv, Sure, CallerSure, RevokerSure, Logout, RevokeTarget, Serves,
                      Guarded
        <4>2. UNCHANGED sessions \/ sessions' = [sessions EXCEPT ![s].revoked = TRUE]
          BY <4>1 DEF Revoked
        <4> QED
          BY <3>1, <4>2 DEF OwnersKept, Session
      <3>3. CASE Anonymous(r)
        <4>1. UNCHANGED sessions \/ \E s \in SessionIds, u \in Users :
                  sessions[s].owner = None /\ sessions' = [sessions EXCEPT ![s].owner = u]
          BY <3>3 DEF Anonymous, Register, Login, LoginRefused, accountVars
        <4> QED
          BY <3>1, <4>1 DEF OwnersKept, Session
      <3>4. CASE \/ BeginAny(r) \/ EnsureWallet(r) \/ Read(r) \/ Lose(r)
                 \/ \E identity, agreement \in Keys : RegisterDevice(r, identity, agreement)
        <4>1. UNCHANGED sessions
          BY <3>4 DEF BeginAny, Begin, EnsureWallet, Read, Lose, RegisterDevice, accountVars
        <4> QED
          BY <4>1 DEF OwnersKept
      <3> QED
        BY <3>2, <3>3, <3>4
    <2> QED
      BY <1>1, <1>4, <2>1, EndGentle
  <1> QED
    BY <1>2, <1>3, <1>4 DEF EnsureWallet, Logout, RegisterDevice, RevokeTarget, Read, Lose

\* Every step keeps the order.
LEMMA OrderKept ==
    ASSUME AdminInv, TypedInv, LockOrder, [AdminNext]_allVars
    PROVE  LockOrder'
  <1>1. CASE \E r \in Requests : AdminServe(r)
    <2>1. PICK r \in Requests : AdminServe(r)
      BY <1>1
    <2>2. UNCHANGED sessions
      BY <2>1 DEF AdminServe, WorkspaceRoutes, MemberRoutes, ChannelRoutes, OverrideRoutes,
             InviteRoutes, AuditRoute, Administer, Begin, GetChannel, GetWorkspace, Require,
             GateBeforeLookup, LookupHandle, Malformed, ShowWorkspace, ListWorkspaces,
             ListChannels, ListOverrides, Page, ListInvites, ListAudit, RenameWorkspace,
             AnswerRename, AddMember, Snapshot, CreateChannel, LockChannel, RenameChannel,
             LockDoomed, DeleteChannel, OverrideTarget, SetOverride, DeleteOverride, CreateInvite,
             RevokeInvite, Departure, Depart, Kick, Ban, Promotion, Promote, SetRole, Reading,
             accountVars
    <2> QED
      BY <2>1, <2>2, AdminGentle, GentleKeeps DEF OwnersKept
  <1>2. CASE \E r \in Requests : RoomServe(r) /\ UNCHANGED adminVars
    <2>1. PICK r \in Requests : RoomServe(r) /\ UNCHANGED adminVars
      BY <1>2
    <2>2. UNCHANGED sessions
      BY <2>1 DEF RoomServe, BeginRoom, Begin, NamedGroup, BeginGroup, LockPair, FindDm, CreateDm,
             CreateGroup, ListRows, ListMembers, ListProfiles, CheckHistory, ReadHistory, Admit,
             TypingGate, LockSeat, ReadRecipients, Publish, LoseTyping, accountVars
    <2> QED
      BY <2>1, <2>2, RoomGentle, GentleKeeps DEF OwnersKept
  <1>3. CASE \E r \in Requests : AccountServe(r) /\ UNCHANGED adminVars
    <2>1. PICK r \in Requests : AccountServe(r) /\ UNCHANGED adminVars
      BY <1>3
    <2>2. UNCHANGED <<roomVars, adminVars>>
      BY <2>1 DEF AccountServe
    <2>3. CASE \/ LockOwned(r) \/ CheckCaller(r)
               \/ LockSession(r) \/ LockMember(r) \/ CheckReader(r)
      BY <2>2, <2>3, RevokerOrdered, ReaderOrdered
    <2>4. CASE \/ BeginAny(r) \/ Anonymous(r) \/ EnsureWallet(r) \/ Logout(r)
               \/ \E identity, agreement \in Keys : RegisterDevice(r, identity, agreement)
               \/ RevokeTarget(r) \/ Read(r) \/ Lose(r)
      BY <2>2, <2>4, AccountGentle, GentleKeeps
    <2> QED
      BY <2>1, <2>3, <2>4 DEF AccountServe, Serve
  <1>4. CASE (RoomsClock /\ UNCHANGED adminVars) \/ UNCHANGED allVars
    <2>1. UNCHANGED req /\ \A s \in SessionIds : sessions'[s].owner = sessions[s].owner
      <3>1. CASE \E s \in SessionIds : Expire(s)
        <4>1. sessions \in [SessionIds -> Session]
          BY DEF AdminInv, Shape
        <4> QED
          BY <3>1, <4>1 DEF Expire, Session
      <3> QED
        BY <1>4, <3>1 DEF RoomsClock, Tick, allVars, vars, avars, accountVars
    <2>2. ASSUME NEW r \in Requests
          PROVE  Ordered(r)'
      <3>1. CASE req[r].kind # "revoke"
        BY <2>1, <3>1 DEF LockOrder, Ordered, HoldsRow
      <3>2. CASE req[r].kind = "revoke"
        <4>1. req[r].session \in SessionIds /\ req[r].target \in SessionIds
          BY <3>2 DEF AdminInv, Sure, CallerSure, RevokerSure, Guarded
        <4>2. Owned(r)' = Owned(r)
          BY <2>1, <4>1 DEF Owned
        <4>3. Unlocked(r)' = Unlocked(r)
          BY <2>1, <4>2 DEF Unlocked
        <4> QED
          BY <2>1, <4>1, <4>3 DEF LockOrder, Ordered, HoldsRow
      <3> QED
        BY <3>1, <3>2
    <2> QED
      BY <2>2 DEF LockOrder
  <1> QED
    BY <1>1, <1>2, <1>3, <1>4 DEF AdminNext

\* No request holds a row at first.
LEMMA OrderInit ==
    AdminInit => LockOrder
  <1>1. AdminInit => \A r \in Requests : req[r] = Blank
    BY DEF AdminInit, RoomsInit, Init
  <1>2. Blank.held = {} /\ Blank.kind = "none"
    BY DEF Blank
  <1> QED
    BY <1>1, <1>2 DEF LockOrder, Ordered, HoldsRow

\* The session that a request waits for, if it does.
Awaited(r) == IF req[r].step = "lock" THEN NextRow(r) ELSE req[r].session

\* A request that waits for a row held by another waits for a session.
LEMMA WaitsForSession ==
    ASSUME AdminInv, TypedInv, LockOrder, NEW r \in Requests, NEW q \in Requests,
           NEW lock \in Wanted(r), q \in Holders(r, lock)
    PROVE  /\ Awaited(r) \in SessionIds
           /\ HoldsRow(q, SessionRow(Awaited(r)))
           /\ req[r].kind = "revoke" /\ req[r].step = "lock" => Awaited(r) \in Unlocked(r)
           /\ req[r].step \notin {"member", "check", "read"}
           /\ req[r].kind = "revoke" => req[r].step = "lock"
  <1>1. PICK l \in req[q].held : Conflict(l, lock)
    BY DEF Holders
  <1>2. Formed(r) /\ Formed(q) /\ Ordered(q) /\ Sure(r)
    BY DEF AdminInv, TypedInv, LockOrder
  <1>3. /\ req[r].step = "lock" => req[r].kind = "revoke"
        /\ req[r].step = "logout" => req[r].kind = "logout"
        /\ req[r].step = "session" => req[r].kind \in SessionReads
        /\ req[r].step = "member" => req[r].kind \in DirectoryReads
        /\ req[r].kind = "revoke" => req[r].step \in {"lock", "revoke"}
    BY <1>2, StepTable, RoomStepTable, AdminStepTable
       DEF Formed, Kinds, AccountKinds, AdminKinds, ChannelCalls, Reads, SessionReads,
           DirectoryReads
  <1>4. CASE req[r].step = "member"
    <2>1. lock = Share(MemberRow(req[r].user)) /\ req[r].user \in Users
      BY <1>2, <1>3, <1>4 DEF Wanted, Sure, CallerSure, Guarded, Reads
    <2>2. l.row = MemberRow(req[r].user) /\ l.mode = "update"
      BY <1>1, <2>1 DEF Conflict, Share
    <2>3. req[q].kind \in Reads \cup {"revoke"}
      BY <1>1, <1>2, <2>1, <2>2 DEF Ordered
    <2>4. l \in Locks
      BY <1>1, <1>2, <2>3 DEF Formed, AccountKinds
    <2>5. l = Update(MemberRow(req[r].user))
      BY <2>2, <2>4 DEF Locks, Update
    <2> QED
      BY <1>1, <1>2, <2>1, <2>5 DEF Ordered
  <1>5. CASE req[r].step # "member"
    <2>1. /\ lock.row = SessionRow(Awaited(r)) /\ Awaited(r) \in SessionIds
          /\ req[r].kind = "revoke" /\ req[r].step = "lock" => Awaited(r) \in Unlocked(r)
          /\ req[r].step \in {"lock", "logout", "session"}
      <3>1. CASE req[r].step = "lock"
        <4>1. Unlocked(r) # {} /\ lock = Update(SessionRow(NextRow(r)))
          BY <3>1 DEF Wanted
        <4>2. NextRow(r) \in Unlocked(r) /\ NextRow(r) \in SessionIds
          BY <1>3, <3>1, <4>1, NextRowIs
        <4> QED
          BY <3>1, <4>1, <4>2 DEF Awaited, Update
      <3>2. CASE req[r].step \in {"logout", "session"}
        <4>1. req[r].session \in SessionIds
          BY <1>2, <1>3, <3>2 DEF Sure, CallerSure, Guarded, Reads
        <4>2. lock.row = SessionRow(req[r].session)
          BY <3>2 DEF Wanted, Share, Update
        <4> QED
          BY <3>2, <4>1, <4>2 DEF Awaited
      <3> QED
        BY <1>5, <3>1, <3>2 DEF Wanted
    <2>2. l.row = SessionRow(Awaited(r))
      BY <1>1, <2>1 DEF Conflict
    <2>3. req[q].kind \in Reads \cup {"revoke"}
      BY <1>1, <1>2, <2>1, <2>2 DEF Ordered
    <2>4. l \in Locks
      BY <1>1, <1>2, <2>3 DEF Formed, AccountKinds
    <2>5. l \in {Update(SessionRow(Awaited(r))), Share(SessionRow(Awaited(r)))}
      BY <2>2, <2>4 DEF Locks, Update, Share
    <2> QED
      BY <1>1, <1>3, <2>1, <2>5 DEF HoldsRow
  <1> QED
    BY <1>4, <1>5

\* In a group that waits for itself, one waits for the session of the greatest id,
\* whose holder waits for a greater.
LEMMA OrderFrees ==
    ASSUME AdminInv, TypedInv, LockOrder
    PROVE  NoDeadlock
  <1>1. SUFFICES ASSUME NEW group \in (SUBSET Requests) \ {{}},
                        \A r \in group : \E lock \in Wanted(r) :
                            Holders(r, lock) \cap group # {}
                 PROVE  FALSE
    BY DEF NoDeadlock
  <1>2. \A r \in group : \E q \in group :
            /\ Awaited(r) \in SessionIds
            /\ HoldsRow(q, SessionRow(Awaited(r)))
            /\ req[r].kind = "revoke" /\ req[r].step = "lock" => Awaited(r) \in Unlocked(r)
            /\ req[r].step \notin {"member", "check", "read"}
            /\ req[r].kind = "revoke" => req[r].step = "lock"
    BY <1>1, WaitsForSession
  <1> DEFINE ids == {Awaited(r) : r \in group}
  <1>3. PICK most \in ids : \A id \in ids : id <= most
    <2>1. ids # {} /\ ids \subseteq SessionIds
      <3>1. \E r : r \in group
        BY <1>1
      <3>2. PICK r : r \in group
        BY <3>1
      <3>3. Awaited(r) \in ids /\ \A s \in group : Awaited(s) \in SessionIds
        BY <1>2, <3>2
      <3> QED
        BY <3>3
    <2>2. IsFiniteSet(ids) /\ ids \subseteq Int
      <3>1. IsFiniteSet(SessionIds) /\ SessionIds \subseteq Int
        BY NumbersAssumption, FS_Interval DEF SessionIds
      <3> QED
        BY <2>1, <3>1, FS_Subset
    <2> HIDE DEF ids
    <2>3. Max(ids) \in ids /\ \A id \in ids : Max(ids) >= id
      BY <2>1, <2>2, Extremes
    <2> QED
      BY <2>2, <2>3
  <1>4. PICK r \in group : most = Awaited(r)
    OBVIOUS
  <1>5. PICK q \in group : HoldsRow(q, SessionRow(most))
    BY <1>2, <1>4
  <1>6. /\ Awaited(q) \in ids /\ most \in SessionIds
        /\ req[q].step \notin {"member", "check", "read"}
        /\ req[q].kind = "revoke" => req[q].step = "lock"
        /\ req[q].kind = "revoke" => Awaited(q) \in Unlocked(q)
        /\ Awaited(q) \in SessionIds
    BY <1>2, <1>4
  <1>7. req[q].kind = "revoke"
    BY <1>5, <1>6 DEF LockOrder, Ordered
  <1>8. most < Awaited(q)
    BY <1>5, <1>6, <1>7 DEF LockOrder, Ordered
  <1> QED
    BY <1>3, <1>6, <1>8 DEF SessionIds

\* The order of locks, with the types and grounds on which it is kept.
THEOREM AdminOrdered == AdminSpec => [](AdminInv /\ TypedInv /\ LockOrder)
  <1>1. AdminInit => AdminInv /\ TypedInv /\ LockOrder
    BY AdminInitHolds, TypedInit, OrderInit
  <1>2. (AdminInv /\ TypedInv /\ LockOrder) /\ [AdminNext]_allVars
            => (AdminInv /\ TypedInv /\ LockOrder)'
    BY AdminNextKeeps, TypedKept, OrderKept
  <1> QED
    BY <1>1, <1>2, PTL DEF AdminSpec

\* No set of requests, of whatever routes, waits for rows locked within it.
THEOREM AdminDeadlockFree == AdminSpec => []NoDeadlock
  <1>1. AdminInv /\ TypedInv /\ LockOrder => NoDeadlock
    BY OrderFrees
  <1> QED
    BY <1>1, AdminOrdered, PTL

-----------------------------------------------------------------------------
(* The history of the workspace.                                           *)

\* At some moment of the call, its caller had this permission.
Had(r, permission) ==
    \E n \in ask[r].began..Len(trail) :
        RoleHas(WorldAt[n].members[req[r].user], permission)

\* The calls that ask for more than membership.
Managing == {"rename", "add", "create_channel", "rename_channel", "delete_channel",
             "set_override", "delete_override", "create_invite", "revoke_invite",
             "list_invites", "list_audit"}

\* Past its gate, a call has found its caller permitted, and the member that an
\* override names a member.
Grounded(r) ==
    /\ req[r].kind \in Managing /\ req[r].step \notin {"channel", "gate", "require"} =>
          Had(r, Needs(req[r].kind))
    /\ req[r].kind \in {"get_workspace", "list_channels", "list_overrides"}
          /\ req[r].step = "page" => Had(r, "View")
    /\ req[r].kind = "set_override" /\ req[r].step = "write" /\ ask[r].subject \in Users =>
          \E n \in ask[r].began..Len(trail) : WorldAt[n].members[ask[r].subject] # None

\* Every row tells when its call came in.
Dated == \A i \in DOMAIN trail : trail[i].began \in Nat

HistoryInv ==
    /\ TrailIsHistory
    /\ GroundsHeld
    /\ Dated
    /\ \A r \in Requests : Grounded(r)

-----------------------------------------------------------------------------
(* Replaying the audit.                                                    *)

\* f replays the rows of t, one after another.
Replays(f, t) ==
    f = [n \in 0..Len(t) |-> IF n = 0 THEN World0 ELSE Told(f[n - 1], t[n])]

\* Every trail can be replayed.
LEMMA ReplayExists ==
    ASSUME NEW t, Len(t) \in Nat
    PROVE  \E f : Replays(f, t)
  <1> DEFINE Good(f, N) == /\ f = [n \in 0..N |-> f[n]]
                           /\ f[0] = World0
                           /\ \A n \in 1..N : f[n] = Told(f[n - 1], t[n])
             S == {N \in Nat : \E f : Good(f, N)}
  <1>1. 0 \in S
    <2> DEFINE f == [n \in 0..0 |-> World0]
    <2>1. Good(f, 0)
      OBVIOUS
    <2> QED
      BY <2>1
  <1>2. ASSUME NEW N \in Nat, N \in S
        PROVE  N + 1 \in S
    <2>1. PICK f : Good(f, N)
      BY <1>2
    <2> DEFINE next == Told(f[N], t[N + 1])
               g == [n \in 0..(N + 1) |-> IF n = N + 1 THEN next ELSE f[n]]
    <2>2. /\ g = [n \in 0..(N + 1) |-> g[n]] /\ g[N + 1] = next
          /\ \A n \in 0..N : g[n] = f[n]
      OBVIOUS
    <2>3. g[0] = World0
      BY <2>1, <2>2
    <2> HIDE DEF next, g
    <2>4. ASSUME NEW n \in 1..(N + 1)
          PROVE  g[n] = Told(g[n - 1], t[n])
      <3>1. CASE n = N + 1
        <4>1. n - 1 = N /\ g[N] = f[N] /\ g[n] = next
          BY <2>2, <3>1
        <4> QED
          BY <3>1, <4>1 DEF next
      <3>2. CASE n # N + 1
        <4>1. n \in 1..N /\ n \in 0..N /\ n - 1 \in 0..N
          BY <3>2
        <4>2. f[n] = Told(f[n - 1], t[n])
          BY <2>1, <4>1
        <4>3. g[n] = f[n] /\ g[n - 1] = f[n - 1]
          BY <2>2, <4>1
        <4> QED
          BY <4>2, <4>3
      <3> QED
        BY <3>1, <3>2
    <2>5. Good(g, N + 1)
      BY <2>2, <2>3, <2>4
    <2> HIDE DEF Good
    <2>6. \E h : Good(h, N + 1)
      BY <2>5
    <2> QED
      BY <2>6
  <1> HIDE DEF S
  <1>3. Nat \subseteq S
    BY <1>1, <1>2, Successors
  <1>4. PICK f : Good(f, Len(t))
    BY <1>3 DEF S
  <1>5. \A n \in 0..Len(t) : f[n] = IF n = 0 THEN World0 ELSE Told(f[n - 1], t[n])
    BY <1>4
  <1>6. Replays(f, t)
    BY <1>4, <1>5 DEF Replays
  <1> QED
    BY <1>6

\* A trail that goes on has the same past.
LEMMA ReplayAgrees ==
    ASSUME NEW t, NEW u, NEW f, NEW g, Replays(f, t), Replays(g, u),
           Len(t) \in Nat, Len(u) \in Nat, Len(t) <= Len(u),
           \A i \in 1..Len(t) : u[i] = t[i]
    PROVE  \A n \in 0..Len(t) : g[n] = f[n]
  <1> DEFINE S == {n \in Nat : n <= Len(t) => g[n] = f[n]}
  <1>1. 0 \in S
    BY DEF Replays
  <1>2. ASSUME NEW n \in Nat, n \in S
        PROVE  n + 1 \in S
    <2> SUFFICES ASSUME n + 1 <= Len(t)
                 PROVE  g[n + 1] = f[n + 1]
      OBVIOUS
    <2>1. /\ n + 1 \in 1..Len(t) /\ n + 1 \in 0..Len(t) /\ n + 1 \in 0..Len(u)
          /\ n + 1 # 0 /\ n + 1 - 1 = n
      OBVIOUS
    <2>2. f[n + 1] = Told(f[n], t[n + 1])
      BY <2>1 DEF Replays
    <2>3. g[n + 1] = Told(g[n], u[n + 1])
      BY <2>1 DEF Replays
    <2>4. g[n] = f[n] /\ u[n + 1] = t[n + 1]
      BY <1>2, <2>1
    <2> QED
      BY <2>2, <2>3, <2>4
  <1> HIDE DEF S
  <1>3. Nat \subseteq S
    BY <1>1, <1>2, Successors
  <1> QED
    BY <1>3 DEF S

\* WorldAt replays the audit.
LEMMA WorldReplays ==
    ASSUME Listed(trail)
    PROVE  Replays(WorldAt, trail)
  <1>1. Len(trail) \in Nat
    BY OneMore
  <1>2. \E f : Replays(f, trail)
    BY <1>1, ReplayExists
  <1> QED
    BY <1>2 DEF WorldAt, Replays

-----------------------------------------------------------------------------
(* The history of the workspace is kept.                                   *)

\* The workspace as its tables have it.
Present == [name |-> name, channels |-> channels, members |-> members, invites |-> invites]

\* One row more: what was told stays told.
LEMMA HistoryExtends ==
    ASSUME Listed(trail), NEW e, trail' = Append(trail, e)
    PROVE  /\ \A n \in 0..Len(trail) : WorldAt'[n] = WorldAt[n]
           /\ WorldAt'[Len(trail) + 1] = Told(WorldAt[Len(trail)], e)
  <1>1. /\ Listed(trail') /\ Len(trail) \in Nat /\ Len(trail') = Len(trail) + 1
        /\ \A i \in 1..Len(trail) : trail'[i] = trail[i]
        /\ trail'[Len(trail) + 1] = e
    BY OneMore
  <1>2. Replays(WorldAt, trail)
    BY WorldReplays
  <1>3. Replays(WorldAt', trail')
    <2>1. Len(trail') \in Nat
      BY <1>1
    <2>2. \E f : Replays(f, trail')
      BY <2>1, ReplayExists
    <2> QED
      BY <2>2 DEF WorldAt, Replays
  <1>4. \A n \in 0..Len(trail) : WorldAt'[n] = WorldAt[n]
    <2>1. PICK old, new, f, g :
              old = trail /\ new = trail' /\ f = WorldAt /\ g = WorldAt'
      OBVIOUS
    <2>2. Replays(f, old) /\ Replays(g, new)
      BY <1>2, <1>3, <2>1 DEF Replays
    <2>3. /\ Len(old) \in Nat /\ Len(new) \in Nat /\ Len(old) <= Len(new)
          /\ \A i \in 1..Len(old) : new[i] = old[i]
      BY <1>1, <2>1
    <2>4. \A n \in 0..Len(old) : g[n] = f[n]
      BY <2>2, <2>3, ReplayAgrees
    <2> QED
      BY <2>1, <2>4
  <1>5. WorldAt'[Len(trail) + 1] = Told(WorldAt'[Len(trail)], e)
    <2>1. /\ Len(trail) + 1 \in 0..Len(trail') /\ Len(trail) + 1 # 0
          /\ Len(trail) + 1 - 1 = Len(trail)
      BY <1>1
    <2> QED
      BY <1>1, <1>3, <2>1 DEF Replays
  <1>6. Len(trail) \in 0..Len(trail)
    BY <1>1
  <1> QED
    BY <1>4, <1>5, <1>6

\* No row more: nothing else is told.
LEMMA HistoryRests ==
    ASSUME UNCHANGED trail
    PROVE  WorldAt' = WorldAt
  BY DEF WorldAt

\* What a call has found stays in the past of the workspace.
LEMMA PastKept ==
    ASSUME TypedInv, NEW r \in Requests,
           UNCHANGED trail \/ \E e : trail' = Append(trail, e)
    PROVE  /\ ask[r].began \in Nat /\ ask[r].began <= Len(trail)
           /\ Len(trail) \in Nat /\ Len(trail') \in Nat
           /\ ask[r].began..Len(trail) \subseteq ask[r].began..Len(trail')
           /\ \A n \in ask[r].began..Len(trail) : WorldAt'[n] = WorldAt[n]
  <1>1. /\ ask[r].began \in Nat /\ ask[r].began <= Len(trail)
        /\ Len(trail) \in Nat /\ Listed(trail)
    BY OneMore DEF TypedInv, Formed
  <1>2. ask[r].began..Len(trail) \subseteq 0..Len(trail)
    BY <1>1
  <1>3. CASE UNCHANGED trail
    BY <1>1, <1>3, HistoryRests
  <1>4. CASE \E e : trail' = Append(trail, e)
    <2>1. PICK e : trail' = Append(trail, e)
      BY <1>4
    <2>2. Len(trail') = Len(trail) + 1
      BY <1>1, <2>1, OneMore
    <2>3. \A n \in 0..Len(trail) : WorldAt'[n] = WorldAt[n]
      BY <1>1, <2>1, HistoryExtends
    <2> QED
      BY <1>1, <1>2, <2>2, <2>3
  <1> QED
    BY <1>3, <1>4

\* The grounds of a call that keeps its caller and its kind, or of none.
LEMMA GroundsKept ==
    ASSUME TypedInv, NEW q \in Requests, Grounded(q),
           UNCHANGED trail \/ \E e : trail' = Append(trail, e),
           req'[q] = req[q], ask'[q] = ask[q]
    PROVE  Grounded(q)'
  <1>1. /\ ask[q].began..Len(trail) \subseteq ask'[q].began..Len(trail')
        /\ \A n \in ask[q].began..Len(trail) : WorldAt'[n] = WorldAt[n]
    BY PastKept
  <1>2. \A permission : Had(q, permission) => Had(q, permission)'
    BY <1>1 DEF Had
  <1> QED
    BY <1>1, <1>2 DEF Grounded

\* Nothing changes that the audit tells of.
LEMMA HistoryStays ==
    ASSUME TrailIsHistory, GroundsHeld, Dated,
           UNCHANGED <<trail, name, channels, members, invites>>
    PROVE  TrailIsHistory' /\ GroundsHeld' /\ Dated'
  <1>1. WorldAt' = WorldAt
    BY HistoryRests
  <1>2. TrailIsHistory'
    BY <1>1 DEF TrailIsHistory
  <1>3. GroundsHeld'
    BY <1>1 DEF GroundsHeld
  <1>4. Dated'
    BY DEF Dated
  <1> QED
    BY <1>2, <1>3, <1>4

\* What grounds a row may tell of, when it is written.
Justified(e) ==
    /\ e.actor # None =>
          \E n \in e.began..Len(trail) : RoleHas(WorldAt[n].members[e.actor], Behind(e.action))
    /\ e.action = "channel.override_set" /\ e.subject \in Users =>
          \E n \in e.began..Len(trail) : WorldAt[n].members[e.subject] # None

\* A change and its row.
LEMMA HistoryGoesOn ==
    ASSUME TypedInv, TrailIsHistory, GroundsHeld, Dated, NEW e, trail' = Append(trail, e),
           Possible(Present, e), Told(Present, e) = Present', Justified(e), e.began \in Nat
    PROVE  TrailIsHistory' /\ GroundsHeld' /\ Dated'
  <1>1. /\ Listed(trail') /\ Len(trail) \in Nat /\ Len(trail') = Len(trail) + 1
        /\ \A i \in 1..Len(trail) : trail'[i] = trail[i]
        /\ trail'[Len(trail) + 1] = e
        /\ DOMAIN trail = 1..Len(trail) /\ DOMAIN trail' = 1..(Len(trail) + 1)
    BY OneMore DEF TypedInv
  <1>2. /\ \A n \in 0..Len(trail) : WorldAt'[n] = WorldAt[n]
        /\ WorldAt'[Len(trail) + 1] = Told(WorldAt[Len(trail)], e)
    BY HistoryExtends DEF TypedInv
  <1>3. WorldAt[Len(trail)] = Present
    BY DEF TrailIsHistory, Present
  <1>4. ASSUME NEW i \in DOMAIN trail'
        PROVE  Possible(WorldAt'[i - 1], trail'[i])
    <2>1. CASE i = Len(trail) + 1
      <3>1. /\ i - 1 = Len(trail) /\ Len(trail) \in 0..Len(trail)
        BY <1>1, <2>1
      <3>2. WorldAt'[i - 1] = Present /\ trail'[i] = e
        BY <1>1, <1>2, <1>3, <2>1, <3>1
      <3> QED
        BY <3>2
    <2>2. CASE i # Len(trail) + 1
      <3>1. i \in 1..Len(trail) /\ i - 1 \in 0..Len(trail) /\ i \in DOMAIN trail
        BY <1>1, <2>2
      <3>2. WorldAt'[i - 1] = WorldAt[i - 1] /\ trail'[i] = trail[i]
        BY <1>1, <1>2, <3>1
      <3>3. Possible(WorldAt[i - 1], trail[i])
        BY <3>1 DEF TrailIsHistory
      <3> QED
        BY <3>2, <3>3
    <2> QED
      BY <2>1, <2>2
  <1>5. WorldAt'[Len(trail')] = Present'
    BY <1>1, <1>2, <1>3
  <1>6. TrailIsHistory'
    BY <1>4, <1>5 DEF TrailIsHistory, Present
  <1>7. ASSUME NEW i \in DOMAIN trail'
        PROVE  /\ trail'[i].actor # None =>
                      \E n \in trail'[i].began..(i - 1) :
                          RoleHas(WorldAt'[n].members[trail'[i].actor], Behind(trail'[i].action))
               /\ trail'[i].action = "channel.override_set" /\ trail'[i].subject \in Users =>
                      \E n \in trail'[i].began..(i - 1) :
                          WorldAt'[n].members[trail'[i].subject] # None
    <2>1. CASE i = Len(trail) + 1
      <3>1. /\ i - 1 = Len(trail) /\ trail'[i] = e
            /\ e.began..Len(trail) \subseteq 0..Len(trail)
        BY <1>1, <2>1
      <3>2. \A n \in e.began..Len(trail) : WorldAt'[n] = WorldAt[n]
        BY <1>2, <3>1
      <3> QED
        BY <3>1, <3>2 DEF Justified
    <2>2. CASE i # Len(trail) + 1
      <3>1. i \in 1..Len(trail) /\ i \in DOMAIN trail
        BY <1>1, <2>2
      <3>2. trail'[i] = trail[i]
        BY <1>1, <3>1
      <3>3. trail[i].began..(i - 1) \subseteq 0..Len(trail)
        BY <1>1, <3>1 DEF Dated
      <3>4. \A n \in trail[i].began..(i - 1) : WorldAt'[n] = WorldAt[n]
        BY <1>2, <3>3
      <3> QED
        BY <3>1, <3>2, <3>4 DEF GroundsHeld
    <2> QED
      BY <2>1, <2>2
  <1>8. GroundsHeld'
    BY <1>7 DEF GroundsHeld
  <1>9. Dated'
    BY <1>1 DEF Dated
  <1> QED
    BY <1>6, <1>8, <1>9

-----------------------------------------------------------------------------
(* What each row tells, and by what right.                                 *)

\* The row of a change.
RowOf(r, action, on, value) ==
    [actor |-> req[r].user, action |-> action, on |-> on, value |-> value,
     subject |-> ask[r].subject, began |-> ask[r].began]

\* The workspace with one of its parts changed.
LEMMA ToldIs ==
    ASSUME NEW e
    PROVE  /\ e.action = "workspace.renamed" => Told(Present, e) = [Present EXCEPT !.name = e.value]
           /\ e.action \in {"channel.created", "channel.renamed"} =>
                Told(Present, e) =
                    [Present EXCEPT !.channels = [channels EXCEPT ![e.on] = e.value]]
           /\ e.action = "channel.deleted" =>
                Told(Present, e) = [Present EXCEPT !.channels = [channels EXCEPT ![e.on] = None]]
           /\ e.action \in {"member.added", "member.departed", "member.role_changed"} =>
                Told(Present, e) = [Present EXCEPT !.members = [members EXCEPT ![e.on] = e.value]]
           /\ e.action = "invite.created" =>
                Told(Present, e) = [Present EXCEPT !.invites = [invites EXCEPT ![e.on] = "live"]]
           /\ e.action = "invite.revoked" =>
                Told(Present, e) =
                    [Present EXCEPT !.invites = [invites EXCEPT ![e.on] = "revoked"]]
           /\ e.action \in {"channel.override_set", "channel.override_removed"} =>
                Told(Present, e) = Present
  <1> DEFINE a == e.action
  <1>1. CASE a = "workspace.renamed"
    BY <1>1 DEF Told, Present
  <1>2. CASE a \in {"channel.created", "channel.renamed"}
    BY <1>2 DEF Told, Present
  <1>3. CASE a = "channel.deleted"
    BY <1>3 DEF Told, Present
  <1>4. CASE a \in {"member.added", "member.departed", "member.role_changed"}
    BY <1>4 DEF Told, Present
  <1>5. CASE a = "invite.created"
    BY <1>5 DEF Told, Present
  <1>6. CASE a = "invite.revoked"
    BY <1>6 DEF Told, Present
  <1>7. CASE a \in {"channel.override_set", "channel.override_removed"}
    BY <1>7 DEF Told
  <1> QED
    BY <1>1, <1>2, <1>3, <1>4, <1>5, <1>6, <1>7

\* Each row is of a call that requires the permission behind it.
LEMMA RightsTable ==
    /\ Behind("workspace.renamed") = Needs("rename")
    /\ Behind("channel.created") = Needs("create_channel")
    /\ Behind("channel.renamed") = Needs("rename_channel")
    /\ Behind("channel.deleted") = Needs("delete_channel")
    /\ Behind("channel.override_set") = Needs("set_override")
    /\ Behind("channel.override_removed") = Needs("delete_override")
    /\ Behind("member.added") = Needs("add")
    /\ Behind("invite.created") = Needs("create_invite")
    /\ Behind("invite.revoked") = Needs("revoke_invite")
  BY DEF Behind, Needs

\* The row of a call past its gate tells of grounds that were there.
LEMMA RowJustified ==
    ASSUME TypedInv, NEW r \in Requests, Grounded(r), NEW action, NEW on, NEW value,
           req[r].kind \in Managing, req[r].step \notin {"channel", "gate", "require"},
           Behind(action) = Needs(req[r].kind),
           action = "channel.override_set" => req[r].kind = "set_override" /\ req[r].step = "write"
    PROVE  Justified(RowOf(r, action, on, value)) /\ RowOf(r, action, on, value).began \in Nat
  <1>1. Had(r, Behind(action)) /\ ask[r].began \in Nat
    BY DEF Grounded, TypedInv, Formed
  <1>2. \E n \in ask[r].began..Len(trail) : RoleHas(WorldAt[n].members[req[r].user], Behind(action))
    BY <1>1 DEF Had
  <1>3. action = "channel.override_set" /\ ask[r].subject \in Users =>
            \E n \in ask[r].began..Len(trail) : WorldAt[n].members[ask[r].subject] # None
    BY DEF Grounded
  <1> QED
    BY <1>1, <1>2, <1>3 DEF Justified, RowOf

\* A request that is over relies on nothing.
LEMMA DoneGrounded ==
    ASSUME AdminInv, NEW r \in Requests, End(r)
    PROVE  Grounded(r)'
  <1>1. req'[r].kind = "none"
    BY DEF AdminInv, Shape, End, Done, Blank
  <1> QED
    BY <1>1 DEF Grounded, Managing

\* A step of one request.
LEMMA HistoryStep ==
    ASSUME TypedInv, HistoryInv, NEW r \in Requests, Moves(r), Grounded(r)',
           UNCHANGED trail \/ \E e : trail' = Append(trail, e),
           TrailIsHistory' /\ GroundsHeld' /\ Dated'
    PROVE  HistoryInv'
  <1>1. \A q \in Requests \ {r} : Grounded(q)'
    BY GroundsKept DEF HistoryInv, Moves
  <1> QED
    BY <1>1 DEF HistoryInv

\* A step that changes nothing of what the audit tells.
LEMMA UntoldStep ==
    ASSUME TypedInv, HistoryInv, NEW r \in Requests, Moves(r), Grounded(r)',
           UNCHANGED <<trail, name, channels, members, invites>>
    PROVE  HistoryInv'
  <1>1. TrailIsHistory' /\ GroundsHeld' /\ Dated'
    BY HistoryStays DEF HistoryInv
  <1>2. trail' = trail
    OBVIOUS
  <1> QED
    BY <1>1, <1>2, HistoryStep

\* A change by a call past its gate, told as it happens, and the answer.
LEMMA ChangeTold ==
    ASSUME AdminInv, TypedInv, HistoryInv, NEW r \in Requests, NEW action, NEW on, NEW value,
           Change(r, action, on, value),
           req[r].kind \in Managing, req[r].step \notin {"channel", "gate", "require"},
           Behind(action) = Needs(req[r].kind),
           action = "channel.override_set" => req[r].kind = "set_override" /\ req[r].step = "write",
           Possible(Present, RowOf(r, action, on, value)),
           Told(Present, RowOf(r, action, on, value)) = Present'
    PROVE  HistoryInv'
  <1> DEFINE e == RowOf(r, action, on, value)
  <1>1. trail' = Append(trail, e) /\ Reply(r, "ok")
    BY DEF Change, RecordAudit, RowOf
  <1>2. Moves(r) /\ Grounded(r)'
    BY <1>1, ReplyEffect, EndEffect, DoneGrounded DEF AdminInv
  <1>3. Justified(e) /\ e.began \in Nat
    BY RowJustified DEF HistoryInv
  <1> HIDE DEF e
  <1>4. TrailIsHistory' /\ GroundsHeld' /\ Dated'
    BY <1>1, <1>3, HistoryGoesOn DEF HistoryInv, e
  <1> QED
    BY <1>1, <1>2, <1>4, HistoryStep

\* An answer that changes nothing.
LEMMA ReplyTold ==
    ASSUME AdminInv, TypedInv, HistoryInv, NEW r \in Requests, NEW answer, Reply(r, answer),
           UNCHANGED <<trail, name, channels, members, invites>>
    PROVE  HistoryInv'
  <1>1. Moves(r) /\ Grounded(r)'
    BY ReplyEffect, EndEffect, DoneGrounded DEF AdminInv
  <1> QED
    BY <1>1, UntoldStep

\* The row names the channel; what it tells of is a change of its name.
LEMMA ChannelTold ==
    ASSUME AdminInv, TypedInv, HistoryInv, NEW r \in Requests,
           CreateChannel(r) \/ RenameChannel(r) \/ DeleteChannel(r)
    PROVE  HistoryInv'
  <1> DEFINE n == ask[r].value
             on == ask[r].on
  <1>1. CASE (CreateChannel(r) \/ RenameChannel(r)) /\ NameTaken(r, n)
    <2>1. Reply(r, "BadInput") /\ UNCHANGED <<trail, name, channels, members, invites>>
      BY <1>1 DEF CreateChannel, RenameChannel, accountVars
    <2> QED
      BY <2>1, ReplyTold
  <1>2. CASE CreateChannel(r) /\ ~NameTaken(r, n)
    <2>1. PICK d \in ConversationIds :
              /\ Insert(d, "channel", req[r].seen)
              /\ channels' = [channels EXCEPT ![d] = n]
              /\ Change(r, "channel.created", d, n)
      BY <1>2 DEF CreateChannel, Known
    <2>2. /\ req[r].kind = "create_channel" /\ req[r].step = "name" /\ ~NameTaken(r, n)
          /\ UNCHANGED <<name, members, invites>>
      BY <1>2 DEF CreateChannel, At, accountVars
    <2>3. conversations[d].kind = "none" /\ channels[d] = None
      BY <2>1 DEF Insert, TypedInv, Tables, AdminTables, ChannelTables
    <2>4. \A x \in ConversationIds : channels[x] # n
      BY <2>2, RoomsAssumption DEF NameTaken, Holding, ConversationIds, TypedInv, Formed
    <2> DEFINE e == RowOf(r, "channel.created", d, n)
    <2>5. e.action = "channel.created" /\ e.on = d /\ e.value = n
      BY DEF RowOf
    <2> HIDE DEF e
    <2>6. Possible(Present, e)
      BY <2>3, <2>4, <2>5 DEF Possible, Present
    <2>7. Told(Present, e) = Present'
      <3>1. Present' = [Present EXCEPT !.channels = [channels EXCEPT ![d] = n]]
        BY <2>1, <2>2 DEF Present
      <3> QED
        BY <2>5, <3>1, ToldIs
    <2> QED
      BY <2>1, <2>2, <2>6, <2>7, RightsTable, ChangeTold DEF Managing, e
  <1>3. CASE RenameChannel(r) /\ ~NameTaken(r, n)
    <2>1. /\ channels' = [channels EXCEPT ![on] = n] /\ Change(r, "channel.renamed", on, n)
          /\ req[r].kind = "rename_channel" /\ req[r].step = "name" /\ ~NameTaken(r, n)
          /\ UNCHANGED <<name, members, invites>>
      BY <1>3 DEF RenameChannel, At, accountVars
    <2>2. channels[on] # None
      BY <2>1 DEF TypedInv, Formed
    <2>3. \A x \in ConversationIds \ {on} : channels[x] # n
      BY <2>1 DEF NameTaken, Holding
    <2> DEFINE e == RowOf(r, "channel.renamed", on, n)
    <2>4. e.action = "channel.renamed" /\ e.on = on /\ e.value = n
      BY DEF RowOf
    <2> HIDE DEF e
    <2>5. Possible(Present, e)
      BY <2>2, <2>3, <2>4 DEF Possible, Present
    <2>6. Told(Present, e) = Present'
      <3>1. Present' = [Present EXCEPT !.channels = [channels EXCEPT ![on] = n]]
        BY <2>1 DEF Present
      <3> QED
        BY <2>4, <3>1, ToldIs
    <2> QED
      BY <2>1, <2>5, <2>6, RightsTable, ChangeTold DEF Managing, e
  <1>4. CASE DeleteChannel(r)
    <2>1. /\ channels' = [channels EXCEPT ![on] = None] /\ Change(r, "channel.deleted", on, n)
          /\ req[r].kind = "delete_channel" /\ req[r].step = "delete"
          /\ UNCHANGED <<name, members, invites>>
      BY <1>4 DEF DeleteChannel, At, accountVars
    <2>2. channels[on] # None
      BY <2>1 DEF TypedInv, Formed
    <2> DEFINE e == RowOf(r, "channel.deleted", on, n)
    <2>3. e.action = "channel.deleted" /\ e.on = on
      BY DEF RowOf
    <2> HIDE DEF e
    <2>4. Possible(Present, e)
      BY <2>2, <2>3 DEF Possible, Present
    <2>5. Told(Present, e) = Present'
      <3>1. Present' = [Present EXCEPT !.channels = [channels EXCEPT ![on] = None]]
        BY <2>1 DEF Present
      <3> QED
        BY <2>3, <3>1, ToldIs
    <2> QED
      BY <2>1, <2>4, <2>5, RightsTable, ChangeTold DEF Managing, e
  <1> QED
    BY <1>1, <1>2, <1>3, <1>4

\* The requests and the tables stay.
LEMMA StillTold ==
    ASSUME TypedInv, HistoryInv, UNCHANGED <<req, ask, trail, name, channels, members, invites>>
    PROVE  HistoryInv'
  <1>1. TrailIsHistory' /\ GroundsHeld' /\ Dated'
    BY HistoryStays DEF HistoryInv
  <1>2. \A r \in Requests : Grounded(r)'
    BY GroundsKept DEF HistoryInv
  <1> QED
    BY <1>1, <1>2 DEF HistoryInv

\* A call that begins, or one of another module, relies on nothing yet.
LEMMA Unfounded ==
    ASSUME NEW r \in Requests,
           \/ req'[r].kind \notin AdminKinds
           \/ req'[r].step \in {"channel", "gate", "require"}
           \/ req'[r].step = "view" /\ req'[r].kind \notin Managing
           \/ req'[r].kind = "list_workspaces"
    PROVE  Grounded(r)'
  BY DEF Grounded, Managing, AdminKinds, ChannelCalls

\* A call that passes its gate now.
LEMMA GatePassed ==
    ASSUME TypedInv, TrailIsHistory, NEW r \in Requests, SameCall(r), UNCHANGED trail,
           ask'[r].began = ask[r].began, NEW permission,
           Refusal(req[r].user, permission) = "ok"
    PROVE  Had(r, permission)'
  <1>1. RoleHas(members[req[r].user], permission)
    BY DEF Refusal
  <1>2. WorldAt[Len(trail)].members = members
    BY DEF TrailIsHistory
  <1>3. Len(trail) \in ask[r].began..Len(trail)
    BY OneMore DEF TypedInv, Formed
  <1>4. WorldAt' = WorldAt
    BY HistoryRests
  <1>5. RoleHas(WorldAt'[Len(trail)].members[req'[r].user], permission)
    BY <1>1, <1>2, <1>4 DEF SameCall
  <1> QED
    BY <1>3, <1>5 DEF Had

\* A call past its gate that goes on.
LEMMA GroundsGoOn ==
    ASSUME TypedInv, HistoryInv, NEW r \in Requests, SameCall(r),
           UNCHANGED trail \/ \E e : trail' = Append(trail, e),
           ask'[r].began = ask[r].began, req[r].kind \in Managing,
           req[r].step \notin {"channel", "gate", "require"},
           req[r].kind = "set_override" => req'[r].step # "write"
    PROVE  Grounded(r)'
  <1>1. Had(r, Needs(req[r].kind))
    BY DEF HistoryInv, Grounded
  <1>2. Had(r, Needs(req[r].kind))'
    <2>1. /\ ask[r].began..Len(trail) \subseteq ask'[r].began..Len(trail')
          /\ \A n \in ask[r].began..Len(trail) : WorldAt'[n] = WorldAt[n]
      BY PastKept
    <2>2. PICK n \in ask[r].began..Len(trail) :
              RoleHas(WorldAt[n].members[req[r].user], Needs(req[r].kind))
      BY <1>1 DEF Had
    <2>3. RoleHas(WorldAt'[n].members[req'[r].user], Needs(req'[r].kind))
      BY <2>1, <2>2 DEF SameCall
    <2> QED
      BY <2>1, <2>2, <2>3 DEF Had
  <1>3. req'[r].kind = req[r].kind
    BY DEF SameCall
  <1> QED
    BY <1>2, <1>3 DEF Grounded, Managing

\* The requests of rooms: none of them is of the administration.
LEMMA RoomsTold ==
    ASSUME AdminInv, TypedInv, HistoryInv, NEW r \in Requests, RoomServe(r), UNCHANGED adminVars
    PROVE  HistoryInv'
  <1>1. Moves(r) /\ AskKept(r)
    BY RoomGentle, AskUnchanged DEF AdminInv, Gentle, adminVars
  <1>2. UNCHANGED <<trail, name, channels, members, invites>>
    <2>1. UNCHANGED members
      BY DEF RoomServe, BeginRoom, Begin, NamedGroup, BeginGroup, LockPair, FindDm, CreateDm,
             CreateGroup, ListRows, ListMembers, ListProfiles, CheckHistory, ReadHistory, Admit,
             TypingGate, LockSeat, ReadRecipients, Publish, LoseTyping, accountVars
    <2> QED
      BY <2>1 DEF adminVars, tables
  <1>3. req'[r].kind \notin AdminKinds
    <2>1. CASE End(r)
      BY <1>1, <2>1, EndEffect, KindsApart DEF AdminInv, AccountKinds
    <2>2. CASE BeginRoom(r)
      <3>1. PICK s, kind, step, target :
                /\ s \in SessionIds /\ kind \in {"dm", "rooms", "history"}
                /\ Begin(r, kind, step, s, target)
        BY <2>2 DEF BeginRoom, Callers
      <3> QED
        BY <1>1, <3>1, BeginMoves, KindsApart DEF AdminInv
    <2>3. CASE NamedGroup(r)
      <3>1. PICK s \in Callers, named \in SUBSET Users :
                req' = [req EXCEPT ![r] = [Blank EXCEPT !.kind = "group", !.step = "create",
                           !.session = s, !.user = sessions[s].owner, !.seen = named]]
        BY <2>3 DEF NamedGroup, BeginGroup
      <3>2. req'[r].kind = "group"
        BY <3>1 DEF AdminInv, Shape, Blank, Fields
      <3> QED
        BY <3>2, KindsApart
    <2>4. CASE \E s \in Callers, c \in Known : Admit(r, s, c) /\ ~End(r)
      <3>1. PICK s \in Callers, c \in Known :
                req' = [req EXCEPT ![r] = [Blank EXCEPT !.kind = "typing", !.step = "gate",
                           !.session = s, !.user = sessions[s].owner, !.target = c, !.at = now]]
        BY <2>4 DEF Admit
      <3>2. req'[r].kind = "typing"
        BY <3>1 DEF AdminInv, Shape, Blank, Fields
      <3> QED
        BY <3>2, KindsApart
    <2>5. CASE /\ ~End(r)
               /\ \/ LockPair(r) \/ FindDm(r) \/ ListRows(r) \/ ListMembers(r) \/ CheckHistory(r)
                  \/ TypingGate(r) \/ LockSeat(r) \/ ReadRecipients(r)
      <3>1. req[r].kind \in {"dm", "rooms", "history", "typing"}
        BY <2>5 DEF LockPair, FindDm, ListRows, ListMembers, CheckHistory, TypingGate, LockSeat,
               ReadRecipients, Serves
      <3>2. req'[r].kind = req[r].kind
        <4>1. CASE LockPair(r) \/ FindDm(r) \/ CheckHistory(r) \/ TypingGate(r) \/ LockSeat(r)
          <5>1. (\E step : To(r, step)) \/ \E lock, step : Take(r, lock, step)
            BY <2>5, <4>1 DEF LockPair, FindDm, CheckHistory, TypingGate, LockSeat
          <5> QED
            BY <1>1, <5>1, ToEffect, TakeEffect DEF AdminInv, SameCall
        <4>2. CASE ListRows(r) \/ ReadRecipients(r)
          BY <4>2 DEF AdminInv, Shape, Fields, ListRows, ReadRecipients
        <4>3. CASE ListMembers(r)
          BY <4>3 DEF AdminInv, Shape, Fields, ListMembers
        <4> QED
          BY <2>5, <4>1, <4>2, <4>3
      <3> QED
        BY <3>1, <3>2, KindsApart
    <2>6. CASE ~End(r)
      <3>1. ~ (\/ CreateDm(r) \/ CreateGroup(r) \/ ListProfiles(r) \/ ReadHistory(r)
               \/ Publish(r) \/ LoseTyping(r))
        BY <2>6 DEF CreateDm, CreateGroup, ListProfiles, ReadHistory, Publish, LoseTyping
      <3> QED
        BY <2>2, <2>3, <2>4, <2>5, <2>6, <3>1 DEF RoomServe
    <2> QED
      BY <2>1, <2>6
  <1> QED
    BY <1>1, <1>2, <1>3, Unfounded, UntoldStep

\* Nor of the requests of accounts.
LEMMA AccountsTold ==
    ASSUME AdminInv, TypedInv, HistoryInv, NEW r \in Requests, AccountServe(r), UNCHANGED adminVars
    PROVE  HistoryInv'
  <1>1. /\ AskKept(r) /\ UNCHANGED <<roomVars, adminVars, ask, trail, name, channels, invites>>
        /\ Serve(r) \/ Lose(r)
    BY AskUnchanged DEF AdminInv, AccountServe, adminVars, tables
  <1>2. UNCHANGED members
    BY <1>1 DEF Serve, Lose, BeginAny, Begin, Anonymous, Register, Login, LoginRefused,
           EnsureWallet, Logout, RegisterDevice, LockOwned, CheckCaller, RevokeTarget, LockSession,
           LockMember, CheckReader, Read, accountVars
  <1>3. Moves(r) /\ req'[r].kind \notin AdminKinds
    <2>1. CASE End(r)
      BY <1>1, <2>1, EndEffect, KindsApart DEF AdminInv, AccountKinds
    <2>2. CASE BeginAny(r)
      <3>1. PICK s, kind, step, target :
                s \in SessionIds /\ kind \in AccountKinds /\ Begin(r, kind, step, s, target)
        BY <2>2 DEF BeginAny, AccountKinds, Reads, SessionReads, DirectoryReads
      <3> QED
        BY <1>1, <3>1, BeginMoves, KindsApart DEF AdminInv
    <2>3. CASE Anonymous(r) /\ ~End(r)
      <3>1. \E u \in Users :
                req' = [req EXCEPT ![r] = [Blank EXCEPT !.kind = "register", !.step = "wallet",
                                                        !.user = u]]
        BY <2>3 DEF Anonymous, Register, Login, LoginRefused
      <3>2. /\ DOMAIN req' = Requests /\ DOMAIN req'[r] = Fields
            /\ \A q \in Requests \ {r} : req'[q] = req[q]
            /\ req'[r].held = {} /\ req'[r].kind = "register"
        BY <3>1 DEF AdminInv, Shape, Blank, Fields
      <3> QED
        BY <1>1, <3>2, KindsApart DEF Moves, AskKept, AccountKinds
    <2>4. CASE /\ ~End(r)
               /\ \/ LockOwned(r) \/ CheckCaller(r)
                  \/ LockSession(r) \/ LockMember(r) \/ CheckReader(r)
      <3>1. req[r].kind \in AccountKinds
        BY <2>4 DEF LockOwned, CheckCaller, LockSession, LockMember, CheckReader, Serves,
               AccountKinds, Reads
      <3>2. \/ \E step : To(r, step)
            \/ \E lock, step : Take(r, lock, step)
            \/ LockMember(r)
        BY <2>4 DEF LockOwned, CheckCaller, LockSession, CheckReader
      <3>3. Moves(r) /\ SameCall(r)
        BY <1>1, <3>2, ToEffect, TakeEffect, LockMemberEffect DEF AdminInv
      <3> QED
        BY <3>1, <3>3, KindsApart DEF SameCall
    <2>5. \/ End(r)
          \/ ~ (\/ EnsureWallet(r) \/ Logout(r) \/ RevokeTarget(r) \/ Read(r) \/ Lose(r)
                \/ \E identity, agreement \in Keys : RegisterDevice(r, identity, agreement))
      BY DEF EnsureWallet, Logout, RevokeTarget, Read, Lose, RegisterDevice
    <2> QED
      BY <1>1, <2>1, <2>2, <2>3, <2>4, <2>5 DEF Serve
  <1> QED
    BY <1>1, <1>2, <1>3, Unfounded, UntoldStep

-----------------------------------------------------------------------------
(* The administration: gates, looks and locks.                             *)

\* A step of the administration that leaves the tables.
LEMMA ReadingTold ==
    ASSUME AdminInv, TypedInv, HistoryInv, NEW r \in Requests, Reading, AskKept(r), Moves(r),
           Grounded(r)'
    PROVE  HistoryInv'
  <1>1. UNCHANGED <<trail, name, channels, members, invites>>
    BY DEF Reading, accountVars, tables
  <1> QED
    BY <1>1, UntoldStep

\* An answer with no table changed.
LEMMA AnsweredTold ==
    ASSUME AdminInv, TypedInv, HistoryInv, NEW r \in Requests, Reading,
           \E answer : Reply(r, answer)
    PROVE  HistoryInv'
  <1>1. UNCHANGED <<trail, name, channels, members, invites>>
    BY DEF Reading, accountVars, tables
  <1> QED
    BY <1>1, ReplyTold

\* A call comes in.
LEMMA RoutesTold ==
    ASSUME AdminInv, TypedInv, HistoryInv, NEW r \in Requests, NEW s \in Callers,
           \/ WorkspaceRoutes(r, s) \/ MemberRoutes(r, s) \/ ChannelRoutes(r, s)
           \/ OverrideRoutes(r, s) \/ InviteRoutes(r, s) \/ AuditRoute(r, s)
    PROVE  HistoryInv'
  <1>1. PICK kind, step, on, value :
            /\ Administer(r, s, kind, step, on, value)
            /\ \/ step \in {"channel", "gate", "require"}
               \/ step = "view" /\ kind \in {"get_workspace", "list_channels"}
               \/ kind = "list_workspaces"
    BY DEF WorkspaceRoutes, MemberRoutes, ChannelRoutes, OverrideRoutes, InviteRoutes, AuditRoute
  <1>2. Begin(r, kind, step, s, None) /\ AskKept(r) /\ s \in SessionIds
    BY <1>1 DEF AdminInv, Shape, Administer, AskKept, Callers
  <1>3. Moves(r) /\ req'[r].kind = kind /\ req'[r].step = step /\ UNCHANGED members
    BY <1>2, BeginMoves DEF AdminInv
  <1>4. Grounded(r)'
    BY <1>1, <1>3, Unfounded DEF Managing
  <1>5. UNCHANGED <<trail, name, channels, members, invites>>
    BY <1>1, <1>3 DEF Administer, tables
  <1> QED
    BY <1>3, <1>4, <1>5, UntoldStep

\* The gates of the reads, and of the route that looks up a handle.
LEMMA GatesTold ==
    ASSUME AdminInv, TypedInv, HistoryInv, NEW r \in Requests,
           GetWorkspace(r) \/ GateBeforeLookup(r) \/ ListInvites(r) \/ ListAudit(r)
    PROVE  HistoryInv'
  <1>1. Reading
    BY DEF GetWorkspace, GateBeforeLookup, ListInvites, ListAudit, Page
  <1>2. CASE \E answer : Reply(r, answer)
    BY <1>1, <1>2, AnsweredTold
  <1>3. CASE ~ \E answer : Reply(r, answer)
    <2>1. PICK step, permission :
              /\ step \in {"page", "handle"}
              /\ To(r, step) /\ UNCHANGED ask
              /\ Refusal(req[r].user, permission) = "ok"
              /\ \/ permission = "View" /\ req[r].kind \in {"get_workspace", "list_channels"}
                 \/ /\ permission = Needs(req[r].kind)
                    /\ req[r].kind \in {"list_invites", "list_audit", "add"}
      <3>1. CASE GetWorkspace(r)
        BY <1>3, <3>1 DEF GetWorkspace, OnOrOut, At
      <3>2. CASE GateBeforeLookup(r)
        BY <1>3, <3>2 DEF GateBeforeLookup, OnOrOut, At, Permitted
      <3>3. CASE ListInvites(r)
        BY <1>3, <3>3 DEF ListInvites, Page, OnOrOut, At, Permitted
      <3>4. CASE ListAudit(r)
        BY <1>3, <3>4 DEF ListAudit, Page, OnOrOut, At, Permitted
      <3> QED
        BY <3>1, <3>2, <3>3, <3>4
    <2>2. AskKept(r) /\ UNCHANGED trail
      BY <1>1, <2>1, AskUnchanged DEF AdminInv, Reading
    <2>3. Moves(r) /\ SameCall(r) /\ req'[r].step = step
      BY <2>1, <2>2, ToEffect DEF AdminInv
    <2>4. Had(r, permission)'
      BY <2>1, <2>2, <2>3, GatePassed DEF HistoryInv
    <2>5. req'[r].kind = req[r].kind
      BY <2>3 DEF SameCall
    <2>6. Grounded(r)'
      BY <2>1, <2>4, <2>5 DEF Grounded, Managing
    <2> QED
      BY <1>1, <2>2, <2>3, <2>6, ReadingTold
  <1> QED
    BY <1>2, <1>3

\* The channel looked up, the handle resolved, the target of an override ranked.
LEMMA LooksTold ==
    ASSUME AdminInv, TypedInv, HistoryInv, NEW r \in Requests,
           GetChannel(r) \/ LookupHandle(r) \/ OverrideTarget(r)
    PROVE  HistoryInv'
  <1>1. Reading /\ UNCHANGED trail
    BY DEF GetChannel, LookupHandle, OverrideTarget, Reading
  <1>2. CASE \E answer : Reply(r, answer)
    BY <1>1, <1>2, AnsweredTold
  <1>3. CASE GetChannel(r) /\ ~ \E answer : Reply(r, answer)
    <2>1. /\ req[r].kind \in ChannelCalls \ {"get_channel"}
          /\ Refusal(req[r].user, "View") = "ok"
          /\ To(r, IF req[r].kind = "list_overrides" THEN "page" ELSE "require")
          /\ \E value : ask' = [ask EXCEPT ![r].value = value]
      BY <1>3 DEF GetChannel, At
    <2>2. AskKept(r) /\ ask'[r].began = ask[r].began
      BY <2>1 DEF AdminInv, Shape, TypedInv, Formed, AskKept, AskFields
    <2>3. /\ Moves(r) /\ SameCall(r) /\ req'[r].kind = req[r].kind
          /\ req'[r].step = IF req[r].kind = "list_overrides" THEN "page" ELSE "require"
      BY <2>1, <2>2, ToEffect DEF AdminInv, SameCall
    <2>4. Had(r, "View")'
      BY <1>1, <2>1, <2>2, <2>3, GatePassed DEF HistoryInv
    <2>5. Grounded(r)'
      BY <2>3, <2>4 DEF Grounded, Managing
    <2> QED
      BY <1>1, <2>2, <2>3, <2>5, ReadingTold
  <1>4. CASE LookupHandle(r) /\ ~ \E answer : Reply(r, answer)
    <2>1. PICK u \in Users, role \in Roles :
              To(r, "require") /\ ask' = [ask EXCEPT ![r].on = u, ![r].value = role]
      BY <1>4 DEF LookupHandle
    <2>2. AskKept(r)
      BY <2>1 DEF AdminInv, Shape, AskKept
    <2>3. Moves(r) /\ req'[r].step = "require"
      BY <2>1, <2>2, ToEffect DEF AdminInv
    <2> QED
      BY <1>1, <2>2, <2>3, Unfounded, ReadingTold
  <1>5. CASE OverrideTarget(r) /\ ~ \E answer : Reply(r, answer)
    <2>1. PICK subject \in Subjects :
              /\ To(r, "write") /\ ask' = [ask EXCEPT ![r].subject = subject]
              /\ RoleNamed(subject) # None
              /\ req[r].kind = "set_override" /\ req[r].step = "target"
      BY <1>5 DEF OverrideTarget, At
    <2>2. /\ AskKept(r) /\ ask'[r].began = ask[r].began /\ ask'[r].subject = subject
      BY <2>1 DEF AdminInv, Shape, TypedInv, Formed, AskKept, AskFields
    <2>3. /\ Moves(r) /\ SameCall(r) /\ req'[r].step = "write"
          /\ req'[r].kind = req[r].kind /\ req'[r].user = req[r].user
      BY <2>1, <2>2, ToEffect DEF AdminInv, SameCall
    <2>4. WorldAt' = WorldAt
      BY <1>1, HistoryRests
    <2>5. Had(r, Needs("set_override"))
      BY <2>1 DEF HistoryInv, Grounded, Managing
    <2>6. Had(r, Needs("set_override"))'
      BY <1>1, <2>2, <2>3, <2>4, <2>5 DEF Had
    <2>7. subject \in Users => members[subject] # None
      BY <2>1 DEF RoleNamed
    <2>8. WorldAt[Len(trail)].members = members
      BY DEF HistoryInv, TrailIsHistory
    <2>9. Len(trail) \in ask[r].began..Len(trail)
      BY OneMore DEF TypedInv, Formed
    <2>10. ask'[r].subject \in Users =>
               \E n \in ask'[r].began..Len(trail') : WorldAt'[n].members[ask'[r].subject] # None
      BY <1>1, <2>2, <2>4, <2>7, <2>8, <2>9
    <2>11. Grounded(r)'
      BY <2>1, <2>3, <2>6, <2>10 DEF Grounded, Managing
    <2> QED
      BY <1>1, <2>2, <2>3, <2>11, ReadingTold
  <1> QED
    BY <1>2, <1>3, <1>4, <1>5

\* The permission that a call needs is found.
LEMMA RequireTold ==
    ASSUME AdminInv, TypedInv, HistoryInv, NEW r \in Requests, Require(r)
    PROVE  HistoryInv'
  <1>1. Reading /\ UNCHANGED trail
    BY DEF Require, Reading
  <1>2. CASE \E answer : Reply(r, answer)
    BY <1>1, <1>2, AnsweredTold
  <1>3. CASE ~ \E answer : Reply(r, answer)
    <2> DEFINE kind == req[r].kind
    <2>1. PICK value :
              /\ req' = [req EXCEPT ![r].step = FirstStatement(kind),
                                    ![r].role = members[req[r].user]]
              /\ ask' = [ask EXCEPT ![r].value = value]
              /\ Refusal(req[r].user, Needs(kind)) = "ok"
      BY <1>3 DEF Require, Permitted
    <2>2. req[r].step = "require" /\ kind \in Kinds /\ req[r].step \in StepsOf(kind)
      BY DEF Require, TypedInv, Formed
    <2>3. kind \in {"rename", "add", "create_channel", "rename_channel", "delete_channel",
                    "set_override", "delete_override", "create_invite", "revoke_invite"}
      BY <2>2, StepTable, RoomStepTable, AdminStepTable
         DEF Kinds, AdminKinds, ChannelCalls, AccountKinds, Reads, SessionReads, DirectoryReads
    <2>4. kind = "set_override" => FirstStatement(kind) = "target"
      BY DEF FirstStatement
    <2>5. AskKept(r) /\ ask'[r].began = ask[r].began
      BY <2>1 DEF AdminInv, Shape, TypedInv, Formed, AskKept, AskFields
    <2>6. Moves(r) /\ SameCall(r) /\ req'[r].step = FirstStatement(kind) /\ req'[r].kind = kind
      BY <2>1, <2>5 DEF AdminInv, Shape, Moves, SameCall, AskKept, Fields
    <2>7. Had(r, Needs(kind))'
      BY <1>1, <2>1, <2>5, <2>6, GatePassed DEF HistoryInv
    <2>8. Grounded(r)'
      BY <2>3, <2>4, <2>6, <2>7 DEF Grounded
    <2> QED
      BY <1>1, <2>5, <2>6, <2>8, ReadingTold
  <1> QED
    BY <1>2, <1>3

\* The members listed, the rows of a channel locked.
LEMMA HoldsTold ==
    ASSUME AdminInv, TypedInv, HistoryInv, NEW r \in Requests,
           Snapshot(r) \/ LockChannel(r) \/ LockDoomed(r)
    PROVE  HistoryInv'
  <1> DEFINE c == ask[r].on
  <1>1. Reading /\ UNCHANGED trail
    BY DEF Snapshot, LockChannel, LockDoomed, Reading
  <1>2. CASE \E answer : Reply(r, answer)
    BY <1>1, <1>2, AnsweredTold
  <1>3. CASE ~ \E answer : Reply(r, answer)
    <2>1. /\ req[r].kind \in {"create_channel", "rename_channel", "delete_channel"}
          /\ req[r].step \in {"snapshot", "row"} /\ UNCHANGED ask
      BY <1>3 DEF Snapshot, LockChannel, LockDoomed, At
    <2>2. AskKept(r) /\ ask'[r].began = ask[r].began
      BY <2>1, AskUnchanged DEF AdminInv
    <2>3. Moves(r) /\ SameCall(r)
      <3>1. CASE Snapshot(r)
        <4>1. PICK seen : req' = [req EXCEPT ![r].step = "name", ![r].seen = seen]
          BY <3>1 DEF Snapshot
        <4> QED
          BY <2>2, <4>1, SeenEffect DEF AdminInv
      <3>2. CASE LockChannel(r)
        BY <1>3, <2>2, <3>2, TakeEffect DEF AdminInv, LockChannel
      <3>3. CASE LockDoomed(r)
        <4>1. /\ req' = [req EXCEPT ![r].held = DoomedRows(c), ![r].step = "delete"]
              /\ \A lock \in DoomedRows(c) : Free(r, lock)
          BY <1>3, <3>3 DEF LockDoomed
        <4> QED
          BY <2>2, <4>1 DEF AdminInv, Shape, Moves, SameCall, AskKept, Fields
      <3> QED
        BY <3>1, <3>2, <3>3
    <2>4. Grounded(r)'
      BY <1>1, <2>1, <2>2, <2>3, GroundsGoOn DEF Managing
    <2> QED
      BY <1>1, <2>2, <2>3, <2>4, ReadingTold
  <1> QED
    BY <1>2, <1>3

\* The answers of the reads, and of what was refused unread.
LEMMA PagesTold ==
    ASSUME AdminInv, TypedInv, HistoryInv, NEW r \in Requests,
           \/ ShowWorkspace(r) \/ ListWorkspaces(r) \/ ListChannels(r) \/ ListOverrides(r)
           \/ AnswerRename(r) \/ Malformed(r)
    PROVE  HistoryInv'
  <1>1. CASE Malformed(r)
    <2>1. End(r) /\ UNCHANGED <<trail, name, channels, members, invites, ask>>
      BY <1>1 DEF Malformed, accountVars, adminVars, tables
    <2>2. Moves(r) /\ Grounded(r)'
      BY <2>1, AskUnchanged, EndEffect, DoneGrounded DEF AdminInv
    <2> QED
      BY <2>1, <2>2, UntoldStep
  <1>2. CASE ~Malformed(r)
    <2>1. Reading /\ \E answer : Reply(r, answer)
      BY <1>2 DEF ShowWorkspace, ListWorkspaces, ListChannels, ListOverrides, AnswerRename, Page
    <2> QED
      BY <2>1, AnsweredTold
  <1> QED
    BY <1>1, <1>2

-----------------------------------------------------------------------------
(* The administration: what is told.                                       *)

\* The name changes and is told; the answer is still to come.
LEMMA RenameTold ==
    ASSUME AdminInv, TypedInv, HistoryInv, NEW r \in Requests, RenameWorkspace(r)
    PROVE  HistoryInv'
  <1> DEFINE action == "workspace.renamed"
             e == [actor |-> req[r].user, action |-> action, on |-> None,
                   value |-> ask[r].value, subject |-> None, began |-> ask[r].began]
  <1>1. /\ req[r].kind = "rename" /\ req[r].step = "write" /\ To(r, "role")
        /\ name' = ask[r].value /\ trail' = Append(trail, e)
        /\ UNCHANGED <<channels, members, invites, ask>>
    BY DEF RenameWorkspace, RecordAudit, At, accountVars
  <1>2. /\ e.actor = req[r].user /\ e.action = action /\ e.value = ask[r].value
        /\ e.began = ask[r].began
    OBVIOUS
  <1>3. Possible(Present, e)
    BY <1>2 DEF Possible
  <1>4. Told(Present, e) = Present'
    <2>1. Present' = [Present EXCEPT !.name = ask[r].value]
      BY <1>1 DEF Present
    <2> QED
      BY <1>2, <2>1, ToldIs
  <1>5. Had(r, Behind(action))
    BY <1>1, RightsTable DEF HistoryInv, Grounded, Managing
  <1>6. Justified(e) /\ e.began \in Nat
    <2>1. e.began \in Nat
      BY <1>2 DEF TypedInv, Formed
    <2> QED
      BY <1>2, <1>5, <2>1 DEF Justified, Had
  <1> HIDE DEF e
  <1>7. TrailIsHistory' /\ GroundsHeld' /\ Dated'
    BY <1>1, <1>3, <1>4, <1>6, HistoryGoesOn DEF HistoryInv
  <1>8. AskKept(r) /\ ask'[r].began = ask[r].began
    BY <1>1, AskUnchanged DEF AdminInv
  <1>9. Moves(r) /\ SameCall(r)
    BY <1>1, <1>8, ToEffect DEF AdminInv
  <1>10. Grounded(r)'
    <2>1. \E f : trail' = Append(trail, f)
      BY <1>1
    <2> QED
      BY <1>1, <1>8, <1>9, <2>1, GroundsGoOn DEF Managing
  <1> QED
    BY <1>1, <1>7, <1>9, <1>10, HistoryStep

\* A member is added and told of.
LEMMA AddTold ==
    ASSUME AdminInv, TypedInv, HistoryInv, NEW r \in Requests, AddMember(r)
    PROVE  HistoryInv'
  <1> DEFINE u == ask[r].on
             role == ask[r].value
  <1>1. CASE members[u] # None
    <2>1. Reply(r, "BadInput") /\ UNCHANGED <<trail, name, channels, members, invites>>
      BY <1>1 DEF AddMember, tables
    <2> QED
      BY <2>1, ReplyTold
  <1>2. CASE members[u] = None
    <2>1. /\ members' = [members EXCEPT ![u] = role] /\ Change(r, "member.added", u, role)
          /\ req[r].kind = "add" /\ req[r].step = "write"
          /\ UNCHANGED <<name, channels, invites>>
      BY <1>2 DEF AddMember, At, tables
    <2> DEFINE e == RowOf(r, "member.added", u, role)
    <2>2. e.action = "member.added" /\ e.on = u /\ e.value = role
      BY DEF RowOf
    <2> HIDE DEF e
    <2>3. Possible(Present, e)
      BY <1>2, <2>2 DEF Possible, Present
    <2>4. Told(Present, e) = Present'
      <3>1. Present' = [Present EXCEPT !.members = [members EXCEPT ![u] = role]]
        BY <2>1 DEF Present
      <3> QED
        BY <2>2, <3>1, ToldIs
    <2> QED
      BY <2>1, <2>3, <2>4, RightsTable, ChangeTold DEF Managing, e
  <1> QED
    BY <1>1, <1>2

\* The calls of module Workspace tell of a member, and are over.
LEMMA LeftTold ==
    ASSUME AdminInv, TypedInv, HistoryInv, NEW r \in Requests, End(r), UNCHANGED ask,
           NEW e, trail' = Append(trail, e),
           Possible(Present, e), Told(Present, e) = Present', Justified(e), e.began \in Nat
    PROVE  HistoryInv'
  <1>1. TrailIsHistory' /\ GroundsHeld' /\ Dated'
    BY HistoryGoesOn DEF HistoryInv
  <1>2. Moves(r) /\ Grounded(r)'
    BY AskUnchanged, EndEffect, DoneGrounded DEF AdminInv
  <1>3. \E f : trail' = Append(trail, f)
    OBVIOUS
  <1> QED
    BY <1>1, <1>2, <1>3, HistoryStep

\* A member leaves or gets another role, and is told of.
LEMMA MembersTold ==
    ASSUME AdminInv, TypedInv, HistoryInv, NEW r \in Requests, NEW u \in Users,
           Departure(r, u) \/ \E role \in Roles : Promotion(r, u, role)
    PROVE  HistoryInv'
  <1>1. CASE Departure(r, u)
    <2> DEFINE e == [actor |-> None, action |-> "member.departed", on |-> u, value |-> None,
                     subject |-> None, began |-> 0]
    <2>1. /\ End(r) /\ members[u] # None /\ members' = [members EXCEPT ![u] = None]
          /\ trail' = Append(trail, e)
          /\ UNCHANGED <<name, channels, invites, ask>>
      BY <1>1 DEF Departure, Depart, Kick, Ban, RecordAudit
    <2>2. /\ e.action = "member.departed" /\ e.on = u /\ e.value = None /\ e.actor = None
          /\ e.began \in Nat
      OBVIOUS
    <2> HIDE DEF e
    <2>3. Possible(Present, e)
      BY <2>1, <2>2 DEF Possible, Present
    <2>4. Told(Present, e) = Present'
      <3>1. Present' = [Present EXCEPT !.members = [members EXCEPT ![u] = None]]
        BY <2>1 DEF Present
      <3> QED
        BY <2>2, <3>1, ToldIs
    <2>5. Justified(e)
      BY <2>2 DEF Justified
    <2> QED
      BY <2>1, <2>2, <2>3, <2>4, <2>5, LeftTold
  <1>2. ASSUME NEW role \in Roles, Promotion(r, u, role)
        PROVE  HistoryInv'
    <2> DEFINE e == [actor |-> None, action |-> "member.role_changed", on |-> u, value |-> role,
                     subject |-> None, began |-> 0]
    <2>1. /\ End(r) /\ members[u] # None /\ members' = [members EXCEPT ![u] = role]
          /\ trail' = Append(trail, e)
          /\ UNCHANGED <<name, channels, invites, ask>>
      BY <1>2 DEF Promotion, Promote, SetRole, RecordAudit, tables
    <2>2. /\ e.action = "member.role_changed" /\ e.on = u /\ e.value = role /\ e.actor = None
          /\ e.began \in Nat
      OBVIOUS
    <2> HIDE DEF e
    <2>3. Possible(Present, e)
      BY <2>1, <2>2 DEF Possible, Present
    <2>4. Told(Present, e) = Present'
      <3>1. Present' = [Present EXCEPT !.members = [members EXCEPT ![u] = role]]
        BY <2>1 DEF Present
      <3> QED
        BY <2>2, <3>1, ToldIs
    <2>5. Justified(e)
      BY <2>2 DEF Justified
    <2> QED
      BY <2>1, <2>2, <2>3, <2>4, <2>5, LeftTold
  <1> QED
    BY <1>1, <1>2

\* An override is told of, and changes nothing that is replayed.
LEMMA OverridesTold ==
    ASSUME AdminInv, TypedInv, HistoryInv, NEW r \in Requests, SetOverride(r) \/ DeleteOverride(r)
    PROVE  HistoryInv'
  <1> DEFINE c == ask[r].on
  <1>1. UNCHANGED <<name, channels, members, invites>>
    BY DEF SetOverride, DeleteOverride, accountVars
  <1>2. CASE UNCHANGED trail /\ \E answer : Reply(r, answer)
    BY <1>1, <1>2, ReplyTold
  <1>3. CASE \E allow, action :
               /\ Change(r, action, c, allow) /\ channels[c] # None /\ req[r].step = "write"
               /\ \/ action = "channel.override_set" /\ req[r].kind = "set_override"
                  \/ action = "channel.override_removed" /\ req[r].kind = "delete_override"
    <2>1. PICK allow, action :
               /\ Change(r, action, c, allow) /\ channels[c] # None /\ req[r].step = "write"
               /\ \/ action = "channel.override_set" /\ req[r].kind = "set_override"
                  \/ action = "channel.override_removed" /\ req[r].kind = "delete_override"
      BY <1>3
    <2> DEFINE e == RowOf(r, action, c, allow)
    <2>2. e.action = action /\ e.on = c
      BY DEF RowOf
    <2> HIDE DEF e
    <2>3. Possible(Present, e)
      BY <2>1, <2>2 DEF Possible, Present
    <2>4. Told(Present, e) = Present'
      <3>1. Present' = Present
        BY <1>1 DEF Present
      <3> QED
        BY <2>1, <2>2, <3>1, ToldIs
    <2> QED
      BY <2>1, <2>3, <2>4, RightsTable, ChangeTold DEF Managing, e
  <1>4. CASE SetOverride(r)
    BY <1>2, <1>3, <1>4 DEF SetOverride, At
  <1>5. CASE DeleteOverride(r)
    <2>1. \A subject : OverridesOf(c, subject) # {} => channels[c] # None
      BY DEF OverridesOf, TypedInv, Tables, AdminTables, Overriding
    <2> QED
      BY <1>2, <1>3, <1>5, <2>1 DEF DeleteOverride, At
  <1> QED
    BY <1>4, <1>5

\* An invite is made or revoked, and told of.
LEMMA InvitesTold ==
    ASSUME AdminInv, TypedInv, HistoryInv, NEW r \in Requests, CreateInvite(r) \/ RevokeInvite(r)
    PROVE  HistoryInv'
  <1>1. UNCHANGED <<name, channels, members>>
    BY DEF CreateInvite, RevokeInvite, accountVars
  <1>2. CASE CreateInvite(r)
    <2>1. PICK i \in InviteIds :
              /\ invites[i] = "none" /\ invites' = [invites EXCEPT ![i] = "live"]
              /\ Change(r, "invite.created", i, ask[r].value)
      BY <1>2 DEF CreateInvite
    <2>2. req[r].kind = "create_invite" /\ req[r].step = "write"
      BY <1>2 DEF CreateInvite, At
    <2> DEFINE e == RowOf(r, "invite.created", i, ask[r].value)
    <2>3. e.action = "invite.created" /\ e.on = i
      BY DEF RowOf
    <2> HIDE DEF e
    <2>4. Possible(Present, e)
      BY <2>1, <2>3 DEF Possible, Present
    <2>5. Told(Present, e) = Present'
      <3>1. Present' = [Present EXCEPT !.invites = [invites EXCEPT ![i] = "live"]]
        BY <1>1, <2>1 DEF Present
      <3> QED
        BY <2>3, <3>1, ToldIs
    <2> QED
      BY <2>1, <2>2, <2>4, <2>5, RightsTable, ChangeTold DEF Managing, e
  <1>3. CASE RevokeInvite(r)
    <2> DEFINE i == ask[r].on
    <2>1. CASE invites[i] = "none"
      <3>1. Reply(r, "NotMember") /\ UNCHANGED <<trail, name, channels, members, invites>>
        BY <1>1, <1>3, <2>1 DEF RevokeInvite
      <3> QED
        BY <3>1, ReplyTold
    <2>2. CASE invites[i] # "none"
      <3>1. /\ invites' = [invites EXCEPT ![i] = "revoked"] /\ Change(r, "invite.revoked", i, None)
            /\ req[r].kind = "revoke_invite" /\ req[r].step = "write"
        BY <1>3, <2>2 DEF RevokeInvite, At
      <3> DEFINE e == RowOf(r, "invite.revoked", i, None)
      <3>2. e.action = "invite.revoked" /\ e.on = i
        BY DEF RowOf
      <3> HIDE DEF e
      <3>3. Possible(Present, e)
        BY <2>2, <3>2 DEF Possible, Present
      <3>4. Told(Present, e) = Present'
        <4>1. Present' = [Present EXCEPT !.invites = [invites EXCEPT ![i] = "revoked"]]
          BY <1>1, <3>1 DEF Present
        <4> QED
          BY <3>2, <4>1, ToldIs
      <3> QED
        BY <3>1, <3>3, <3>4, RightsTable, ChangeTold DEF Managing, e
    <2> QED
      BY <2>1, <2>2
  <1> QED
    BY <1>2, <1>3

-----------------------------------------------------------------------------
(* The history is that of every behaviour.                                 *)

\* Every step of the administration.
LEMMA AdminServeTold ==
    ASSUME AdminInv, TypedInv, HistoryInv, NEW r \in Requests, AdminServe(r)
    PROVE  HistoryInv'
  BY RoutesTold, LooksTold, GatesTold, RequireTold, PagesTold, RenameTold, AddTold, HoldsTold,
     ChannelTold, OverridesTold, InvitesTold, MembersTold
  DEF AdminServe

\* Every step.
LEMMA HistoryKept ==
    ASSUME AdminInv, TypedInv, HistoryInv, [AdminNext]_allVars
    PROVE  HistoryInv'
  <1>1. CASE \E r \in Requests : AdminServe(r)
    BY <1>1, AdminServeTold
  <1>2. CASE \E r \in Requests : (RoomServe(r) \/ AccountServe(r)) /\ UNCHANGED adminVars
    BY <1>2, RoomsTold, AccountsTold
  <1>3. CASE (RoomsClock /\ UNCHANGED adminVars) \/ UNCHANGED allVars
    <2>1. UNCHANGED <<req, ask, trail, name, channels, members, invites>>
      BY <1>3 DEF RoomsClock, Tick, Expire, allVars, vars, avars, accountVars, adminVars, tables
    <2> QED
      BY <2>1, StillTold
  <1> QED
    BY <1>1, <1>2, <1>3 DEF AdminNext

\* The start.
LEMMA HistoryInit ==
    ASSUME AdminInit
    PROVE  HistoryInv
  <1>1. /\ trail = <<>> /\ req = [r \in Requests |-> Blank]
        /\ name = Name0 /\ members = Role0
        /\ channels = [c \in ConversationIds |-> IF c \in Channels0 THEN Name0 ELSE None]
        /\ invites = [i \in InviteIds |-> "none"]
    BY DEF AdminInit, RoomsInit, Init
  <1>2. Len(trail) = 0 /\ DOMAIN trail = {} /\ Listed(trail)
    BY <1>1 DEF Listed
  <1>3. WorldAt[0] = World0
    BY <1>2, WorldReplays DEF Replays
  <1>4. TrailIsHistory
    BY <1>1, <1>2, <1>3 DEF TrailIsHistory, World0
  <1>5. GroundsHeld /\ Dated
    BY <1>2 DEF GroundsHeld, Dated
  <1>6. \A r \in Requests : Grounded(r)
    BY <1>1 DEF Grounded, Managing, Blank
  <1> QED
    BY <1>4, <1>5, <1>6 DEF HistoryInv

\* The history, with the types and grounds on which it is kept.
THEOREM AdminHistory == AdminSpec => [](AdminInv /\ TypedInv /\ HistoryInv)
  <1>1. AdminInit => AdminInv /\ TypedInv /\ HistoryInv
    BY AdminInitHolds, TypedInit, HistoryInit
  <1>2. (AdminInv /\ TypedInv /\ HistoryInv) /\ [AdminNext]_allVars
            => (AdminInv /\ TypedInv /\ HistoryInv)'
    BY AdminNextKeeps, TypedKept, HistoryKept
  <1> QED
    BY <1>1, <1>2, PTL DEF AdminSpec

\* The audit rows, in the order of their commits, are the history of the workspace:
\* each is of a change that was possible, and replayed they give its tables.
THEOREM AuditReplays == AdminSpec => []TrailIsHistory
  <1>1. HistoryInv => TrailIsHistory
    BY DEF HistoryInv
  <1> QED
    BY <1>1, AdminHistory, PTL

\* Who changed something had the right to, and the target of an override was a
\* member, at some moment between the arrival of the call and the change.
THEOREM ChangesGrounded == AdminSpec => []GroundsHeld
  <1>1. HistoryInv => GroundsHeld
    BY DEF HistoryInv
  <1> QED
    BY <1>1, AdminHistory, PTL

-----------------------------------------------------------------------------
(* What a stranger learns.                                                 *)

\* Its caller has been a stranger for as long as the call lasts, and is not banned.
Stranger(r) ==
    /\ ask[r].caller # None /\ ask[r].answer = None
    /\ ask[r].caller \notin bans
    /\ \A n \in ask[r].began..Len(trail) : WorldAt[n].members[ask[r].caller] = None
    /\ req[r].kind # "list_workspaces"

\* The call of a stranger is at its gate, and every gate gives one answer.
LEMMA StrangerAtGate ==
    ASSUME TypedInv, HistoryInv, NEW r \in Requests, Stranger(r), req[r].kind \in AdminKinds
    PROVE  /\ req[r].kind \in Managing => req[r].step \in {"channel", "gate", "require"}
           /\ req[r].kind \in {"get_workspace", "list_channels", "list_overrides"} =>
                 req[r].step # "page"
           /\ \A permission : Refusal(req[r].user, permission) = "NotMember"
  <1>1. /\ ask[r].caller = req[r].user /\ Len(trail) \in ask[r].began..Len(trail)
        /\ ask[r].began \in Nat
    BY OneMore DEF TypedInv, Formed
  <1>2. \A n \in ask[r].began..Len(trail) : WorldAt[n].members[req[r].user] = None
    BY <1>1 DEF Stranger
  <1>3. \A permission : ~RoleHas(None, permission)
    BY NoneAssumption DEF RoleHas
  <1>4. \A permission : ~Had(r, permission)
    BY <1>2, <1>3 DEF Had
  <1>5. members[req[r].user] = None
    <2>1. WorldAt[Len(trail)].members = members
      BY DEF HistoryInv, TrailIsHistory
    <2> QED
      BY <1>1, <1>2, <2>1
  <1>6. req[r].user \notin bans
    BY <1>1 DEF Stranger
  <1>7. \A permission : Refusal(req[r].user, permission) = "NotMember"
    BY <1>5, <1>6 DEF Refusal
  <1>8. Grounded(r)
    BY DEF HistoryInv
  <1> QED
    BY <1>4, <1>7, <1>8 DEF Grounded

\* The answer of a call.
LEMMA ReplyAnswers ==
    ASSUME AdminInv, NEW r \in Requests, NEW answer, Reply(r, answer)
    PROVE  ask'[r].answer = answer
  BY DEF AdminInv, Shape, Reply, NoAsk

\* A gate that refuses.
LEMMA OutAnswers ==
    ASSUME AdminInv, NEW r \in Requests, NEW step, OnOrOut(r, "NotMember", step)
    PROVE  ask'[r].answer = "NotMember"
  BY ReplyAnswers DEF OnOrOut

\* Every step answers a stranger alike, or not at all.
LEMMA StrangerAnswered ==
    ASSUME AdminInv, TypedInv, HistoryInv, NEW r \in Requests, Stranger(r), AdminServe(r)
    PROVE  ask'[r].answer \in {None, "NotMember"}
  <1> DEFINE u == req[r].user
  <1>1. CASE \E s \in Callers :
               \/ WorkspaceRoutes(r, s) \/ MemberRoutes(r, s) \/ ChannelRoutes(r, s)
               \/ OverrideRoutes(r, s) \/ InviteRoutes(r, s) \/ AuditRoute(r, s)
    <2>1. PICK s, kind, step, on, value : Administer(r, s, kind, step, on, value)
      BY <1>1 DEF WorkspaceRoutes, MemberRoutes, ChannelRoutes, OverrideRoutes, InviteRoutes,
                  AuditRoute
    <2>2. ask'[r].answer = None
      BY <2>1 DEF AdminInv, Shape, Administer, NoAsk
    <2> QED
      BY <2>2
  <1>2. CASE \/ Malformed(r)
             \/ \E v \in Users : Departure(r, v) \/ \E role \in Roles : Promotion(r, v, role)
    <2>1. UNCHANGED ask
      BY <1>2 DEF Malformed, Departure, Promotion, adminVars
    <2> QED
      BY <2>1 DEF Stranger
  <1>3. CASE \/ GetChannel(r) \/ GetWorkspace(r) \/ GateBeforeLookup(r) \/ Require(r)
             \/ ListInvites(r) \/ ListAudit(r)
    <2>1. req[r].kind \in AdminKinds
      <3>1. req[r].step = "require" => req[r].kind \in AdminKinds
        BY StepTable, RoomStepTable
           DEF TypedInv, Formed, Kinds, AccountKinds, Reads, SessionReads, DirectoryReads
      <3> QED
        BY <1>3, <3>1, KindsApart
           DEF GetChannel, GetWorkspace, Require, GateBeforeLookup, ListInvites, ListAudit, Page,
               At, AdminKinds
    <2>2. /\ req[r].kind \in Managing => req[r].step \in {"channel", "gate", "require"}
          /\ \A permission : Refusal(u, permission) = "NotMember"
      BY <2>1, StrangerAtGate
    <2>3. CASE GetChannel(r)
      BY <2>2, <2>3, ReplyAnswers DEF GetChannel
    <2>4. CASE GetWorkspace(r)
      BY <2>2, <2>4, OutAnswers DEF GetWorkspace
    <2>5. CASE GateBeforeLookup(r)
      BY <2>2, <2>5, OutAnswers DEF GateBeforeLookup, Permitted
    <2>6. CASE Require(r)
      BY <2>2, <2>6, ReplyAnswers DEF Require, Permitted
    <2>7. CASE ListInvites(r)
      BY <2>2, <2>7, OutAnswers DEF ListInvites, Permitted, Page, At, Managing
    <2>8. CASE ListAudit(r)
      BY <2>2, <2>8, OutAnswers DEF ListAudit, Permitted, Page, At, Managing
    <2> QED
      BY <1>3, <2>3, <2>4, <2>5, <2>6, <2>7, <2>8
  <1>4. ~ (ShowWorkspace(r) \/ ListWorkspaces(r) \/ ListChannels(r) \/ ListOverrides(r))
    <2>1. req[r].kind # "list_workspaces"
      BY DEF Stranger
    <2>2. req[r].kind \in {"get_workspace", "list_channels", "list_overrides"} =>
              req[r].step # "page"
      BY StrangerAtGate, KindsApart DEF AdminKinds, ChannelCalls
    <2> QED
      BY <2>1, <2>2 DEF ShowWorkspace, ListWorkspaces, ListChannels, ListOverrides, Page, At
  <1>5. ~ (\/ LookupHandle(r) \/ RenameWorkspace(r) \/ AnswerRename(r) \/ AddMember(r)
           \/ Snapshot(r) \/ CreateChannel(r) \/ LockChannel(r) \/ RenameChannel(r)
           \/ LockDoomed(r) \/ DeleteChannel(r) \/ OverrideTarget(r) \/ SetOverride(r)
           \/ DeleteOverride(r) \/ CreateInvite(r) \/ RevokeInvite(r))
    <2>1. req[r].kind \in Managing => req[r].step \in {"channel", "gate", "require"}
      BY StrangerAtGate DEF AdminKinds, ChannelCalls, Managing
    <2> QED
      BY <2>1 DEF LookupHandle, RenameWorkspace, AnswerRename, AddMember, Snapshot, CreateChannel,
             LockChannel, RenameChannel, LockDoomed, DeleteChannel, OverrideTarget, SetOverride,
             DeleteOverride, CreateInvite, RevokeInvite, At, Managing
  <1> QED
    BY <1>1, <1>2, <1>3, <1>4, <1>5 DEF AdminServe

\* Only a step of its own answers a call.
LEMMA AnsweredAlone ==
    ASSUME AdminInv, TypedInv, NEW r \in Requests, [AdminNext]_allVars, ask'[r] # ask[r]
    PROVE  AdminServe(r)
  <1>1. ~UNCHANGED ask
    OBVIOUS
  <1>2. PICK q \in Requests : AdminServe(q)
    BY <1>1 DEF AdminNext, allVars, adminVars
  <1>3. q = r
    BY <1>2, AdminGentle DEF Gentle, Moves
  <1> QED
    BY <1>2, <1>3

\* A stranger who is not banned gets the same answer from every call but the list of
\* workspaces, whether the channel, the invite or the handle is there or not.
THEOREM StrangersLearnNothing == AdminSpec => NoOracle
  <1>1. ASSUME AdminInv, TypedInv, HistoryInv, [AdminNext]_allVars, NEW r \in Requests,
               ask[r].caller # None, ask[r].answer = None, ask'[r].answer # None,
               ask[r].caller \notin bans,
               \A n \in ask[r].began..Len(trail) : WorldAt[n].members[ask[r].caller] = None,
               req[r].kind # "list_workspaces"
        PROVE  ask'[r].answer = "NotMember"
    <2>1. Stranger(r)
      BY <1>1 DEF Stranger
    <2>2. AdminServe(r)
      BY <1>1, AnsweredAlone
    <2> QED
      BY <1>1, <2>1, <2>2, StrangerAnswered
  <1>2. AdminInv /\ TypedInv /\ HistoryInv /\ [AdminNext]_allVars =>
            [\A r \in Requests :
                LET u == ask[r].caller IN
                /\ u # None /\ ask[r].answer = None /\ ask'[r].answer # None
                /\ u \notin bans
                /\ \A n \in ask[r].began..Len(trail) : WorldAt[n].members[u] = None
                /\ req[r].kind # "list_workspaces"
                => ask'[r].answer = "NotMember"]_allVars
    BY <1>1
  <1> QED
    BY <1>2, AdminHistory, PTL DEF AdminSpec, NoOracle

=============================================================================
