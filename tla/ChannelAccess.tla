---------------------------- MODULE ChannelAccess ----------------------------
(***************************************************************************)
(* The channel routes (apps/server/src/routes/messaging.rs) beside the     *)
(* governance of Workspace: reading, marking and sending in a channel first*)
(* pass the membership gate, then heal the caller's seat, then, to send,   *)
(* the SEND_MESSAGES gate, and only then act.  Each step is a statement of *)
(* its own, so a kick or a ban can commit between any two of them.  The    *)
(* send itself is detailed in Messaging; here it is its seat lock and its  *)
(* commit.                                                                 *)
(***************************************************************************)
EXTENDS Workspace

To(p, step) == post' = [post EXCEPT ![p].at = step]

EndPost(p) == post' = [post EXCEPT ![p] = Resting]

\* channel_by_conversation and get_workspace.
Enter(p) ==
    \E u \in Users, kind \in Kinds :
        /\ post[p].at = "idle"
        /\ calls < MaxCalls
        /\ calls' = calls + 1
        /\ channel
        /\ u \notin banned /\ IsMember(u)
        /\ post' = [post EXCEPT ![p] = [user |-> u, kind |-> kind, at |-> "heal"]]
        /\ UNCHANGED <<tables, locks, at, call, raced>>

\* mutant of Heal: nobody is seated again
HealNobody(p) ==
    /\ post[p].at = "heal"
    /\ IF post[p].kind = "send" THEN To(p, "gate") ELSE EndPost(p)
    /\ UNCHANGED governance

\* ensure_channel_participation: INSERT ... ON CONFLICT DO NOTHING waits for
\* an open DELETE of the seat and then inserts it again.
Heal(p) ==
    LET u == post[p].user
    IN  /\ post[p].at = "heal"
        /\ ~SeatLeaving(u)
        /\ seats' = seats \cup {u}
        /\ IF post[p].kind = "send" THEN To(p, "gate") ELSE EndPost(p)
        /\ UNCHANGED <<role, banned, channel, override, invite, locks, at, call, calls, raced>>

\* channel_allowed for SEND_MESSAGES: the member's override beats the one of
\* the role, which beats what the role grants.
CanSend(u) ==
    LET member == override[<<"member", u>>]
        byRole == override[<<"role", role[u]>>]
    IN  /\ IsMember(u)
        /\ u \notin banned
        /\ CASE member # "unset" -> member = "allow"
             [] member = "unset" /\ byRole # "unset" -> byRole = "allow"
             [] OTHER -> RoleHas(role[u], "SendMessages")

SendGate(p) ==
    /\ post[p].at = "gate"
    /\ IF CanSend(post[p].user) THEN To(p, "lock") ELSE EndPost(p)
    /\ UNCHANGED governance

\* send_message pins the participant row, which a DELETE of it waits for.
LockSeat(p) ==
    LET u == post[p].user
    IN  /\ post[p].at = "lock"
        /\ IF u \in seats
           THEN /\ seatLock[u] = None
                /\ seatLock' = [seatLock EXCEPT ![u] = p]
                /\ To(p, "store")
                /\ UNCHANGED <<tables, rowLock, inviteLock, at, call, calls, raced>>
           ELSE EndPost(p) /\ UNCHANGED governance

\* The message and its event are committed; or, from any statement, the
\* request is dropped.  Either way its seat lock is released.
EndRequest(p) ==
    /\ post[p].at # "idle"
    /\ seatLock' = [u \in Users |-> IF seatLock[u] = p THEN None ELSE seatLock[u]]
    /\ EndPost(p)
    /\ UNCHANGED <<tables, rowLock, inviteLock, at, call, calls, raced>>

Route(p) == Enter(p) \/ Heal(p) \/ SendGate(p) \/ LockSeat(p) \/ EndRequest(p)

AccessNext == Next \/ \E p \in Posts : Route(p)

AccessSpec == Init /\ [][AccessNext]_vars

-----------------------------------------------------------------------------
(* Safety.                                                                 *)

\* The comment on the participant lock of send_message: a send and a kick of
\* the sender have only two orders, so whoever stores a message is a member.
SenderIsMember ==
    \A p \in Posts : post[p].at = "store" => IsMember(post[p].user)

\* ensure_channel_participation: a member that raced the creation of the
\* channel is seated when its send is decided, never locked out.
MembersHealed ==
    \A p \in Posts :
        (post[p].at \in {"gate", "lock"} /\ IsMember(post[p].user))
            => post[p].user \in seats
=============================================================================
