--------------------------- MODULE ConversationLog ---------------------------
(***************************************************************************)
(* What the message store promises its clients: every open conversation is *)
(* one log, each idempotency key enters it at most once, at the next       *)
(* position, and whoever is told a position is told the true one.  No      *)
(* transactions, no locks, no events.                                      *)
(***************************************************************************)
EXTENDS Naturals, FiniteSets

CONSTANTS Users, Convs, ClientIds

VARIABLES
    open,       \* conversations that exist
    log,        \* conversation -> its entries, each with its position
    answered    \* positions reported to clients

logVars == <<open, log, answered>>

Entry == [pos: Nat, sender: Users, cid: ClientIds]

Report == [conv: Convs, cid: ClientIds, seq: Nat, created: BOOLEAN]

LogInit ==
    /\ open = {}
    /\ log = [c \in Convs |-> {}]
    /\ answered = {}

\* An answer may be lost on its way to the client.
MayReport(c, m, n, created) ==
    answered' \in {answered,
                   answered \cup {[conv |-> c, cid |-> m, seq |-> n, created |-> created]}}

Open(c) ==
    /\ open' = open \cup {c}
    /\ UNCHANGED <<log, answered>>

\* A new key goes to the end of the log, whoever else is sending.
Append(c, u, m) ==
    LET n == Cardinality(log[c]) + 1 IN
    /\ c \in open
    /\ \A x \in log[c] : x.cid # m
    /\ log' = [log EXCEPT ![c] = @ \cup {[pos |-> n, sender |-> u, cid |-> m]}]
    /\ MayReport(c, m, n, TRUE)
    /\ UNCHANGED open

\* A retry is answered with the entry its key already has.
Retry(c, m) ==
    /\ c \in open
    /\ \E x \in log[c] : x.cid = m /\ MayReport(c, m, x.pos, FALSE)
    /\ UNCHANGED <<open, log>>

\* A deleted conversation takes its log along.
Discard(c) ==
    /\ open' = open \ {c}
    /\ log' = [log EXCEPT ![c] = {}]
    /\ UNCHANGED answered

LogNext ==
    \E c \in Convs :
        \/ Open(c)
        \/ \E u \in Users, m \in ClientIds : Append(c, u, m)
        \/ \E m \in ClientIds : Retry(c, m)
        \/ Discard(c)

LogSpec == LogInit /\ [][LogNext]_logVars
=============================================================================
