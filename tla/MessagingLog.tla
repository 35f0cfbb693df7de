---------------------------- MODULE MessagingLog ----------------------------
(* The transactions of Messaging implement the abstract ConversationLog.   *)
EXTENDS Messaging

\* The rows of a live conversation, read as the entries of its log.
LogOf(c) == {[pos |-> x.seq, sender |-> x.sender, cid |-> x.cid] :
                x \in {y \in messages : y.conv = c}}

Log == INSTANCE ConversationLog
          WITH open <- {c \in Convs : Live(c)},
               log <- [c \in Convs |-> LogOf(c)],
               answered <- acked

\* Concurrent senders, retries, lost answers, removals, deletions and rolled
\* back transactions of the store show its clients one append-only log per
\* conversation, in which a key has one position and every answer reports it.
ImplementsLog == Log!LogSpec
=============================================================================
