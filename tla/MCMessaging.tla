---------------------------- MODULE MCMessaging ----------------------------
(* Small instances of Messaging for TLC.                                   *)
EXTENDS MessagingLog, TLC

\* Users, keys and requests are interchangeable.
Symmetry == Permutations(Users) \cup Permutations(ClientIds) \cup Permutations(Reqs)

\* Where every conversation is a channel, conversations are too.
SymmetryWithConvs == Symmetry \cup Permutations(Convs)
=============================================================================
