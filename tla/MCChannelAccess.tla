-------------------------- MODULE MCChannelAccess --------------------------
(* Small instances of ChannelAccess for TLC.                               *)
EXTENDS ChannelAccess, TLC

Symmetry == Permutations(Reqs) \cup Permutations(Posts)
=============================================================================
