---------------------------- MODULE MCWorkspace ----------------------------
(* Small instances of Workspace for TLC.                                   *)
EXTENDS Workspace, TLC

Symmetry == Permutations(Reqs)
=============================================================================
