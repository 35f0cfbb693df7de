---------------------------- MODULE MCStatistics ----------------------------
(* A small instance of Statistics for TLC.                                 *)
EXTENDS Statistics, TLC
=============================================================================
