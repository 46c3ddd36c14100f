------------------------------ MODULE MCRecovery ------------------------------
(* A small instance of Recovery: one participant, one plan, two restarts. *)
EXTENDS Recovery, MCScheduler, TLC

CONSTANTS s1, s2

SaversAlike == Permutations(Savers)
===============================================================================
