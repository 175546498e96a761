---------------------------- MODULE MCDiscovery ----------------------------
(* Discovery with pids that can be told apart but not compared. *)
EXTENDS Discovery, TLC

PidSymmetry == Permutations(Pids)
=============================================================================
