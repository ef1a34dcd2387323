-------------------------- MODULE DaemonManagerMC --------------------------
(* Three child processes, three suspended calls, three rapid failures.      *)
EXTENDS DaemonManager, TLC

Symmetry == Permutations(Procs) \cup Permutations(Runs)
=============================================================================
