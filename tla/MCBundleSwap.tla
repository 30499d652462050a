---------------------------- MODULE MCBundleSwap ----------------------------
(* Three upgrades and resets of one bundle, one failure and two crashes: a     *)
(* crash inside a commit, a second one inside the recovery attempt, and one    *)
(* more attempt after both. Two processes, so that the guard can meet one it   *)
(* has not asked to quit.                                                      *)
EXTENDS HardReset, TLC

Symmetry == Permutations(Procs)
=============================================================================
