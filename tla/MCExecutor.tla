----------------------------- MODULE MCExecutor -----------------------------
(* Two requests and one SubscribeActive over two operations, two targets and   *)
(* two runs: an attach, both conflicts, two runs at once, a second run of a     *)
(* target after the first, and one watcher that streams two runs.               *)
EXTENDS Executor, TLC

Symmetry ==
  Permutations(Calls \ Watchers) \union Permutations(RunIds) \union Permutations(Targets)
=============================================================================
