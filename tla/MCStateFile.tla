---------------------------- MODULE MCStateFile ----------------------------
(* Two operations of the daemon at a time over two targets, patched and reset  *)
(* again and again, from every state file a run may find.                      *)
EXTENDS StateFile, TLC

OneHome == [w \in Workers |-> CHOOSE p \in Processes : TRUE]

Symmetry == Permutations(Workers) \union Permutations(Targets)
=============================================================================
