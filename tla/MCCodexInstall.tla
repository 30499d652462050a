--------------------------- MODULE MCCodexInstall ---------------------------
(* Two processes, three installs between them, a new commit and a new stable   *)
(* tag that can come at any moment, one failure and one kill.                  *)
EXTENDS CodexInstall
=============================================================================
