--------------------------- MODULE MCAppleAssets ---------------------------
(* Three generations over three certificates, with a failed step, a crash and  *)
(* two losses between them.                                                    *)
EXTENDS AppleAssets
=============================================================================
