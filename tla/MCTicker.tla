------------------------------ MODULE MCTicker ------------------------------
(* One app and two CLIs, one of them with a load monitor, swept for ever.      *)
EXTENDS Ticker
=============================================================================
