------------------------------ MODULE MCDaemon ------------------------------
(* A CLI call, a SubscribeActive whose peer may stop reading, and a call of    *)
(* the tick loop around one run of a target, with a process that ends once, in *)
(* order or not, and is launched again.                                        *)
EXTENDS Daemon
=============================================================================
