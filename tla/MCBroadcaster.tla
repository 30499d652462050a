--------------------------- MODULE MCBroadcaster ---------------------------
(* Two subscribers, one with a peer that may stall, and a run of at most two   *)
(* events: enough for an event, the end of the run and a cancellation to fall  *)
(* at every point of a stream, and for a late subscriber to replay a backlog.  *)
EXTENDS Broadcaster
=============================================================================
