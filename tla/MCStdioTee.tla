----------------------------- MODULE MCStdioTee -----------------------------
(* One invocation with pipes that hold one chunk, and one signal: a pump can   *)
(* be stuck at a full pipe or a stalled parent with another chunk behind it.   *)
EXTENDS StdioTee
=============================================================================
