------------------------------ MODULE EventLog ------------------------------
(* What a run's broadcaster promises its subscribers: one append-only log that *)
(* is closed once, read by each subscriber from its first event, in order and  *)
(* without gaps, until the subscriber leaves or the closed log is exhausted.   *)
EXTENDS Naturals, Sequences

CONSTANTS Subscribers, Events

VARIABLES
  log,      \* the events of the run, in the order they were emitted
  closed,   \* no event will follow
  got,      \* what each subscriber has been handed
  reader    \* "away", "attached", "left" (gave up) or "complete" (read it all)

logVars == <<log, closed, got, reader>>

Init ==
  /\ log = << >>
  /\ closed = FALSE
  /\ got = [s \in Subscribers |-> << >>]
  /\ reader = [s \in Subscribers |-> "away"]

Append1(e) ==
  /\ ~closed
  /\ log' = Append(log, e)
  /\ UNCHANGED <<closed, got, reader>>

Close ==
  /\ ~closed
  /\ closed' = TRUE
  /\ UNCHANGED <<log, got, reader>>

Attach(s) ==
  /\ reader[s] = "away"
  /\ reader' = [reader EXCEPT ![s] = "attached"]
  /\ UNCHANGED <<log, closed, got>>

Deliver(s) ==
  /\ reader[s] = "attached"
  /\ Len(got[s]) < Len(log)
  /\ got' = [got EXCEPT ![s] = Append(@, log[Len(@) + 1])]
  /\ UNCHANGED <<log, closed, reader>>

Leave(s) ==
  /\ reader[s] = "attached"
  /\ reader' = [reader EXCEPT ![s] = "left"]
  /\ UNCHANGED <<log, closed, got>>

Complete(s) ==
  /\ reader[s] = "attached"
  /\ closed
  /\ got[s] = log
  /\ reader' = [reader EXCEPT ![s] = "complete"]
  /\ UNCHANGED <<log, closed, got>>

Next ==
  \/ \E e \in Events : Append1(e)
  \/ Close
  \/ \E s \in Subscribers : Attach(s) \/ Deliver(s) \/ Leave(s) \/ Complete(s)

Spec == Init /\ [][Next]_logVars
=============================================================================
