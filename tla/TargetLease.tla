---------------------------- MODULE TargetLease ----------------------------
(* What the daemon's executor is for: a run works on a target only while it    *)
(* holds that target, a target has one holder at a time, and it is released    *)
(* only after its holder has stopped working.                                  *)
CONSTANTS Targets, RunIds

VARIABLES
  held,   \* the runs that hold each target
  busy    \* the runs that are working

leaseVars == <<held, busy>>

Init ==
  /\ held = [t \in Targets |-> {}]
  /\ busy = {}

Acquire(t, r) ==
  /\ held[t] = {}
  /\ \A u \in Targets : r \notin held[u]
  /\ held' = [held EXCEPT ![t] = {r}]
  /\ UNCHANGED busy

Work(t, r) ==
  /\ r \in held[t]
  /\ r \notin busy
  /\ busy' = busy \union {r}
  /\ UNCHANGED held

Rest(r) ==
  /\ r \in busy
  /\ busy' = busy \ {r}
  /\ UNCHANGED held

Release(t, r) ==
  /\ held[t] = {r}
  /\ r \notin busy
  /\ held' = [held EXCEPT ![t] = {}]
  /\ UNCHANGED busy

Next ==
  \E r \in RunIds :
    \/ Rest(r)
    \/ \E t \in Targets : Acquire(t, r) \/ Work(t, r) \/ Release(t, r)

Spec == Init /\ [][Next]_leaseVars
=============================================================================
