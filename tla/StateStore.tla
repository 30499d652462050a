----------------------------- MODULE StateStore -----------------------------
(* What state.json promises: one record for each patched target, set and        *)
(* deleted atomically, one target at a time.                                   *)
CONSTANTS Targets, Records, NoRecord

VARIABLE store

Init == store \in [Targets -> Records \union {NoRecord}]

Put(t, rec) == store' = [store EXCEPT ![t] = rec]

Next == \E t \in Targets, rec \in Records \union {NoRecord} : Put(t, rec)

Spec == Init /\ [][Next]_store
=============================================================================
