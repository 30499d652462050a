---------------------------- MODULE TickerProofs ----------------------------
(* What Ticker guarantees for any apps, CLIs and monitors, in whatever order   *)
(* the loop, the monitors, other clients and the end of the daemon come.       *)
EXTENDS Ticker, TLAPS

ShowsDeferral == \E t \in Targets : checks[t].now /\ checks[t].outcome \in Deferrals

\* A target is recorded when the sweep leaves it, and the current one is not left yet.
LeftAreRecorded ==
  /\ \A t \in todo : ~checks[t].now
  /\ at # NoTarget => at \in todo

Noted == deferred <=> ShowsDeferral

Chosen == pc = "rest" => (interval = "fast" <=> deferred)

\* The monitor sends its decision before it cancels, and the loop has not taken it.
SentFirst ==
  \A t \in Watched :
    at = t /\ pc \in {"start", "streaming", "join"} /\ (cancelled[t] \/ monitor[t] = "sent")
      => sent[t]

Inv == TypeOK /\ LeftAreRecorded /\ Noted /\ Chosen /\ SentFirst

-----------------------------------------------------------------------------
LEMMA RecordFits ==
  ASSUME TypeOK, NEW t \in Targets, NEW outcome \in Outcomes, Record(t, outcome)
  PROVE  /\ checks' \in [Targets -> [outcome : Outcomes, now : BOOLEAN]]
         /\ checks'[t] = [outcome |-> outcome, now |-> TRUE]
         /\ \A u \in Targets \ {t} : checks'[u] = checks[u]
BY DEF TypeOK, Record

\* The two ways the sweep leaves a target: with a record, which says whether it was
\* deferred, or without.
LEMMA LeaveRecorded ==
  ASSUME Inv, NEW t \in Targets, t \in todo, NEW outcome \in Outcomes, NEW d \in BOOLEAN,
         d <=> outcome \in Deferrals, Record(t, outcome), Leave(t, d)
  PROVE  /\ LeftAreRecorded' /\ Noted' /\ Chosen'
         /\ checks' \in [Targets -> [outcome : Outcomes, now : BOOLEAN]]
<1> USE DEF Inv, Leave
<1>1. /\ checks' \in [Targets -> [outcome : Outcomes, now : BOOLEAN]]
      /\ checks'[t] = [outcome |-> outcome, now |-> TRUE]
      /\ \A u \in Targets \ {t} : checks'[u] = checks[u]
  BY RecordFits
<1>2. LeftAreRecorded' /\ Chosen'
  BY <1>1 DEF LeftAreRecorded, Chosen, TypeOK
<1>3. ~checks[t].now
  BY DEF LeftAreRecorded
<1>4. Noted'
  BY <1>1, <1>3 DEF Noted, ShowsDeferral
<1> QED
  BY <1>1, <1>2, <1>4

LEMMA LeaveUnrecorded ==
  ASSUME Inv, NEW t \in Targets, UNCHANGED checks, Leave(t, FALSE)
  PROVE  LeftAreRecorded' /\ Noted' /\ Chosen'
BY DEF Inv, TypeOK, Leave, LeftAreRecorded, Noted, ShowsDeferral, Chosen

\* While the loop stays with its targets, nothing of its bookkeeping changes.
LEMMA BooksKept ==
  ASSUME Inv, UNCHANGED <<todo, deferred, interval, checks>>,
         pc' # "rest" \/ pc = "rest", at' = at \/ at' \in todo
  PROVE  LeftAreRecorded' /\ Noted' /\ Chosen'
BY DEF Inv, LeftAreRecorded, Noted, ShowsDeferral, Chosen

LEMMA CheckAppInv ==
  ASSUME Inv, NEW t \in Targets, CheckApp(t)
  PROVE  Inv'
<1> USE TickerAssumption DEF Inv, Targets
<1>1. SentFirst'
  BY DEF CheckApp, Leave, Attempt, SentFirst, monitorVars, TypeOK
<1>2. ASSUME NEW outcome \in Outcomes, NEW d \in BOOLEAN, d <=> outcome \in Deferrals,
             Record(t, outcome), Leave(t, d)
      PROVE  Inv'
  <2>1. LeftAreRecorded' /\ Noted' /\ Chosen'
        /\ checks' \in [Targets -> [outcome : Outcomes, now : BOOLEAN]]
    BY <1>2, LeaveRecorded DEF CheckApp, Turn
  <2>2. TypeOK'
    BY <1>2, <2>1 DEF TypeOK, CheckApp, Leave, monitorVars
  <2> QED
    BY <1>1, <2>1, <2>2
<1>3. CASE Attempt(t)
  <2>1. LeftAreRecorded' /\ Noted' /\ Chosen'
    BY <1>3, BooksKept DEF Attempt, CheckApp, Turn
  <2>2. TypeOK'
    BY <1>3 DEF TypeOK, CheckApp, Attempt, monitorVars
  <2> QED
    BY <1>1, <2>1, <2>2
<1> QED
  BY <1>2, <1>3 DEF CheckApp, Outcomes, Deferrals

LEMMA CheckLoadInv ==
  ASSUME Inv, NEW t \in Targets, CheckLoad(t)
  PROVE  Inv'
<1> USE TickerAssumption DEF Inv, Targets
<1>1. CASE Attempt(t)
  <2>1. LeftAreRecorded' /\ Noted' /\ Chosen'
    BY <1>1, BooksKept DEF Attempt, CheckLoad, Turn
  <2>2. /\ monitor' \in [Watched -> {"none", "watching", "deciding", "sending", "sent"}]
        /\ sent' \in [Watched -> BOOLEAN]
        /\ cancelled' \in [Watched -> BOOLEAN]
    <3>1. CASE t \in Watched
      BY <1>1, <3>1 DEF CheckLoad, Attempt, Turn, Leave, TypeOK
    <3>2. CASE t \notin Watched
      BY <1>1, <3>2 DEF CheckLoad, Attempt, TypeOK, monitorVars
    <3> QED
      BY <3>1, <3>2
  <2>3. TypeOK'
    BY <1>1, <2>2 DEF TypeOK, CheckLoad, Attempt
  <2>4. at' = t /\ UNCHANGED <<stopping, run, heard>>
    BY <1>1 DEF CheckLoad, Attempt
  <2>5. CASE t \in Watched
    <3>1. monitor'[t] = "watching" /\ ~cancelled'[t]
      BY <1>1, <2>5 DEF CheckLoad, Attempt, Turn, Leave, TypeOK
    <3>2. SentFirst'
      BY <2>4, <3>1 DEF SentFirst
    <3> QED
      BY <2>1, <2>3, <3>2
  <2>6. CASE t \notin Watched
    BY <2>1, <2>3, <2>4, <2>6 DEF SentFirst
  <2> QED
    BY <2>5, <2>6
<1>2. CASE ~Attempt(t)
  <2>1. Record(t, "deferred-system-load") /\ Leave(t, TRUE) /\ t \in todo
        /\ UNCHANGED <<stopping, run, heard, monitorVars>>
    BY <1>2 DEF CheckLoad, Turn
  <2>2. LeftAreRecorded' /\ Noted' /\ Chosen'
        /\ checks' \in [Targets -> [outcome : Outcomes, now : BOOLEAN]]
    BY <2>1, LeaveRecorded DEF Outcomes, Deferrals
  <2>3. TypeOK' /\ SentFirst'
    BY <2>1, <2>2 DEF TypeOK, SentFirst, Leave, monitorVars
  <2> QED
    BY <2>2, <2>3
<1> QED
  BY <1>1, <1>2

LEMMA StreamInv ==
  ASSUME Inv, StartOrAttach \/ StreamEnds \/ StreamCut
  PROVE  Inv'
<1> USE DEF Inv, StartOrAttach, StreamEnds, StreamCut
<1>1. LeftAreRecorded' /\ Noted' /\ Chosen'
  BY BooksKept
<1>2. TypeOK'
  BY DEF TypeOK, monitorVars
<1>3. SentFirst'
  BY DEF SentFirst, monitorVars
<1> QED
  BY <1>1, <1>2, <1>3

\* The loop leaves a target it had taken up.
LEMMA LeavingInv ==
  ASSUME Inv, NEW d \in BOOLEAN, Leave(at, d), at \in Targets,
         \/ d = FALSE /\ UNCHANGED checks
         \/ \E outcome \in Outcomes : (d <=> outcome \in Deferrals) /\ Record(at, outcome),
         UNCHANGED <<stopping, run, heard, monitor>>,
         sent' \in [Watched -> BOOLEAN], cancelled' \in [Watched -> BOOLEAN]
  PROVE  Inv'
<1> USE TickerAssumption DEF Inv
<1>1. at \in todo
  BY DEF LeftAreRecorded, TypeOK
<1>2. /\ LeftAreRecorded' /\ Noted' /\ Chosen'
      /\ checks' \in [Targets -> [outcome : Outcomes, now : BOOLEAN]]
  <2>1. CASE d = FALSE /\ UNCHANGED checks
    BY <2>1, LeaveUnrecorded DEF TypeOK
  <2>2. CASE \E outcome \in Outcomes : (d <=> outcome \in Deferrals) /\ Record(at, outcome)
    BY <1>1, <2>2, LeaveRecorded
  <2> QED
    BY <2>1, <2>2
<1>3. TypeOK' /\ SentFirst'
  BY <1>2 DEF TypeOK, SentFirst, Leave
<1> QED
  BY <1>2, <1>3

LEMMA DoneInv ==
  ASSUME Inv, Conflict \/ AppDone \/ UnwatchedDone \/ Join \/ Confirm
  PROVE  Inv'
<1> USE DEF Inv, Outcomes, Deferrals, monitorVars
<1>1. pc \in {"start", "join", "confirm"} => at \in Targets
  BY DEF TypeOK
<1>2. sent \in [Watched -> BOOLEAN] /\ cancelled \in [Watched -> BOOLEAN]
  BY DEF TypeOK
<1>3. CASE Conflict
  BY <1>1, <1>2, <1>3, LeavingInv DEF Conflict
<1>4. CASE AppDone
  <2>1. CASE heard = "deferred"
    BY <1>1, <1>2, <1>4, <2>1, LeavingInv DEF AppDone
  <2>2. CASE heard # "deferred"
    BY <1>1, <1>2, <1>4, <2>2, LeavingInv DEF AppDone
  <2> QED
    BY <2>1, <2>2
<1>5. CASE UnwatchedDone
  BY <1>1, <1>2, <1>5, LeavingInv DEF UnwatchedDone
<1>6. CASE Join
  <2>1. CASE pc' = "sweep"
    <3>1. Leave(at, sent[at]) /\ Cancel(at) /\ sent[at] \in BOOLEAN
          /\ sent' \in [Watched -> BOOLEAN]
      BY <1>2, <1>6, <2>1 DEF Join
    <3>2. cancelled' \in [Watched -> BOOLEAN]
      BY <1>2, <3>1 DEF Cancel
    <3> QED
      BY <1>1, <1>6, <2>1, <3>1, <3>2, LeavingInv DEF Join
  <2>2. CASE pc' = "confirm"
    <3>1. UNCHANGED <<todo, at, deferred, interval, checks, stopping, run, heard, monitorVars>>
      BY <1>6, <2>2 DEF Join, Leave
    <3>2. LeftAreRecorded' /\ Noted' /\ Chosen'
      BY <2>2, <3>1, BooksKept
    <3>3. TypeOK' /\ SentFirst'
      BY <1>6, <2>2, <3>1 DEF TypeOK, SentFirst, Join
    <3> QED
      BY <3>2, <3>3
  <2> QED
    BY <1>6, <2>1, <2>2 DEF Join, Leave
<1>7. CASE Confirm
  <2>1. cancelled' \in [Watched -> BOOLEAN]
    BY <1>2, <1>7 DEF Confirm, Cancel
  <2> QED
    BY <1>1, <1>2, <1>7, <2>1, LeavingInv DEF Confirm
<1> QED
  BY <1>3, <1>4, <1>5, <1>6, <1>7

LEMMA LoopInv ==
  ASSUME Inv, EndSweep \/ Wake \/ Return \/ Stop
  PROVE  Inv'
<1> USE DEF Inv
<1>1. CASE EndSweep
  BY <1>1 DEF EndSweep, TypeOK, LeftAreRecorded, Noted, ShowsDeferral, Chosen, SentFirst,
              monitorVars
<1>2. CASE Wake
  <2>1. /\ checks' \in [Targets -> [outcome : Outcomes, now : BOOLEAN]]
        /\ \A t \in Targets : ~checks'[t].now
    BY <1>2 DEF Wake, TypeOK
  <2>2. TypeOK' /\ SentFirst'
    BY <1>2, <2>1 DEF Wake, TypeOK, SentFirst, monitorVars
  <2>3. LeftAreRecorded' /\ Noted' /\ Chosen'
    BY <1>2, <2>1 DEF Wake, TypeOK, LeftAreRecorded, Noted, ShowsDeferral, Chosen
  <2> QED
    BY <2>2, <2>3
<1>3. CASE Return \/ Stop
  <2>1. LeftAreRecorded' /\ Noted' /\ Chosen'
    BY <1>3, BooksKept DEF Return, Stop, loopVars
  <2>2. TypeOK' /\ SentFirst'
    BY <1>3 DEF Return, Stop, loopVars, monitorVars, TypeOK, SentFirst
  <2> QED
    BY <2>1, <2>2
<1> QED
  BY <1>1, <1>2, <1>3

LEMMA MonitorInv ==
  ASSUME Inv, NEW t \in Watched, Monitor(t)
  PROVE  Inv'
<1> USE DEF Inv, Monitor, MonitorStops, MonitorFires, MonitorDecides, MonitorSends,
            MonitorCancels, Cancel
<1>1. UNCHANGED <<loopVars, stopping, run, heard>>
  OBVIOUS
<1>2. LeftAreRecorded' /\ Noted' /\ Chosen'
  BY <1>1, BooksKept DEF loopVars
<1>3. /\ monitor' \in [Watched -> {"none", "watching", "deciding", "sending", "sent"}]
      /\ sent' \in [Watched -> BOOLEAN]
      /\ cancelled' \in [Watched -> BOOLEAN]
  BY DEF TypeOK
<1>4. TypeOK'
  BY <1>1, <1>3 DEF TypeOK, loopVars
<1>5. SentFirst'
  BY <1>1 DEF SentFirst, TypeOK, loopVars
<1> QED
  BY <1>2, <1>4, <1>5

LEMMA RunsInv ==
  ASSUME Inv, NEW t \in Targets, ClientRuns(t) \/ \E end \in Ends : RunEnds(t, end)
  PROVE  Inv'
<1> USE DEF Inv, ClientRuns, RunEnds
<1>1. UNCHANGED <<loopVars, stopping, monitorVars>>
  OBVIOUS
<1>2. LeftAreRecorded' /\ Noted' /\ Chosen'
  BY <1>1, BooksKept DEF loopVars
<1>3. TypeOK' /\ SentFirst'
  BY <1>1 DEF TypeOK, SentFirst, loopVars, monitorVars
<1> QED
  BY <1>2, <1>3

LEMMA StutterInv == Inv /\ UNCHANGED vars => Inv'
BY DEF Inv, vars, loopVars, monitorVars, TypeOK, LeftAreRecorded, Noted, ShowsDeferral, Chosen,
       SentFirst

\* The invariant holds in every state of the loop and its monitors.
THEOREM Invariant == Spec => []Inv
<1>1. Init => Inv
  <2> SUFFICES ASSUME Init PROVE Inv
    OBVIOUS
  <2>1. TypeOK
    BY DEF Init, TypeOK, Outcomes
  <2>2. LeftAreRecorded /\ Noted /\ Chosen
    BY DEF Init, LeftAreRecorded, Noted, ShowsDeferral, Chosen
  <2>3. SentFirst
    BY DEF Init, SentFirst
  <2> QED
    BY <2>1, <2>2, <2>3 DEF Inv
<1>2. Inv /\ [Next]_vars => Inv'
  BY CheckAppInv, CheckLoadInv, StreamInv, DoneInv, LoopInv, MonitorInv, RunsInv, StutterInv
     DEF Next, Loop, Sweep
<1> QED
  BY <1>1, <1>2, PTL DEF Spec

\* Every variable of the loop and its monitors keeps its type.
THEOREM TypeCorrect == Spec => []TypeOK
BY Invariant, PTL DEF Inv

\* tickInterval: the pause is short exactly when this sweep recorded a deferral.
THEOREM PauseFitsSweep == Spec => []FastAfterDeferral
<1>1. Inv => FastAfterDeferral
  BY DEF Inv, Noted, ShowsDeferral, Chosen, FastAfterDeferral
<1> QED
  BY Invariant, <1>1, PTL

\* runCLIUpgradeWithLoadMonitor: whatever the monitor stops is recorded as deferred.
THEOREM LoadStopsAreDeferrals == Spec => StoppedForLoadIsDeferred
<1>1. Inv /\ [Next]_vars =>
        [\A t \in Watched :
           at = t /\ pc = "join" /\ cancelled[t] /\ pc' = "sweep" =>
             checks'[t] = [outcome |-> "deferred-system-load", now |-> TRUE] /\ deferred']_vars
  <2> SUFFICES ASSUME Inv, [Next]_vars, NEW t \in Watched,
                      at = t, pc = "join", cancelled[t], pc' = "sweep"
               PROVE  /\ checks'[t] = [outcome |-> "deferred-system-load", now |-> TRUE]
                      /\ deferred'
    OBVIOUS
  <2>1. sent[t] /\ t \in Targets /\ t \notin Apps
    BY TickerAssumption DEF Inv, SentFirst, Targets
  <2>2. Join
    BY <2>1 DEF Next, Loop, Sweep, CheckApp, CheckLoad, Turn, StartOrAttach, Conflict, StreamEnds,
       StreamCut, AppDone, UnwatchedDone, Confirm, EndSweep, Wake, Return, Stop, Monitor,
       MonitorStops, MonitorFires, MonitorDecides, MonitorSends, MonitorCancels, ClientRuns,
       RunEnds, vars, loopVars
  <2>3. Record(t, "deferred-system-load") /\ Leave(t, TRUE)
    BY <2>1, <2>2 DEF Join
  <2> QED
    BY <2>1, <2>3, RecordFits DEF Inv, Leave, Outcomes, Deferrals
<1> QED
  BY Invariant, <1>1, PTL DEF Spec, StoppedForLoadIsDeferred
=============================================================================
