------------------------------- MODULE Ticker -------------------------------
(* internal/daemon/tick.go: the loop that keeps apps and CLIs up to date, and  *)
(* the goroutine that watches the system load during the upgrade of a CLI. Of  *)
(* the executor it sees what Executor shows of it: a target has one run at a   *)
(* time, which others start too, and which ends without being asked.           *)
CONSTANTS
  Apps, CLIs,
  Watched,    \* those of CLIs whose daemon deferral is enabled
  NoTarget

Targets == Apps \union CLIs

ASSUME TickerAssumption ==
  /\ Apps \intersect CLIs = {}
  /\ Watched \subseteq CLIs
  /\ NoTarget \notin Targets

VARIABLES
  pc,         \* where the loop is
  stopping,   \* its context has been cancelled
  todo,       \* the targets the sweep has not come to
  at,         \* the target it upgrades
  deferred,   \* sweep's result so far
  interval,   \* the pause it chose last
  checks,     \* updaterState.checks; now: recorded by this sweep
  run,        \* the executor's run of each target
  heard,      \* what the loop has streamed of the run's end
  monitor,    \* where the load monitor of each CLI is
  sent,       \* its decision is in deferredCh
  cancelled   \* the upgrade's context has been cancelled

loopVars == <<pc, todo, at, deferred, interval, checks>>
monitorVars == <<monitor, sent, cancelled>>
vars == <<loopVars, stopping, run, heard, monitorVars>>

Deferrals == {"deferred-app-running", "deferred-system-load"}
Outcomes == {"none", "check-failed", "up-to-date", "upgrading", "upgraded"} \union Deferrals
Ends == {"done", "deferred", "failed"}   \* "failed": or no terminal event at all

Init ==
  /\ pc = "sweep"
  /\ stopping = FALSE
  /\ todo = Targets
  /\ at = NoTarget
  /\ deferred = FALSE
  /\ interval = "none"
  /\ checks = [t \in Targets |-> [outcome |-> "none", now |-> FALSE]]
  /\ run = [t \in Targets |-> "none"]
  /\ heard = "none"
  /\ monitor = [t \in Watched |-> "none"]
  /\ sent = [t \in Watched |-> FALSE]
  /\ cancelled = [t \in Watched |-> FALSE]

-----------------------------------------------------------------------------
(* sweep and sweepCLIs: the apps first, then the CLIs.                         *)

Turn(t) == pc = "sweep" /\ t \in todo /\ (t \in CLIs => todo \intersect Apps = {})

Record(t, outcome) == checks' = [checks EXCEPT ![t] = [outcome |-> outcome, now |-> TRUE]]

\* The loop goes on to the next target; d: this one was deferred.
Leave(t, d) ==
  /\ pc' = "sweep"
  /\ todo' = todo \ {t}
  /\ at' = NoTarget
  /\ deferred' = (deferred \/ d)
  /\ UNCHANGED interval

Attempt(t) ==
  /\ pc' = "start"
  /\ at' = t
  /\ UNCHANGED <<todo, deferred, interval, checks>>

\* checkUpdate and appRunning decide.
CheckApp(t) ==
  /\ Turn(t) /\ t \in Apps
  /\ \/ \E outcome \in {"check-failed", "up-to-date"} : Record(t, outcome) /\ Leave(t, FALSE)
     \/ Record(t, "deferred-app-running") /\ Leave(t, TRUE)
     \/ Attempt(t)
  /\ UNCHANGED <<stopping, run, heard, monitorVars>>

\* checkCLILoad decides; a load that cannot be read defers nothing. The monitor is
\* started before the upgrade. By then that of the last sweep, half an hour ago at
\* least, has ended: checkCLILoad takes two seconds at most.
CheckLoad(t) ==
  /\ Turn(t) /\ t \in CLIs
  /\ \/ /\ t \in Watched
        /\ Record(t, "deferred-system-load") /\ Leave(t, TRUE)
        /\ UNCHANGED monitorVars
     \/ /\ Attempt(t)
        /\ IF t \in Watched
           THEN /\ monitor[t] = "none"
                /\ monitor' = [monitor EXCEPT ![t] = "watching"]
                /\ sent' = [sent EXCEPT ![t] = FALSE]
                /\ cancelled' = [cancelled EXCEPT ![t] = FALSE]
           ELSE UNCHANGED monitorVars
  /\ UNCHANGED <<stopping, run, heard>>

\* startOrAttach, startOrAttachCancelable.
StartOrAttach ==
  /\ pc = "start"
  /\ run[at] # "other"
  /\ run' = [run EXCEPT ![at] = "upgrade"]
  /\ pc' = "streaming"
  /\ heard' = "none"
  /\ UNCHANGED <<todo, at, deferred, interval, checks, stopping, monitorVars>>

\* Another operation has the app: "upgrading" is recorded all the same.
Conflict ==
  /\ pc = "start"
  /\ run[at] = "other"
  /\ Record(at, "upgrading") /\ Leave(at, FALSE)
  /\ UNCHANGED <<stopping, run, heard, monitorVars>>

StreamContextDone == stopping \/ (at \in Watched /\ cancelled[at])

\* broadcaster.stream returns: its run has ended, or its context has.
StreamEnds ==
  /\ pc = "streaming"
  /\ heard # "none"
  /\ pc' = "join"
  /\ UNCHANGED <<todo, at, deferred, interval, checks, stopping, run, heard, monitorVars>>

\* Mutant: the stream of an app does not look at its context.
StreamCut_NotApps ==
  /\ pc = "streaming"
  /\ StreamContextDone /\ at \in CLIs
  /\ heard' = "cut"
  /\ pc' = "join"
  /\ UNCHANGED <<todo, at, deferred, interval, checks, stopping, run, monitorVars>>

StreamCut ==
  /\ pc = "streaming"
  /\ StreamContextDone
  /\ heard' = "cut"
  /\ pc' = "join"
  /\ UNCHANGED <<todo, at, deferred, interval, checks, stopping, run, monitorVars>>

\* Mutant: an app opened during its upgrade does not shorten the pause.
AppDone_Forgets ==
  /\ pc = "join" /\ at \in Apps
  /\ Record(at, IF heard = "deferred" THEN "deferred-app-running" ELSE "upgrading")
  /\ Leave(at, FALSE)
  /\ UNCHANGED <<stopping, run, heard, monitorVars>>

\* runUpgradeThroughExecutor returns to sweep.
AppDone ==
  /\ pc = "join" /\ at \in Apps
  /\ Record(at, IF heard = "deferred" THEN "deferred-app-running" ELSE "upgrading")
  /\ Leave(at, heard = "deferred")
  /\ UNCHANGED <<stopping, run, heard, monitorVars>>

\* runCLIUpgradeWithLoadMonitor without a monitor. An aborted upgrade leaves the
\* record of an earlier sweep.
UnwatchedDone ==
  /\ pc = "join" /\ at \in CLIs \ Watched
  /\ IF heard = "done" /\ ~stopping THEN Record(at, "upgraded") ELSE UNCHANGED checks
  /\ Leave(at, FALSE)
  /\ UNCHANGED <<stopping, run, heard, monitorVars>>

\* cancel of upgradeCtx. A run it was started with stops when it sees fit.
Cancel(t) == cancelled' = [cancelled EXCEPT ![t] = TRUE]

\* close(doneCh) and the select that follows, with the deferred cancel if it returns.
Join ==
  /\ pc = "join" /\ at \in Watched
  /\ \/ /\ sent[at]
        /\ sent' = [sent EXCEPT ![at] = FALSE]
        /\ Record(at, "deferred-system-load")
        /\ Leave(at, TRUE) /\ Cancel(at)
     \/ /\ ~sent[at] /\ heard # "done"
        /\ Leave(at, FALSE) /\ Cancel(at)
        /\ UNCHANGED <<sent, checks>>
     \/ /\ ~sent[at] /\ heard = "done"
        /\ pc' = "confirm"
        /\ UNCHANGED <<todo, at, deferred, interval, checks, sent, cancelled>>
  /\ UNCHANGED <<stopping, run, heard, monitor>>

\* upgradeCtx.Err: the monitor may have cancelled since.
Confirm ==
  /\ pc = "confirm"
  /\ IF stopping \/ cancelled[at] THEN UNCHANGED checks ELSE Record(at, "upgraded")
  /\ Leave(at, FALSE) /\ Cancel(at)
  /\ UNCHANGED <<stopping, run, heard, monitor, sent>>

-----------------------------------------------------------------------------
(* loop                                                                        *)

EndSweep ==
  /\ pc = "sweep" /\ todo = {}
  /\ IF stopping
     THEN pc' = "returned" /\ UNCHANGED interval
     ELSE pc' = "rest" /\ interval' = IF deferred THEN "fast" ELSE "base"
  /\ UNCHANGED <<todo, at, deferred, checks, stopping, run, heard, monitorVars>>

\* time.After; when the context is cancelled too, either may come first.
Wake ==
  /\ pc = "rest"
  /\ pc' = "sweep"
  /\ todo' = Targets
  /\ deferred' = FALSE
  /\ checks' = [t \in Targets |-> [checks[t] EXCEPT !.now = FALSE]]
  /\ UNCHANGED <<at, interval, stopping, run, heard, monitorVars>>

Return ==
  /\ pc = "rest" /\ stopping
  /\ pc' = "returned"
  /\ UNCHANGED <<todo, at, deferred, interval, checks, stopping, run, heard, monitorVars>>

Stop ==
  /\ ~stopping
  /\ stopping' = TRUE
  /\ UNCHANGED <<loopVars, run, heard, monitorVars>>

-----------------------------------------------------------------------------
(* monitorCLIUpgradeLoad                                                       *)

MonitorStops(t) ==
  /\ monitor[t] = "watching"
  /\ stopping \/ cancelled[t] \/ (at = t /\ pc = "confirm")
  /\ monitor' = [monitor EXCEPT ![t] = "none"]
  /\ UNCHANGED <<loopVars, stopping, run, heard, sent, cancelled>>

MonitorFires(t) ==
  /\ monitor[t] = "watching"
  /\ monitor' = [monitor EXCEPT ![t] = "deciding"]
  /\ UNCHANGED <<loopVars, stopping, run, heard, sent, cancelled>>

\* A load that cannot be read, or is not high, defers nothing.
MonitorDecides(t) ==
  /\ monitor[t] = "deciding"
  /\ \E next \in {"watching", "sending"} : monitor' = [monitor EXCEPT ![t] = next]
  /\ UNCHANGED <<loopVars, stopping, run, heard, sent, cancelled>>

\* Mutants: deferredCh has no buffer and its send no default; the context is
\* cancelled before the decision is sent.
MonitorSends_Blocks(t) ==
  /\ monitor[t] = "sending"
  /\ at = t /\ pc = "join"
  /\ sent' = [sent EXCEPT ![t] = TRUE]
  /\ monitor' = [monitor EXCEPT ![t] = "sent"]
  /\ UNCHANGED <<loopVars, stopping, run, heard, cancelled>>

MonitorSends_Late(t) ==
  /\ monitor[t] = "sending"
  /\ IF cancelled[t]
     THEN /\ sent' = [sent EXCEPT ![t] = TRUE]
          /\ monitor' = [monitor EXCEPT ![t] = "sent"]
          /\ UNCHANGED cancelled
     ELSE Cancel(t) /\ UNCHANGED <<sent, monitor>>
  /\ UNCHANGED <<loopVars, stopping, run, heard>>

MonitorSends(t) ==
  /\ monitor[t] = "sending"
  /\ sent' = [sent EXCEPT ![t] = TRUE]
  /\ monitor' = [monitor EXCEPT ![t] = "sent"]
  /\ UNCHANGED <<loopVars, stopping, run, heard, cancelled>>

MonitorCancels(t) ==
  /\ monitor[t] = "sent"
  /\ Cancel(t)
  /\ monitor' = [monitor EXCEPT ![t] = "none"]
  /\ UNCHANGED <<loopVars, stopping, run, heard, sent>>

-----------------------------------------------------------------------------
(* The executor's runs. Other clients operate on apps; CLIs are upgraded by    *)
(* this loop alone.                                                            *)

ClientRuns(t) ==
  /\ t \in Apps
  /\ run[t] = "none"
  /\ \E kind \in {"upgrade", "other"} : run' = [run EXCEPT ![t] = kind]
  /\ UNCHANGED <<loopVars, stopping, heard, monitorVars>>

RunEnds(t, end) ==
  /\ run[t] # "none"
  /\ end = "deferred" => t \in Apps
  /\ run' = [run EXCEPT ![t] = "none"]
  /\ heard' = IF pc = "streaming" /\ at = t /\ heard = "none" THEN end ELSE heard
  /\ UNCHANGED <<loopVars, stopping, monitorVars>>

Sweep ==
  \/ \E t \in Targets : CheckApp(t) \/ CheckLoad(t)
  \/ StartOrAttach \/ Conflict \/ StreamEnds \/ StreamCut
  \/ AppDone \/ UnwatchedDone \/ Join \/ Confirm

Loop == Sweep \/ EndSweep \/ Wake \/ Return

Monitor(t) ==
  \/ MonitorStops(t) \/ MonitorFires(t) \/ MonitorDecides(t)
  \/ MonitorSends(t) \/ MonitorCancels(t)

Next ==
  \/ Loop \/ Stop
  \/ \E t \in Watched : Monitor(t)
  \/ \E t \in Targets : ClientRuns(t) \/ \E end \in Ends : RunEnds(t, end)

\* The loop and its calls other than the jobs go on; a load check ends in two seconds;
\* a select with the end in sight takes it at some time. Jobs need not end.
Fairness ==
  /\ WF_vars(Loop)
  /\ \A t \in Watched :
       /\ SF_vars(MonitorStops(t))
       /\ WF_vars(MonitorDecides(t) \/ MonitorSends(t) \/ MonitorCancels(t))

Spec == Init /\ [][Next]_vars /\ Fairness

-----------------------------------------------------------------------------
TypeOK ==
  /\ pc \in {"sweep", "start", "streaming", "join", "confirm", "rest", "returned"}
  /\ stopping \in BOOLEAN
  /\ todo \subseteq Targets
  /\ at \in Targets \union {NoTarget}
  /\ at # NoTarget <=> pc \in {"start", "streaming", "join", "confirm"}
  /\ deferred \in BOOLEAN
  /\ interval \in {"none", "base", "fast"}
  /\ checks \in [Targets -> [outcome : Outcomes, now : BOOLEAN]]
  /\ run \in [Targets -> {"none", "upgrade", "other"}]
  /\ heard \in {"none", "cut"} \union Ends
  /\ monitor \in [Watched -> {"none", "watching", "deciding", "sending", "sent"}]
  /\ sent \in [Watched -> BOOLEAN]
  /\ cancelled \in [Watched -> BOOLEAN]

\* "relaxed by default, fast after a sweep deferred a target" (tickInterval): the
\* pause is short exactly when the status shows a target deferred by this sweep,
\* whatever the reason and however late it was found.
FastAfterDeferral ==
  pc = "rest" =>
    (interval = "fast" <=> \E t \in Targets : checks[t].now /\ checks[t].outcome \in Deferrals)

\* An upgrade the monitor has stopped for the load is deferred, with the short pause,
\* and never taken for a failed one (runCLIUpgradeWithLoadMonitor's select).
StoppedForLoadIsDeferred ==
  [][\A t \in Watched :
       at = t /\ pc = "join" /\ cancelled[t] /\ pc' = "sweep" =>
         checks'[t] = [outcome |-> "deferred-system-load", now |-> TRUE] /\ deferred']_vars


\* loop runs "until ctx is cancelled": it ends, whatever its jobs do.
StopEndsLoop == stopping ~> pc = "returned"

\* No load monitor outlives its upgrade (doneCh, the deferred cancel, and deferredCh,
\* which takes a decision nobody waits for).
MonitorsEnd == \A t \in Watched : (monitor[t] # "none" /\ at # t) ~> monitor[t] = "none"
=============================================================================
