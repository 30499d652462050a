------------------------------ MODULE Executor ------------------------------
(* internal/daemon/executor.go, with the jobs of operationjob.go that it runs  *)
(* and the handlers of operations_rpc.go and updater_rpc.go that call it. A    *)
(* call is one RPC or one upgrade of the tick loop; a run is one job goroutine *)
(* with the broadcaster its events go through, at the grain of EventLog. Of    *)
(* these events the one that ends the operation is modelled; Broadcaster has   *)
(* the others.                                                                 *)
EXTENDS Naturals, Sequences

CONSTANTS
  Operations,  \* "upgrade", "patch", "hard-reset", "keychain-migrate"
  Upgrade,     \* the operation that startOrAttachCancelable starts
  Targets,
  Flags,       \* the flag sets a request may carry
  Calls,
  Watchers,    \* those of Calls that are SubscribeActive RPCs
  RunIds,      \* bound: the activeRun objects ever allocated
  NoRun

ASSUME ExecutorAssumption ==
  /\ Upgrade \in Operations
  /\ Watchers \subseteq Calls
  /\ NoRun \notin RunIds

Keys == Operations \X Targets

VARIABLES
  runs,     \* executor.runs
  run,      \* the activeRun objects, with the arguments of the job they run
  phase,    \* how far the run's goroutine is
  result,   \* how its job ended
  log,      \* its broadcaster's events
  pc,       \* what each call is doing
  asked,    \* its request
  on,       \* the runs it streams
  seen,     \* how many of their events it has been sent
  failure,  \* renderOperationStream's failed: a failed target_done came
  ctx       \* its context has been cancelled

runVars == <<runs, run, phase, result, log>>
callVars == <<pc, asked, on, seen, failure, ctx>>
vars == <<runVars, callVars>>

Live == {"started", "working", "returned"}
Phases == {"unused", "removed", "finished"} \union Live
Outcomes == {"ok", "failed"}   \* a skipped operation is "ok": nothing here tells them apart
Results == {"none", "aborted", "nosetup", "panic"} \union Outcomes
NoRequest == [key |-> NoRun, flags |-> NoRun, cancelable |-> FALSE]
Requests == [key : Keys, flags : Flags, cancelable : BOOLEAN]

Init ==
  /\ runs = [k \in Keys |-> NoRun]
  /\ run = [r \in RunIds |-> [key |-> NoRun, flags |-> NoRun,
                             cancelable |-> FALSE, owner |-> NoRun]]
  /\ phase = [r \in RunIds |-> "unused"]
  /\ result = [r \in RunIds |-> "none"]
  /\ log = [r \in RunIds |-> << >>]
  /\ pc = [c \in Calls |-> "idle"]
  /\ asked = [c \in Calls |-> NoRequest]
  /\ on = [c \in Calls |-> {}]
  /\ seen = [c \in Calls |-> [r \in RunIds |-> 0]]
  /\ failure = [c \in Calls |-> FALSE]
  /\ ctx = [c \in Calls |-> FALSE]

-----------------------------------------------------------------------------
(* startOrAttachWithCancellation: one critical section of e.mu.                *)

Registered == {runs[k] : k \in Keys} \ {NoRun}

\* Mutant: only the same operation conflicts.
TargetTaken_SameOperation(k) == runs[k] # NoRun

\* A registered run that works on the target of key k.
TargetTaken(k) == \E j \in Keys : j[2] = k[2] /\ runs[j] # NoRun

Ask(c, req) ==
  /\ c \notin Watchers
  /\ pc[c] = "idle"
  /\ req.cancelable => req.key[1] = Upgrade
  /\ asked' = [asked EXCEPT ![c] = req]

\* Mutant: an attached call gets only what is still to come.
Attach_TailOnly(c, req) ==
  LET r == runs[req.key] IN
  /\ Ask(c, req)
  /\ r # NoRun
  /\ run[r].cancelable = req.cancelable
  /\ pc' = [pc EXCEPT ![c] = "streaming"]
  /\ on' = [on EXCEPT ![c] = {r}]
  /\ seen' = [seen EXCEPT ![c][r] = Len(log[r])]
  /\ UNCHANGED <<runVars, failure, ctx>>

\* Mutant: a run is shared whatever its cancellation.
Attach_AnyKind(c, req) ==
  LET r == runs[req.key] IN
  /\ Ask(c, req)
  /\ r # NoRun
  /\ pc' = [pc EXCEPT ![c] = "streaming"]
  /\ on' = [on EXCEPT ![c] = {r}]
  /\ UNCHANGED <<runVars, seen, failure, ctx>>

Attach(c, req) ==
  LET r == runs[req.key] IN
  /\ Ask(c, req)
  /\ r # NoRun
  /\ run[r].cancelable = req.cancelable
  /\ pc' = [pc EXCEPT ![c] = "streaming"]
  /\ on' = [on EXCEPT ![c] = {r}]
  /\ UNCHANGED <<runVars, seen, failure, ctx>>

\* sameTargetConflictError or runCancellationConflictError.
Refuse(c, req) ==
  LET r == runs[req.key] IN
  /\ Ask(c, req)
  /\ IF r # NoRun THEN run[r].cancelable # req.cancelable ELSE TargetTaken(req.key)
  /\ pc' = [pc EXCEPT ![c] = "refused"]
  /\ UNCHANGED <<runVars, on, seen, failure, ctx>>

Start(c, req, r) ==
  /\ Ask(c, req)
  /\ ~TargetTaken(req.key)
  /\ phase[r] = "unused"
  /\ runs' = [runs EXCEPT ![req.key] = r]
  /\ run' = [run EXCEPT ![r] = [key |-> req.key, flags |-> req.flags,
                                cancelable |-> req.cancelable, owner |-> c]]
  /\ phase' = [phase EXCEPT ![r] = "started"]
  /\ pc' = [pc EXCEPT ![c] = "streaming"]
  /\ on' = [on EXCEPT ![c] = {r}]
  /\ UNCHANGED <<result, log, seen, failure, ctx>>

\* SubscribeActive takes the matching runs once, and returns if there are none.
Matching(K) == {runs[k] : k \in K} \ {NoRun}

SubscribeActive(c, K) ==
  /\ c \in Watchers
  /\ pc[c] = "idle"
  /\ on' = [on EXCEPT ![c] = Matching(K)]
  /\ pc' = [pc EXCEPT ![c] = IF Matching(K) = {} THEN "ended" ELSE "streaming"]
  /\ UNCHANGED <<runVars, asked, seen, failure, ctx>>

\* activeMatching's filters: an operation, a target, both or neither.
Filters ==
  {Keys} \union {{k} : k \in Keys}
    \union {{k \in Keys : k[1] = op} : op \in Operations}
    \union {{k \in Keys : k[2] = t} : t \in Targets}

-----------------------------------------------------------------------------
(* The job goroutine: newOperationJob and newCLIUpgradeJob under runJob.       *)

JobReturns(r, how) ==
  /\ phase' = [phase EXCEPT ![r] = "returned"]
  /\ result' = [result EXCEPT ![r] = how]

\* Unknown target, no session or no log file: an error, and no terminal event.
SetupFails(r) ==
  /\ phase[r] = "started"
  /\ JobReturns(r, "nosetup")
  /\ UNCHANGED <<runs, run, log, callVars>>

SetupSucceeds(r) ==
  /\ phase[r] = "started"
  /\ phase' = [phase EXCEPT ![r] = "working"]
  /\ UNCHANGED <<runs, run, result, log, callVars>>

\* finishRun emits the terminal event. Session.Emit writes it to the run log first,
\* and an event that the run log does not take goes to nobody.
Emits(r, event) == log' \in {log, [log EXCEPT ![r] = Append(@, event)]}

\* operations.Run returns.
Completes(r, outcome) ==
  /\ phase[r] = "working"
  /\ JobReturns(r, outcome)
  /\ Emits(r, outcome)
  /\ UNCHANGED <<runs, run, callVars>>

\* Mutant: no WithoutCancel.
JobCancelled_AnyRun(r) == ctx[run[r].owner]

\* jobCtx ends only with the context of the call that started a cancelable run.
JobCancelled(r) == run[r].cancelable /\ ctx[run[r].owner]

Aborts(r) ==
  /\ phase[r] = "working"
  /\ JobCancelled(r)
  /\ JobReturns(r, "aborted")
  /\ Emits(r, "failed")
  /\ UNCHANGED <<runs, run, callVars>>

\* The deferred clean-up of runJob runs, then startOrAttach's recover.
Panics(r) ==
  /\ phase[r] \in {"started", "working"}
  /\ JobReturns(r, "panic")
  /\ UNCHANGED <<runs, run, log, callVars>>

\* Mutants: the clean-up is not deferred, so a panic skips it; the run is removed
\* when its job starts to work.
Deregister_UnlessPanic(r) ==
  /\ phase[r] = "returned"
  /\ runs' = IF result[r] = "panic" THEN runs ELSE [runs EXCEPT ![run[r].key] = NoRun]
  /\ phase' = [phase EXCEPT ![r] = "removed"]
  /\ UNCHANGED <<run, result, log, callVars>>

Deregister_Working(r) ==
  /\ phase[r] \in {"working", "returned"}
  /\ runs' = [runs EXCEPT ![run[r].key] = NoRun]
  /\ phase' = [phase EXCEPT ![r] = IF @ = "returned" THEN "removed" ELSE @]
  /\ UNCHANGED <<run, result, log, callVars>>

Deregister(r) ==
  /\ phase[r] = "returned"
  /\ runs' = [runs EXCEPT ![run[r].key] = NoRun]
  /\ phase' = [phase EXCEPT ![r] = "removed"]
  /\ UNCHANGED <<run, result, log, callVars>>

\* Mutants: subscribers are released before the run is removed, or never.
Finish_BeforeDelete(r) ==
  /\ phase[r] \in {"returned", "removed"}
  /\ phase' = [phase EXCEPT ![r] = "finished"]
  /\ UNCHANGED <<runs, run, result, log, callVars>>

Finish_UnlessPanic(r) ==
  /\ phase[r] = "removed"
  /\ result[r] # "panic"
  /\ phase' = [phase EXCEPT ![r] = "finished"]
  /\ UNCHANGED <<runs, run, result, log, callVars>>

\* broadcaster.finish, after e.mu is released.
Finish(r) ==
  /\ phase[r] = "removed"
  /\ phase' = [phase EXCEPT ![r] = "finished"]
  /\ UNCHANGED <<runs, run, result, log, callVars>>

Job(r) ==
  \/ SetupFails(r) \/ SetupSucceeds(r)
  \/ (\E outcome \in Outcomes : Completes(r, outcome))
  \/ Aborts(r) \/ Panics(r) \/ Deregister(r) \/ Finish(r)

-----------------------------------------------------------------------------
(* The streaming half of a call.                                               *)

Deliver(c, r) ==
  /\ pc[c] = "streaming"
  /\ r \in on[c]
  /\ seen[c][r] < Len(log[r])
  /\ seen' = [seen EXCEPT ![c][r] = @ + 1]
  /\ failure' = [failure EXCEPT ![c] = @ \/ log[r][seen[c][r] + 1] = "failed"]
  /\ UNCHANGED <<runVars, pc, asked, on, ctx>>

\* Every stream of the call has drained a finished run.
EndOfStream(c) ==
  /\ pc[c] = "streaming"
  /\ \A r \in on[c] : phase[r] = "finished" /\ seen[c][r] = Len(log[r])
  /\ pc' = [pc EXCEPT ![c] = "ended"]
  /\ UNCHANGED <<runVars, asked, on, seen, failure, ctx>>

Cancel(c) ==
  /\ pc[c] = "streaming"
  /\ ~ctx[c]
  /\ ctx' = [ctx EXCEPT ![c] = TRUE]
  /\ UNCHANGED <<runVars, pc, asked, on, seen, failure>>

\* Mutant: nothing wakes a cancelled stream but the next event or the end of a run.
Detach_WithNextEvent(c) ==
  /\ pc[c] = "streaming"
  /\ ctx[c]
  /\ \E r \in on[c] : seen[c][r] < Len(log[r]) \/ phase[r] = "finished"
  /\ pc' = [pc EXCEPT ![c] = "detached"]
  /\ on' = [on EXCEPT ![c] = {}]
  /\ seen' = [seen EXCEPT ![c] = [r \in RunIds |-> 0]]
  /\ UNCHANGED <<runVars, asked, failure, ctx>>

Detach(c) ==
  /\ pc[c] = "streaming"
  /\ ctx[c]
  /\ pc' = [pc EXCEPT ![c] = "detached"]
  /\ on' = [on EXCEPT ![c] = {}]
  /\ seen' = [seen EXCEPT ![c] = [r \in RunIds |-> 0]]
  /\ UNCHANGED <<runVars, asked, failure, ctx>>

Stream(c) == (\E r \in RunIds : Deliver(c, r)) \/ EndOfStream(c) \/ Detach(c)

Call(c) ==
  \/ \E req \in Requests :
       Attach(c, req) \/ Refuse(c, req) \/ \E r \in RunIds : Start(c, req, r)
  \/ \E K \in Filters : SubscribeActive(c, K)

Next ==
  \/ \E r \in RunIds : Job(r)
  \/ \E c \in Calls : Call(c) \/ Stream(c) \/ Cancel(c)

Spec == Init /\ [][Next]_vars

-----------------------------------------------------------------------------
RunRecords ==
  [key : Keys \union {NoRun}, flags : Flags \union {NoRun},
   cancelable : BOOLEAN, owner : Calls \union {NoRun}]

\* Types, with the one length that matters: a run has one terminal event.
TypeOK ==
  /\ runs \in [Keys -> RunIds \union {NoRun}]
  /\ run \in [RunIds -> RunRecords]
  /\ phase \in [RunIds -> Phases]
  /\ result \in [RunIds -> Results]
  /\ log \in [RunIds -> Seq(Outcomes)]
  /\ \A r \in RunIds : Len(log[r]) <= 1
  /\ pc \in [Calls -> {"idle", "streaming", "refused", "detached", "ended"}]
  /\ asked \in [Calls -> Requests \union {NoRequest}]
  /\ on \in [Calls -> SUBSET RunIds]
  /\ seen \in [Calls -> [RunIds -> Nat]]
  /\ failure \in [Calls -> BOOLEAN]
  /\ ctx \in [Calls -> BOOLEAN]

\* "A different mutating operation for the same target is blocked": at no time do
\* two jobs that have not returned share a target.
OneRunPerTarget ==
  \A r, q \in RunIds :
    phase[r] \in Live /\ phase[q] \in Live /\ run[r].key[2] = run[q].key[2] => r = q

\* "a subscriber that returns the moment the run finishes never observes stale
\* executor state" (runJob): when a call's stream has ended, no run it streamed
\* is still registered.
NoStaleState ==
  \A c \in Calls : pc[c] = "ended" => on[c] \intersect Registered = {}

\* A bundle swap "finishes even if the caller's context is cancelled" (runJob): no request
\* that is not cancelable itself, having started a run or joined somebody else's, is left
\* with a run that was aborted because another caller went away.
OthersCannotAbort ==
  \A c \in Calls \ Watchers : \A r \in on[c] :
    result[r] = "aborted" => asked[c].cancelable

\* "A failed terminal event is returned as an error" (renderOperationStream): once
\* emitted it reaches every call that streamed the run to its end, the ones that
\* attached late included.
FailureReachesCalls ==
  \A c \in Calls : \A r \in on[c] :
    pc[c] = "ended" /\ (\E i \in 1..Len(log[r]) : log[r][i] = "failed") => failure[c]

\* A request is refused only for a run in progress on its target: neither a panic
\* nor a failed setup leaves a target locked.
RefusedOnlyForLiveRun ==
  [][\A c \in Calls :
       pc[c] # "refused" /\ pc'[c] = "refused" =>
         \E r \in RunIds :
           phase[r] \in Live /\ run[r].key[2] = asked'[c].key[2]]_vars

\* The executor implements the lease it stands for.
Lease == INSTANCE TargetLease WITH
  held <- [t \in Targets |-> {runs[<<op, t>>] : op \in Operations} \ {NoRun}],
  busy <- {r \in RunIds : phase[r] = "working"}

ImplementsLease == Lease!Spec

-----------------------------------------------------------------------------
\* "The operation's outcome (success, skipped, or failed) is carried to every
\* subscriber" (operationjob.go): a call reports success only for a job that
\* was not a failure.
SuccessMeansSuccess ==
  \A c \in Calls :
    pc[c] = "ended" /\ asked[c] # NoRequest /\ ~failure[c] =>
      \A r \in on[c] : result[r] = "ok"
=============================================================================
