---------------------------- MODULE DaemonProofs ----------------------------
(* What the executor guarantees for every number of targets, operations, calls *)
(* and runs: everything there rests on Inv, that the registry and the live     *)
(* runs are two views of one thing and a target is registered under one key at *)
(* most. Then that all of it survives the exits and crashes of the daemon      *)
(* process, and that an orderly stop cuts no stream, which rests on DaemonInv. *)
EXTENDS Daemon, TLAPS

\* The types of the executor's variables, for runs that ended with their process too.
ExecutorTypes ==
  /\ runs \in [Keys -> RunIds \union {NoRun}]
  /\ run \in [RunIds -> RunRecords]
  /\ phase \in [RunIds -> Phases \union {"killed"}]
  /\ result \in [RunIds -> Results]
  /\ log \in [RunIds -> Seq(Outcomes)]
  /\ \A r \in RunIds : Len(log[r]) <= 1
  /\ pc \in [Calls -> {"idle", "streaming", "refused", "detached", "ended"}]
  /\ asked \in [Calls -> Requests \union {NoRequest}]
  /\ on \in [Calls -> SUBSET RunIds]
  /\ seen \in [Calls -> [RunIds -> Nat]]
  /\ failure \in [Calls -> BOOLEAN]
  /\ ctx \in [Calls -> BOOLEAN]

\* A registered run is live, under its own key ...
RegisteredIsLive ==
  \A k \in Keys : runs[k] # NoRun => phase[runs[k]] \in Live /\ run[runs[k]].key = k

\* ... and a live run is registered.
LiveIsRegistered ==
  \A r \in RunIds : phase[r] \in Live => run[r].key \in Keys /\ runs[run[r].key] = r

\* startOrAttachWithCancellation's scan for a conflict.
OneKeyPerTarget ==
  \A j, k \in Keys : runs[j] # NoRun /\ runs[k] # NoRun /\ j[2] = k[2] => j = k

\* Nothing ends an operation whose job has not returned.
NoEarlyEnd ==
  \A r \in RunIds : phase[r] \in {"unused", "started", "working"} => log[r] = << >>

Inv == ExecutorTypes /\ RegisteredIsLive /\ LiveIsRegistered /\ OneKeyPerTarget /\ NoEarlyEnd

-----------------------------------------------------------------------------
(* The parts of a step that several actions share.                             *)

\* A step that leaves the registry and the records alone, and makes no run live or
\* dead, keeps the registry in order.
LEMMA RegistryKept ==
  ASSUME Inv, runs' = runs, run' = run,
         \A r \in RunIds : phase[r] \in Live <=> phase'[r] \in Live
  PROVE  (RegisteredIsLive /\ LiveIsRegistered /\ OneKeyPerTarget)'
<1> USE ExecutorAssumption DEF Inv
<1>1. RegisteredIsLive'
  BY DEF RegisteredIsLive, ExecutorTypes
<1>2. LiveIsRegistered'
  BY DEF LiveIsRegistered
<1>3. OneKeyPerTarget'
  BY DEF OneKeyPerTarget
<1> QED
  BY <1>1, <1>2, <1>3

LEMMA InitInv == Init => Inv
<1> SUFFICES ASSUME Init PROVE Inv
  OBVIOUS
<1> USE ExecutorAssumption DEF Init
<1>1. ExecutorTypes
  BY DEF ExecutorTypes, RunRecords, Phases, Live, Results, Outcomes, NoRequest
<1>2. RegisteredIsLive /\ LiveIsRegistered /\ OneKeyPerTarget /\ NoEarlyEnd
  BY DEF RegisteredIsLive, LiveIsRegistered, OneKeyPerTarget, NoEarlyEnd, Live
<1> QED
  BY <1>1, <1>2 DEF Inv

-----------------------------------------------------------------------------
(* One lemma per action that moves a run; the other actions move only calls.   *)

LEMMA StartInv ==
  ASSUME Inv, NEW c \in Calls, NEW req \in Requests, NEW r \in RunIds, Start(c, req, r)
  PROVE  Inv'
<1> USE ExecutorAssumption DEF Inv
<1>1. req.key \in Keys /\ req.flags \in Flags /\ req.cancelable \in BOOLEAN
  BY DEF Requests
<1>2. ExecutorTypes'
  BY <1>1 DEF Start, Ask, ExecutorTypes, RunRecords, Phases, Live
<1>3. /\ runs' = [runs EXCEPT ![req.key] = r]
      /\ run'[r].key = req.key
      /\ \A q \in RunIds \ {r} : run'[q] = run[q] /\ phase'[q] = phase[q]
      /\ phase'[r] = "started"
      /\ phase[r] = "unused"
      /\ log' = log
  BY DEF Start, ExecutorTypes
<1>4. \A k \in Keys : k[2] = req.key[2] => runs[k] = NoRun
  BY DEF Start, TargetTaken
<1>5. \A k \in Keys : runs[k] # r
  BY <1>3 DEF RegisteredIsLive, Live
<1>6. RegisteredIsLive'
  BY <1>1, <1>3, <1>5 DEF RegisteredIsLive, ExecutorTypes, Live
<1>7. LiveIsRegistered'
  <2> SUFFICES ASSUME NEW q \in RunIds, phase'[q] \in Live
               PROVE  run'[q].key \in Keys /\ runs'[run'[q].key] = q
    BY DEF LiveIsRegistered
  <2>1. CASE q = r
    BY <1>1, <1>3, <2>1 DEF ExecutorTypes
  <2>2. CASE q # r
    <3>1. run[q].key \in Keys /\ runs[run[q].key] = q
      BY <1>3, <2>2 DEF LiveIsRegistered
    <3>2. run[q].key # req.key
      BY <1>1, <1>4, <3>1
    <3> QED
      BY <1>1, <1>3, <2>2, <3>1, <3>2 DEF ExecutorTypes
  <2> QED
    BY <2>1, <2>2
<1>8. OneKeyPerTarget'
  BY <1>1, <1>3, <1>4 DEF OneKeyPerTarget, ExecutorTypes
<1>9. NoEarlyEnd'
  BY <1>3 DEF NoEarlyEnd
<1> QED
  BY <1>2, <1>6, <1>7, <1>8, <1>9

LEMMA DeregisterInv ==
  ASSUME Inv, NEW r \in RunIds, Deregister(r)
  PROVE  Inv'
<1> USE ExecutorAssumption DEF Inv
<1>1. ExecutorTypes'
  BY DEF Deregister, ExecutorTypes, Phases, callVars
<1>2. /\ phase[r] \in Live
      /\ phase' = [phase EXCEPT ![r] = "removed"]
      /\ runs' = [runs EXCEPT ![run[r].key] = NoRun]
      /\ run' = run
      /\ log' = log
  BY DEF Deregister, Live
<1>3. run[r].key \in Keys /\ runs[run[r].key] = r
  BY <1>2 DEF LiveIsRegistered
<1>4. RegisteredIsLive'
  BY <1>2, <1>3 DEF RegisteredIsLive, ExecutorTypes
<1>5. LiveIsRegistered'
  BY <1>2, <1>3 DEF LiveIsRegistered, ExecutorTypes, Live
<1>6. OneKeyPerTarget'
  BY <1>2, <1>3 DEF OneKeyPerTarget, ExecutorTypes
<1>7. NoEarlyEnd'
  BY <1>2 DEF NoEarlyEnd, ExecutorTypes
<1> QED
  BY <1>1, <1>4, <1>5, <1>6, <1>7

LEMMA EmissionFits ==
  ASSUME Inv, NEW r \in RunIds, NEW event \in Outcomes, phase[r] = "working", Emits(r, event)
  PROVE  /\ log' \in [RunIds -> Seq(Outcomes)]
         /\ \A q \in RunIds : Len(log'[q]) <= 1
<1> USE ExecutorAssumption DEF Inv, ExecutorTypes
<1>1. CASE log' = log
  BY <1>1
<1>2. CASE log' = [log EXCEPT ![r] = Append(@, event)]
  <2>1. log[r] = << >>
    BY DEF NoEarlyEnd
  <2>2. /\ Append(log[r], event) \in Seq(Outcomes)
        /\ Len(Append(log[r], event)) <= 1
    BY <2>1
  <2> QED
    BY <1>2, <2>2
<1> QED
  BY <1>1, <1>2 DEF Emits

LEMMA JobInv ==
  ASSUME Inv, NEW r \in RunIds, Job(r)
  PROVE  Inv'
<1> USE ExecutorAssumption DEF Inv
<1> DEFINE Quiet == /\ runs' = runs
                    /\ run' = run
                    /\ \A q \in RunIds : phase[q] \in Live <=> phase'[q] \in Live
<1>1. ASSUME Quiet, ExecutorTypes', NoEarlyEnd' PROVE Inv'
  BY <1>1, RegistryKept
<1>2. CASE SetupFails(r)
  <2>1. Quiet /\ NoEarlyEnd'
    BY <1>2 DEF SetupFails, JobReturns, ExecutorTypes, Live, NoEarlyEnd
  <2>2. ExecutorTypes'
    BY <1>2 DEF SetupFails, JobReturns, ExecutorTypes, Phases, Live, Results, callVars
  <2> QED
    BY <1>1, <2>1, <2>2
<1>3. CASE SetupSucceeds(r)
  <2>1. Quiet /\ NoEarlyEnd'
    BY <1>3 DEF SetupSucceeds, ExecutorTypes, Live, NoEarlyEnd
  <2>2. ExecutorTypes'
    BY <1>3 DEF SetupSucceeds, ExecutorTypes, Phases, Live, callVars
  <2> QED
    BY <1>1, <2>1, <2>2
<1>4. ASSUME NEW outcome \in Outcomes, Completes(r, outcome) PROVE Inv'
  <2>1. Quiet
    BY <1>4 DEF Completes, JobReturns, ExecutorTypes, Live
  <2>2. /\ log' \in [RunIds -> Seq(Outcomes)]
        /\ \A q \in RunIds : Len(log'[q]) <= 1
    BY <1>4, EmissionFits DEF Completes
  <2>3. NoEarlyEnd'
    BY <1>4 DEF Completes, JobReturns, Emits, ExecutorTypes, NoEarlyEnd
  <2>4. ExecutorTypes'
    BY <1>4, <2>2 DEF Completes, JobReturns, ExecutorTypes, Phases, Live, Results, callVars
  <2> QED
    BY <1>1, <2>1, <2>3, <2>4
<1>5. CASE Aborts(r)
  <2>1. Quiet
    BY <1>5 DEF Aborts, JobReturns, ExecutorTypes, Live
  <2>2. /\ log' \in [RunIds -> Seq(Outcomes)]
        /\ \A q \in RunIds : Len(log'[q]) <= 1
    BY <1>5, EmissionFits DEF Aborts, Outcomes
  <2>3. NoEarlyEnd'
    BY <1>5 DEF Aborts, JobReturns, Emits, ExecutorTypes, NoEarlyEnd
  <2>4. ExecutorTypes'
    BY <1>5, <2>2 DEF Aborts, JobReturns, ExecutorTypes, Phases, Live, Results, callVars
  <2> QED
    BY <1>1, <2>1, <2>3, <2>4
<1>6. CASE Panics(r)
  <2>1. Quiet /\ NoEarlyEnd'
    BY <1>6 DEF Panics, JobReturns, ExecutorTypes, Live, NoEarlyEnd
  <2>2. ExecutorTypes'
    BY <1>6 DEF Panics, JobReturns, ExecutorTypes, Phases, Live, Results, callVars
  <2> QED
    BY <1>1, <2>1, <2>2
<1>7. CASE Deregister(r)
  BY <1>7, DeregisterInv
<1>8. CASE Finish(r)
  <2>1. Quiet /\ NoEarlyEnd'
    BY <1>8 DEF Finish, ExecutorTypes, Live, NoEarlyEnd
  <2>2. ExecutorTypes'
    BY <1>8 DEF Finish, ExecutorTypes, Phases, callVars
  <2> QED
    BY <1>1, <2>1, <2>2
<1> QED
  BY <1>2, <1>3, <1>4, <1>5, <1>6, <1>7, <1>8 DEF Job

\* A step of a call other than Start leaves every run as it is.
LEMMA CallerInv ==
  ASSUME Inv, UNCHANGED runVars, ExecutorTypes'
  PROVE  Inv'
<1>1. NoEarlyEnd'
  BY DEF Inv, NoEarlyEnd, runVars
<1> QED
  BY <1>1, RegistryKept DEF Inv, runVars

LEMMA CallInv ==
  ASSUME Inv, NEW c \in Calls, Call(c)
  PROVE  Inv'
<1> USE DEF Inv
<1>1. ASSUME NEW req \in Requests, Attach(c, req) PROVE Inv'
  <2>1. runs[req.key] \in RunIds
    BY <1>1 DEF Attach, Ask, ExecutorTypes, Requests
  <2>2. ExecutorTypes'
    BY <1>1, <2>1 DEF Attach, Ask, ExecutorTypes, runVars
  <2> QED
    BY <1>1, <2>2, CallerInv DEF Attach
<1>2. ASSUME NEW req \in Requests, Refuse(c, req) PROVE Inv'
  <2>1. ExecutorTypes'
    BY <1>2 DEF Refuse, Ask, ExecutorTypes, runVars
  <2> QED
    BY <1>2, <2>1, CallerInv DEF Refuse
<1>3. ASSUME NEW req \in Requests, NEW r \in RunIds, Start(c, req, r) PROVE Inv'
  BY <1>3, StartInv
<1>4. ASSUME NEW K \in Filters, SubscribeActive(c, K) PROVE Inv'
  <2>1. K \subseteq Keys
    BY DEF Filters
  <2>2. Matching(K) \subseteq RunIds
    BY <2>1 DEF Matching, ExecutorTypes
  <2>3. ExecutorTypes'
    BY <1>4, <2>2 DEF SubscribeActive, ExecutorTypes, runVars
  <2> QED
    BY <1>4, <2>3, CallerInv DEF SubscribeActive
<1> QED
  BY <1>1, <1>2, <1>3, <1>4 DEF Call

LEMMA StreamInv ==
  ASSUME Inv, NEW c \in Calls, Stream(c) \/ Cancel(c)
  PROVE  Inv'
<1> USE DEF Inv
<1>1. ASSUME NEW r \in RunIds, Deliver(c, r) PROVE Inv'
  <2>1. ExecutorTypes'
    <3>1. seen' \in [Calls -> [RunIds -> Nat]]
      BY <1>1 DEF Deliver, ExecutorTypes
    <3>2. failure' \in [Calls -> BOOLEAN]
      BY <1>1 DEF Deliver, ExecutorTypes
    <3> QED
      BY <1>1, <3>1, <3>2 DEF Deliver, ExecutorTypes, runVars
  <2> QED
    BY <1>1, <2>1, CallerInv DEF Deliver
<1>2. CASE EndOfStream(c)
  <2>1. ExecutorTypes'
    BY <1>2 DEF EndOfStream, ExecutorTypes, runVars
  <2> QED
    BY <1>2, <2>1, CallerInv DEF EndOfStream
<1>3. CASE Detach(c)
  <2>1. ExecutorTypes'
    BY <1>3 DEF Detach, ExecutorTypes, runVars
  <2> QED
    BY <1>3, <2>1, CallerInv DEF Detach
<1>4. CASE Cancel(c)
  <2>1. ExecutorTypes'
    BY <1>4 DEF Cancel, ExecutorTypes, runVars
  <2> QED
    BY <1>4, <2>1, CallerInv DEF Cancel
<1> QED
  BY <1>1, <1>2, <1>3, <1>4 DEF Stream

LEMMA StutterInv == Inv /\ UNCHANGED vars => Inv'
<1> SUFFICES ASSUME Inv, UNCHANGED vars PROVE Inv'
  OBVIOUS
<1>1. ExecutorTypes'
  BY DEF Inv, ExecutorTypes, vars, runVars, callVars
<1> QED
  BY <1>1, CallerInv DEF vars

\* Inv is inductive.
LEMMA StepInv == Inv /\ [Next]_vars => Inv'
BY JobInv, CallInv, StreamInv, StutterInv DEF Next

THEOREM Invariant == Spec => []Inv
BY InitInv, StepInv, PTL DEF Spec

-----------------------------------------------------------------------------
\* Every variable keeps its type and a run never emits more than one terminal
\* event after its progress events.
THEOREM TypeCorrect == Spec => []TypeOK
<1> DEFINE Alive == phase \in [RunIds -> Phases]
<1>1. Init => Alive
  BY DEF Init, Phases
<1>2. Inv /\ Alive /\ [Next]_vars => Alive'
  <2> SUFFICES ASSUME Alive, [Next]_vars PROVE Alive'
    OBVIOUS
  <2>1. ASSUME NEW r \in RunIds, Job(r) PROVE Alive'
    BY <2>1 DEF Job, SetupFails, SetupSucceeds, Completes, Aborts, Panics, Deregister,
                Finish, JobReturns, Phases, Live
  <2>2. ASSUME NEW c \in Calls, Call(c) PROVE Alive'
    BY <2>2 DEF Call, Attach, Refuse, Start, SubscribeActive, runVars, Phases, Live
  <2>3. ASSUME NEW c \in Calls, Stream(c) \/ Cancel(c) PROVE Alive'
    BY <2>3 DEF Stream, Deliver, EndOfStream, Detach, Cancel, runVars
  <2> QED
    BY <2>1, <2>2, <2>3 DEF Next, vars, runVars
<1>3. Inv /\ Alive => TypeOK
  BY DEF Inv, ExecutorTypes, TypeOK
<1> QED
  BY Invariant, <1>1, <1>2, <1>3, PTL DEF Spec

LEMMA LiveAlone == Inv => OneRunPerTarget
<1> SUFFICES ASSUME Inv, NEW r \in RunIds, NEW q \in RunIds,
                    phase[r] \in Live, phase[q] \in Live,
                    run[r].key[2] = run[q].key[2]
             PROVE  r = q
  BY DEF OneRunPerTarget
<1>1. /\ run[r].key \in Keys /\ runs[run[r].key] = r
      /\ run[q].key \in Keys /\ runs[run[q].key] = q
  BY DEF Inv, LiveIsRegistered
<1>2. run[r].key = run[q].key
  BY <1>1, ExecutorAssumption DEF Inv, OneKeyPerTarget
<1> QED
  BY <1>1, <1>2

\* The conflict rule of startOrAttachWithCancellation holds for every number of
\* operations, targets, calls and runs: no two unreturned jobs share a target.
THEOREM MutualExclusion == Spec => []OneRunPerTarget
BY Invariant, LiveAlone, PTL

\* What RefusedOnlyForLiveRun asks of a step.
Justified ==
  \A c \in Calls :
    pc[c] # "refused" /\ pc'[c] = "refused" =>
      \E r \in RunIds : phase[r] \in Live /\ run[r].key[2] = asked'[c].key[2]

LEMMA RefusalStep == Inv /\ [Next]_vars => [Justified]_vars
<1> SUFFICES ASSUME Inv, Next, NEW c \in Calls, pc[c] # "refused", pc'[c] = "refused"
             PROVE  \E r \in RunIds : phase[r] \in Live /\ run[r].key[2] = asked'[c].key[2]
  BY DEF Justified
<1>1. PICK req \in Requests : Refuse(c, req)
  <2>1. ASSUME NEW r \in RunIds, Job(r) PROVE FALSE
    BY <2>1 DEF Job, SetupFails, SetupSucceeds, Completes, Aborts, Panics,
                Deregister, Finish, callVars
  <2>2. ASSUME NEW d \in Calls, Stream(d) \/ Cancel(d) PROVE FALSE
    BY <2>2 DEF Stream, Deliver, EndOfStream, Detach, Cancel, Inv, ExecutorTypes
  <2>3. PICK d \in Calls : Call(d)
    BY <2>1, <2>2 DEF Next
  <2>4. ASSUME NEW K \in Filters, SubscribeActive(d, K) PROVE FALSE
    BY <2>4 DEF SubscribeActive, Inv, ExecutorTypes
  <2>5. PICK req \in Requests :
          Attach(d, req) \/ Refuse(d, req) \/ \E r \in RunIds : Start(d, req, r)
    BY <2>3, <2>4 DEF Call
  <2>6. Refuse(d, req) /\ d = c
    BY <2>5 DEF Attach, Refuse, Start, Inv, ExecutorTypes
  <2> QED
    BY <2>6
<1>2. req.key \in Keys /\ asked'[c].key = req.key
  BY <1>1 DEF Refuse, Ask, Requests, Inv, ExecutorTypes
<1>3. TargetTaken(req.key)
  BY <1>1, <1>2 DEF Refuse, TargetTaken
<1>4. PICK j \in Keys : j[2] = req.key[2] /\ runs[j] # NoRun
  BY <1>3 DEF TargetTaken
<1>5. runs[j] \in RunIds /\ phase[runs[j]] \in Live /\ run[runs[j]].key = j
  BY <1>4 DEF Inv, ExecutorTypes, RegisteredIsLive
<1> QED
  BY <1>2, <1>4, <1>5

\* A refusal always has a run in progress on the same target to blame, so a target
\* whose job panicked, failed to set up or finished is never left locked.
THEOREM RefusalsAreJustified == Spec => RefusedOnlyForLiveRun
BY Invariant, RefusalStep, PTL DEF Spec, RefusedOnlyForLiveRun, Justified

-----------------------------------------------------------------------------
(* The executor implements TargetLease.                                        *)

Held == [t \in Targets |-> {runs[<<op, t>>] : op \in Operations} \ {NoRun}]
Busy == {r \in RunIds : phase[r] = "working"}

\* What is held of a target is what is registered under the keys of that target.
LEMMA HeldMembers ==
  ASSUME NEW t \in Targets
  PROVE  /\ \A x : x \in Held[t] <=> x # NoRun /\ \E k \in Keys : k[2] = t /\ runs[k] = x
         /\ \A x : x \in Held'[t] <=> x # NoRun /\ \E k \in Keys : k[2] = t /\ runs'[k] = x
<1>1. \A k \in Keys : k = <<k[1], k[2]>> /\ k[1] \in Operations
  BY DEF Keys
<1>2. \A op \in Operations : <<op, t>> \in Keys /\ <<op, t>>[2] = t
  BY DEF Keys
<1>3. /\ Held[t] = {runs[<<op, t>>] : op \in Operations} \ {NoRun}
      /\ Held'[t] = {runs'[<<op, t>>] : op \in Operations} \ {NoRun}
  BY DEF Held
<1> QED
  BY <1>1, <1>2, <1>3

\* A step that registers nothing new under the keys of a target leaves its holder.
LEMMA HeldElsewhere ==
  ASSUME NEW t \in Targets, \A k \in Keys : k[2] = t => runs'[k] = runs[k]
  PROVE  Held'[t] = Held[t]
<1>1. \A x : x \in Held'[t] <=> x \in Held[t]
  BY HeldMembers
<1> QED
  BY <1>1, SetExtensionality

LEMMA SameHeld ==
  ASSUME runs' = runs
  PROVE  Held' = Held
BY DEF Held

\* The lease's holder is the one registered run of the target.
LEMMA HolderIsRegistered ==
  ASSUME Inv, NEW r \in RunIds, phase[r] \in Live
  PROVE  /\ run[r].key \in Keys
         /\ run[r].key[2] \in Targets
         /\ Held[run[r].key[2]] = {r}
<1>1. run[r].key \in Keys /\ runs[run[r].key] = r
  BY DEF Inv, LiveIsRegistered
<1>2. run[r].key[2] \in Targets
  BY <1>1 DEF Keys
<1>3. \A k \in Keys : k[2] = run[r].key[2] /\ runs[k] # NoRun => runs[k] = r
  BY <1>1, ExecutorAssumption DEF Inv, OneKeyPerTarget
<1>4. Held[run[r].key[2]] = {r}
  BY <1>1, <1>2, <1>3, ExecutorAssumption, HeldMembers
<1> QED
  BY <1>1, <1>2, <1>4

LEMMA StartAcquires ==
  ASSUME Inv, NEW c \in Calls, NEW req \in Requests, NEW r \in RunIds, Start(c, req, r)
  PROVE  Lease!Acquire(req.key[2], r) /\ req.key[2] \in Targets
<1> DEFINE t == req.key[2]
<1> USE ExecutorAssumption
<1>1. req.key \in Keys /\ t \in Targets
  BY DEF Requests, Keys
<1>2. /\ runs' = [runs EXCEPT ![req.key] = r]
      /\ phase' = [phase EXCEPT ![r] = "started"]
      /\ phase[r] = "unused"
      /\ \A k \in Keys : k[2] = t => runs[k] = NoRun
  BY DEF Start, TargetTaken
<1>3. Held[t] = {}
  BY <1>1, <1>2, HeldMembers
<1>4. \A u \in Targets : r \notin Held[u]
  BY <1>2, HeldMembers DEF Inv, RegisteredIsLive, Live
<1>5. Held' = [Held EXCEPT ![t] = {r}]
  <2>1. ASSUME NEW u \in Targets, u # t PROVE Held'[u] = Held[u]
    BY <1>1, <1>2, <2>1, HeldElsewhere DEF Inv, ExecutorTypes
  <2>2. Held'[t] = {r}
    <3>1. /\ runs'[req.key] = r /\ r # NoRun
          /\ \A k \in Keys : k[2] = t => runs'[k] = r \/ runs'[k] = NoRun
      BY <1>1, <1>2 DEF Inv, ExecutorTypes
    <3>2. \A x : x \in Held'[t] <=> x \in {r}
      BY <1>1, <3>1, HeldMembers
    <3> QED
      BY <3>2, SetExtensionality
  <2> QED
    BY <1>1, <2>1, <2>2 DEF Held
<1>6. Busy' = Busy
  BY <1>2 DEF Busy, Inv, ExecutorTypes
<1> QED
  BY <1>1, <1>3, <1>4, <1>5, <1>6 DEF Lease!Acquire, Held, Busy

LEMMA DeregisterReleases ==
  ASSUME Inv, NEW r \in RunIds, Deregister(r)
  PROVE  Lease!Release(run[r].key[2], r) /\ run[r].key[2] \in Targets
<1> DEFINE k == run[r].key
<1> USE ExecutorAssumption
<1>1. /\ phase[r] = "returned" /\ phase[r] \in Live
      /\ phase' = [phase EXCEPT ![r] = "removed"]
      /\ runs' = [runs EXCEPT ![k] = NoRun]
  BY DEF Deregister, Live
<1>2. k \in Keys /\ k[2] \in Targets /\ Held[k[2]] = {r}
  BY <1>1, HolderIsRegistered
<1>3. \A j \in Keys : j # k /\ j[2] = k[2] => runs[j] = NoRun
  BY <1>1, <1>2 DEF Inv, OneKeyPerTarget, LiveIsRegistered
<1>4. Held' = [Held EXCEPT ![k[2]] = {}]
  <2>1. ASSUME NEW u \in Targets, u # k[2] PROVE Held'[u] = Held[u]
    BY <1>1, <1>2, <2>1, HeldElsewhere DEF Inv, ExecutorTypes
  <2>2. Held'[k[2]] = {}
    <3>1. \A j \in Keys : j[2] = k[2] => runs'[j] = NoRun
      BY <1>1, <1>2, <1>3 DEF Inv, ExecutorTypes
    <3>2. \A x : x \notin Held'[k[2]]
      BY <1>2, <3>1, HeldMembers
    <3> QED
      BY <3>2, SetExtensionality
  <2> QED
    BY <1>2, <2>1, <2>2 DEF Held
<1>5. Busy' = Busy /\ r \notin Busy
  BY <1>1 DEF Busy, Inv, ExecutorTypes
<1> QED
  BY <1>2, <1>4, <1>5 DEF Lease!Release, Held, Busy

LEMMA JobLeases ==
  ASSUME Inv, NEW r \in RunIds, Job(r)
  PROVE  [Lease!Next]_Lease!leaseVars
<1> USE DEF Inv
<1>1. ASSUME phase[r] # "working", phase[r] # "returned", runs' = runs,
             phase' = [phase EXCEPT ![r] = "returned"] \/ phase' = [phase EXCEPT ![r] = "finished"]
      PROVE  UNCHANGED Lease!leaseVars
  <2>1. Busy' = Busy
    BY <1>1 DEF Busy, ExecutorTypes
  <2> QED
    BY <1>1, <2>1, SameHeld DEF Lease!leaseVars, Held, Busy
<1>2. ASSUME phase[r] = "working", runs' = runs, phase' = [phase EXCEPT ![r] = "returned"]
      PROVE  Lease!Rest(r)
  <2>1. Busy' = Busy \ {r} /\ r \in Busy
    BY <1>2 DEF Busy, ExecutorTypes
  <2> QED
    BY <1>2, <2>1, SameHeld DEF Lease!Rest, Held, Busy
<1>3. CASE SetupFails(r)
  BY <1>1, <1>3 DEF SetupFails, JobReturns
<1>4. CASE SetupSucceeds(r)
  <2>1. phase[r] \in Live
    BY <1>4 DEF SetupSucceeds, Live
  <2>2. Busy' = Busy \union {r} /\ r \notin Busy
    BY <1>4 DEF SetupSucceeds, Busy, ExecutorTypes
  <2>3. Held' = Held
    BY <1>4, SameHeld DEF SetupSucceeds
  <2>4. Lease!Work(run[r].key[2], r) /\ run[r].key[2] \in Targets
    BY <2>1, <2>2, <2>3, HolderIsRegistered DEF Lease!Work, Held, Busy
  <2> QED
    BY <2>4 DEF Lease!Next
<1>5. ASSUME NEW outcome \in Outcomes, Completes(r, outcome)
      PROVE  [Lease!Next]_Lease!leaseVars
  BY <1>2, <1>5 DEF Completes, JobReturns, Lease!Next
<1>6. CASE Aborts(r)
  BY <1>2, <1>6 DEF Aborts, JobReturns, Lease!Next
<1>7. CASE Panics(r)
  <2>1. CASE phase[r] = "working"
    BY <1>2, <1>7, <2>1 DEF Panics, JobReturns, Lease!Next
  <2>2. CASE phase[r] = "started"
    BY <1>1, <1>7, <2>2 DEF Panics, JobReturns
  <2> QED
    BY <1>7, <2>1, <2>2 DEF Panics
<1>8. CASE Deregister(r)
  <2>1. Lease!Release(run[r].key[2], r) /\ run[r].key[2] \in Targets
    BY <1>8, DeregisterReleases
  <2> QED
    BY <2>1 DEF Lease!Next, Lease!Release
<1>9. CASE Finish(r)
  BY <1>1, <1>9 DEF Finish
<1> QED
  BY <1>3, <1>4, <1>5, <1>6, <1>7, <1>8, <1>9 DEF Job

LEMMA LeaseInit == Init => Lease!Init
<1> SUFFICES ASSUME Init PROVE Lease!Init
  OBVIOUS
<1>1. ASSUME NEW t \in Targets PROVE Held[t] = {}
  <2>1. \A x : x \notin Held[t]
    BY HeldMembers DEF Init
  <2> QED
    BY <2>1, SetExtensionality
<1>2. Held = [t \in Targets |-> {}]
  BY <1>1 DEF Held
<1>3. Busy = {}
  BY DEF Init, Busy
<1> QED
  BY <1>2, <1>3 DEF Lease!Init, Held, Busy

LEMMA LeaseStep == Inv /\ [Next]_vars => [Lease!Next]_Lease!leaseVars
<1> SUFFICES ASSUME Inv, [Next]_vars PROVE [Lease!Next]_Lease!leaseVars
  OBVIOUS
<1>1. ASSUME UNCHANGED runVars PROVE UNCHANGED Lease!leaseVars
  BY <1>1, SameHeld DEF runVars, Lease!leaseVars, Held
<1>2. ASSUME NEW c \in Calls, Call(c) PROVE [Lease!Next]_Lease!leaseVars
  <2>1. ASSUME NEW req \in Requests, NEW r \in RunIds, Start(c, req, r)
        PROVE  [Lease!Next]_Lease!leaseVars
    BY <2>1, StartAcquires DEF Lease!Next
  <2>2. (\E req \in Requests, r \in RunIds : Start(c, req, r)) \/ UNCHANGED runVars
    BY <1>2 DEF Call, Attach, Refuse, SubscribeActive
  <2> QED
    BY <1>1, <2>1, <2>2
<1>3. ASSUME NEW c \in Calls, Stream(c) \/ Cancel(c) PROVE UNCHANGED runVars
  BY <1>3 DEF Stream, Deliver, EndOfStream, Detach, Cancel
<1> QED
  BY <1>1, <1>2, <1>3, JobLeases DEF Next, vars

\* Every behaviour of the executor is a behaviour of the lease: a run works only
\* while it holds its target, and lets go of it only after it has stopped.
THEOREM Refinement == Spec => ImplementsLease
BY Invariant, LeaseInit, LeaseStep, PTL DEF Spec, ImplementsLease, Lease!Spec

-----------------------------------------------------------------------------
(* What a call that has streamed a run to its end knows of it.                 *)

Unreturned == {"unused", "started", "working"}

\* A job that has not returned has no outcome.
NoEarlyOutcome == \A r \in RunIds : phase[r] \in Unreturned => result[r] = "none"

\* A call has been sent a prefix of each run's events and remembers a failure.
FailuresAreNoted ==
  \A c \in Calls, r \in RunIds :
    /\ seen[c][r] <= Len(log[r])
    /\ \A i \in 1..seen[c][r] : log[r][i] = "failed" => failure[c]

\* stream returns only when the run is done and its events are drained.
EndedHeardAll ==
  \A c \in Calls : pc[c] = "ended" =>
    \A r \in on[c] : phase[r] = "finished" /\ seen[c][r] = Len(log[r])

\* context.WithoutCancel: only a cancelable job is aborted.
AbortedIsCancelable == \A r \in RunIds : result[r] = "aborted" => run[r].cancelable

\* A request starts or joins a run of the cancellation it asked for, once.
AskedForIt ==
  /\ \A c \in Calls : pc[c] = "idle" => on[c] = {}
  /\ \A c \in Calls \ Watchers : \A r \in on[c] :
       phase[r] # "unused" /\ (run[r].cancelable <=> asked[c].cancelable)

StreamInvariant ==
  NoEarlyOutcome /\ FailuresAreNoted /\ EndedHeardAll /\ AbortedIsCancelable /\ AskedForIt

LEMMA InitStreamInvariant == Init => StreamInvariant
BY DEF Init, StreamInvariant, NoEarlyOutcome, FailuresAreNoted, EndedHeardAll,
       AbortedIsCancelable, AskedForIt

\* A job emits nothing after it has returned, so a job's step disturbs no call that
\* has ended.
LEMMA JobStreams ==
  ASSUME Inv, StreamInvariant, NEW r \in RunIds, Job(r)
  PROVE  StreamInvariant'
<1> DEFINE Logs(how) == /\ phase[r] = "working"
                        /\ log' = [log EXCEPT ![r] = Append(@, how)]
<1> USE DEF Inv, StreamInvariant
<1>1. UNCHANGED callVars /\ run' = run
  BY DEF Job, SetupFails, SetupSucceeds, Completes, Aborts, Panics, Deregister, Finish
<1>2. log' = log \/ \E how \in Outcomes : Logs(how)
  BY DEF Job, SetupFails, SetupSucceeds, Completes, Aborts, Panics, Deregister, Finish,
         Emits, Outcomes
<1>3. \A q \in RunIds : phase[q] = "finished" => phase'[q] = "finished" /\ log'[q] = log[q]
  <2>1. \A q \in RunIds : phase[q] = "finished" => phase'[q] = "finished"
    BY DEF Job, SetupFails, SetupSucceeds, Completes, Aborts, Panics, Deregister, Finish,
           JobReturns, ExecutorTypes
  <2> QED
    BY <1>2, <2>1 DEF ExecutorTypes
<1>4. \A q \in RunIds : /\ Len(log[q]) \in Nat /\ Len(log'[q]) \in Nat
                        /\ Len(log[q]) <= Len(log'[q])
                        /\ \A i \in 1..Len(log[q]) : log'[q][i] = log[q][i]
  <2> SUFFICES ASSUME NEW q \in RunIds
               PROVE  /\ Len(log[q]) \in Nat /\ Len(log'[q]) \in Nat
                      /\ Len(log[q]) <= Len(log'[q])
                      /\ \A i \in 1..Len(log[q]) : log'[q][i] = log[q][i]
    OBVIOUS
  <2>1. log[q] \in Seq(Outcomes)
    BY DEF ExecutorTypes
  <2>2. CASE log' = log
    BY <2>1, <2>2
  <2>3. ASSUME NEW how \in Outcomes, Logs(how)
        PROVE  log'[q] = log[q] \/ log'[q] = Append(log[q], how)
    BY <2>3 DEF ExecutorTypes
  <2>4. PICK how \in Outcomes :
          log'[q] = log[q] \/ log'[q] = Append(log[q], how)
    BY <1>2, <2>2, <2>3 DEF Outcomes
  <2>5. CASE log'[q] = log[q]
    BY <2>1, <2>5
  <2>6. CASE log'[q] = Append(log[q], how)
    BY <2>1, <2>6
  <2> QED
    BY <2>4, <2>5, <2>6
<1>5. EndedHeardAll'
  BY <1>1, <1>3 DEF EndedHeardAll, callVars, ExecutorTypes
<1>6. FailuresAreNoted'
  <2> SUFFICES ASSUME NEW c \in Calls, NEW q \in RunIds
               PROVE  /\ seen[c][q] <= Len(log'[q])
                      /\ \A i \in 1..seen[c][q] : log'[q][i] = "failed" => failure[c]
    BY <1>1 DEF FailuresAreNoted, callVars
  <2>1. seen[c][q] \in Nat /\ seen[c][q] <= Len(log[q])
    BY DEF FailuresAreNoted, ExecutorTypes
  <2>2. \A i \in 1..seen[c][q] : log'[q][i] = log[q][i]
    BY <1>4, <2>1
  <2> QED
    BY <1>4, <2>1, <2>2 DEF FailuresAreNoted
<1>7. AskedForIt'
  <2>1. \A q \in RunIds : phase[q] # "unused" => phase'[q] # "unused"
    BY DEF Job, SetupFails, SetupSucceeds, Completes, Aborts, Panics, Deregister, Finish,
           JobReturns, ExecutorTypes
  <2> QED
    BY <1>1, <2>1 DEF AskedForIt, callVars, ExecutorTypes
<1>8. NoEarlyOutcome' /\ AbortedIsCancelable'
  <2> USE <1>1 DEF NoEarlyOutcome, AbortedIsCancelable, callVars, Unreturned, ExecutorTypes
  <2>1. CASE SetupFails(r)
    BY <2>1 DEF SetupFails, JobReturns
  <2>2. CASE SetupSucceeds(r)
    BY <2>2 DEF SetupSucceeds
  <2>3. ASSUME NEW outcome \in Outcomes, Completes(r, outcome)
        PROVE  NoEarlyOutcome' /\ AbortedIsCancelable'
    BY <2>3 DEF Completes, JobReturns, Outcomes
  <2>4. CASE Aborts(r)
    BY <2>4 DEF Aborts, JobReturns, JobCancelled
  <2>5. CASE Panics(r)
    BY <2>5 DEF Panics, JobReturns
  <2>6. CASE Deregister(r) \/ Finish(r)
    BY <2>6 DEF Deregister, Finish
  <2> QED
    BY <2>1, <2>2, <2>3, <2>4, <2>5, <2>6 DEF Job
<1> QED
  BY <1>5, <1>6, <1>7, <1>8

LEMMA CallStreams ==
  ASSUME Inv, StreamInvariant, NEW c \in Calls, Call(c)
  PROVE  StreamInvariant'
<1> USE DEF Inv, StreamInvariant
<1>1. /\ UNCHANGED <<result, log, seen, failure, ctx>>
      /\ \A q \in RunIds : phase'[q] = phase[q] \/ (phase[q] = "unused" /\ phase'[q] = "started")
      /\ \A q \in RunIds : run'[q] = run[q] \/ phase[q] = "unused"
  BY DEF Call, Attach, Refuse, Start, SubscribeActive, runVars, ExecutorTypes
<1>2. NoEarlyOutcome' /\ FailuresAreNoted'
  BY <1>1 DEF NoEarlyOutcome, FailuresAreNoted, Unreturned
<1>3. AbortedIsCancelable'
  BY <1>1 DEF AbortedIsCancelable, NoEarlyOutcome, Unreturned
<1>4. \A d \in Calls : pc'[d] = "ended" => (pc[d] = "ended" /\ on'[d] = on[d]) \/ on'[d] = {}
  BY DEF Call, Attach, Refuse, Start, SubscribeActive, Ask, ExecutorTypes
<1>5. EndedHeardAll'
  BY <1>1, <1>4 DEF EndedHeardAll, ExecutorTypes
<1>6. AskedForIt'
  <2>1. ASSUME NEW req \in Requests, Attach(c, req) PROVE AskedForIt'
    <3>1. /\ runs[req.key] \in RunIds /\ phase[runs[req.key]] # "unused"
          /\ run[runs[req.key]].cancelable = req.cancelable
      BY <2>1, ExecutorAssumption DEF Attach, Requests, RegisteredIsLive, Live, ExecutorTypes
    <3> QED
      BY <2>1, <3>1 DEF Attach, Ask, AskedForIt, runVars, ExecutorTypes
  <2>2. ASSUME NEW req \in Requests, Refuse(c, req) PROVE AskedForIt'
    BY <2>2 DEF Refuse, Ask, AskedForIt, runVars, ExecutorTypes
  <2>3. ASSUME NEW req \in Requests, NEW r \in RunIds, Start(c, req, r) PROVE AskedForIt'
    <3>1. /\ run'[r].cancelable = req.cancelable /\ phase'[r] = "started"
          /\ on' = [on EXCEPT ![c] = {r}] /\ asked' = [asked EXCEPT ![c] = req]
          /\ pc' = [pc EXCEPT ![c] = "streaming"]
      BY <2>3 DEF Start, Ask, ExecutorTypes
    <3>2. \A d \in Calls \ {c} : on'[d] = on[d] /\ asked'[d] = asked[d] /\ pc'[d] = pc[d]
      BY <3>1 DEF ExecutorTypes
    <3>3. on'[c] = {r} /\ asked'[c] = req /\ pc'[c] = "streaming"
      BY <3>1 DEF ExecutorTypes
    <3>4. ASSUME NEW q \in RunIds, phase[q] # "unused" PROVE run'[q] = run[q] /\ phase'[q] # "unused"
      BY <1>1, <3>4
    <3>5. ASSUME NEW d \in Calls PROVE pc'[d] = "idle" => on'[d] = {}
      BY <3>2, <3>3 DEF AskedForIt
    <3>6. ASSUME NEW d \in Calls \ Watchers, NEW q \in on'[d]
          PROVE  phase'[q] # "unused" /\ (run'[q].cancelable <=> asked'[d].cancelable)
      <4>1. CASE d = c
        BY <3>1, <3>3, <4>1
      <4>2. CASE d # c
        <5>1. q \in on[d] /\ q \in RunIds /\ asked'[d] = asked[d]
          BY <3>2, <4>2 DEF ExecutorTypes
        <5> QED
          BY <3>4, <5>1 DEF AskedForIt
      <4> QED
        BY <4>1, <4>2
    <3> QED
      BY <3>5, <3>6 DEF AskedForIt
  <2>4. ASSUME NEW K \in Filters, SubscribeActive(c, K) PROVE AskedForIt'
    BY <2>4 DEF SubscribeActive, AskedForIt, runVars, ExecutorTypes
  <2> QED
    BY <2>1, <2>2, <2>3, <2>4 DEF Call
<1> QED
  BY <1>2, <1>3, <1>5, <1>6

LEMMA DeliveryStreams ==
  ASSUME Inv, StreamInvariant, NEW c \in Calls, Stream(c) \/ Cancel(c)
  PROVE  StreamInvariant'
<1> USE DEF Inv, StreamInvariant
<1>1. UNCHANGED runVars
  BY DEF Stream, Deliver, EndOfStream, Detach, Cancel
<1>2. asked' = asked /\ \A d \in Calls :
        on'[d] \in {on[d], {}} /\ (pc'[d] = "idle" => pc[d] = "idle")
  BY DEF Stream, Deliver, EndOfStream, Detach, Cancel, ExecutorTypes
<1>3. NoEarlyOutcome' /\ AbortedIsCancelable' /\ AskedForIt'
  <2>1. NoEarlyOutcome' /\ AbortedIsCancelable'
    BY <1>1 DEF NoEarlyOutcome, AbortedIsCancelable, runVars
  <2>2. AskedForIt'
    BY <1>1, <1>2 DEF AskedForIt, runVars
  <2> QED
    BY <2>1, <2>2
<1>4. ASSUME NEW r \in RunIds, Deliver(c, r) PROVE FailuresAreNoted' /\ EndedHeardAll'
  <2>1. /\ seen[c][r] \in Nat /\ seen'[c][r] = seen[c][r] + 1
        /\ seen[c][r] < Len(log[r])
        /\ \A d \in Calls, q \in RunIds : d # c \/ q # r => seen'[d][q] = seen[d][q]
        /\ \A d \in Calls : failure[d] => failure'[d]
        /\ log[r][seen[c][r] + 1] = "failed" => failure'[c]
        /\ pc[c] = "streaming" /\ pc' = pc /\ on' = on
    BY <1>4 DEF Deliver, ExecutorTypes
  <2>2. FailuresAreNoted'
    <3> SUFFICES ASSUME NEW d \in Calls, NEW q \in RunIds
                 PROVE  /\ seen'[d][q] <= Len(log[q])
                        /\ \A i \in 1..seen'[d][q] : log[q][i] = "failed" => failure'[d]
      BY <1>1 DEF FailuresAreNoted, runVars
    <3>1. /\ seen[d][q] \in Nat /\ Len(log[q]) \in Nat /\ seen[d][q] <= Len(log[q])
          /\ \A i \in 1..seen[d][q] : log[q][i] = "failed" => failure[d]
      BY DEF FailuresAreNoted, ExecutorTypes
    <3>2. CASE d = c /\ q = r
      BY <2>1, <3>1, <3>2
    <3>3. CASE d # c \/ q # r
      BY <2>1, <3>1, <3>3
    <3> QED
      BY <3>2, <3>3
  <2>3. EndedHeardAll'
    BY <1>1, <2>1 DEF EndedHeardAll, runVars, ExecutorTypes
  <2> QED
    BY <2>2, <2>3
<1>5. CASE EndOfStream(c) \/ Cancel(c)
  <2>1. UNCHANGED <<seen, failure, on>>
    BY <1>5 DEF EndOfStream, Cancel
  <2>2. EndedHeardAll'
    BY <1>1, <1>5, <2>1 DEF EndedHeardAll, EndOfStream, Cancel, runVars, ExecutorTypes
  <2> QED
    BY <1>1, <1>3, <2>1, <2>2 DEF FailuresAreNoted, runVars
<1>6. CASE Detach(c)
  <2>1. /\ UNCHANGED failure
        /\ seen' = [seen EXCEPT ![c] = [r \in RunIds |-> 0]]
        /\ on' = [on EXCEPT ![c] = {}]
        /\ pc' = [pc EXCEPT ![c] = "detached"]
    BY <1>6 DEF Detach
  <2>2. FailuresAreNoted'
    BY <1>1, <2>1 DEF FailuresAreNoted, runVars, ExecutorTypes
  <2>3. EndedHeardAll'
    BY <1>1, <2>1 DEF EndedHeardAll, runVars, ExecutorTypes
  <2> QED
    BY <1>3, <2>2, <2>3
<1> QED
  BY <1>3, <1>4, <1>5, <1>6 DEF Stream

LEMMA StreamStep == Inv /\ StreamInvariant /\ [Next]_vars => StreamInvariant'
<1> SUFFICES ASSUME Inv, StreamInvariant, [Next]_vars PROVE StreamInvariant'
  OBVIOUS
<1>1. ASSUME UNCHANGED vars PROVE StreamInvariant'
  BY <1>1 DEF StreamInvariant, NoEarlyOutcome, FailuresAreNoted, EndedHeardAll,
              AbortedIsCancelable, AskedForIt, vars, runVars, callVars
<1>2. ASSUME NEW r \in RunIds, Job(r) PROVE StreamInvariant'
  BY <1>2, JobStreams
<1>3. ASSUME NEW c \in Calls, Call(c) PROVE StreamInvariant'
  BY <1>3, CallStreams
<1>4. ASSUME NEW c \in Calls, Stream(c) \/ Cancel(c) PROVE StreamInvariant'
  BY <1>4, DeliveryStreams
<1> QED
  BY <1>1, <1>2, <1>3, <1>4 DEF Next

\* What streams, failures and aborts rest on holds in every state of the executor.
THEOREM StreamsInvariant == Spec => []StreamInvariant
BY Invariant, InitStreamInvariant, StreamStep, PTL DEF Spec

LEMMA EndedIsUnregistered == Inv /\ StreamInvariant => NoStaleState
BY DEF Inv, RegisteredIsLive, StreamInvariant, EndedHeardAll, NoStaleState, Registered, Live

LEMMA EndedHasTheFailure == Inv /\ StreamInvariant => FailureReachesCalls
<1> SUFFICES ASSUME Inv, StreamInvariant, NEW c \in Calls, NEW r \in on[c],
                    pc[c] = "ended", NEW i \in 1..Len(log[r]), log[r][i] = "failed"
             PROVE  failure[c]
  BY DEF FailureReachesCalls
<1>1. r \in RunIds /\ seen[c][r] = Len(log[r])
  BY DEF Inv, ExecutorTypes, StreamInvariant, EndedHeardAll
<1> QED
  BY <1>1 DEF StreamInvariant, FailuresAreNoted

LEMMA UncancelledIsKept == Inv /\ StreamInvariant => OthersCannotAbort
<1> SUFFICES ASSUME Inv, StreamInvariant, NEW c \in Calls \ Watchers, NEW r \in on[c],
                    result[r] = "aborted"
             PROVE  asked[c].cancelable
  BY DEF OthersCannotAbort
<1>1. r \in RunIds
  BY DEF Inv, ExecutorTypes
<1>2. run[r].cancelable
  BY <1>1 DEF StreamInvariant, AbortedIsCancelable
<1>3. run[r].cancelable <=> asked[c].cancelable
  BY DEF StreamInvariant, AskedForIt
<1> QED
  BY <1>2, <1>3

\* runJob removes a run before it releases its subscribers, so a caller whose
\* stream has ended never finds the run it waited for still registered.
THEOREM NoStaleRegistry == Spec => []NoStaleState
BY Invariant, StreamsInvariant, EndedIsUnregistered, PTL

\* A bundle swap outlives its callers: a request that is not cancelable is left with no run
\* that another caller's going away aborted, whoever started the run and whoever joined it.
THEOREM NobodyElseAborts == Spec => []OthersCannotAbort
BY Invariant, StreamsInvariant, UncancelledIsKept, PTL

\* Late or early, a call that streamed a run to its end reports the run's failure.
THEOREM FailuresAreReported == Spec => []FailureReachesCalls
BY Invariant, StreamsInvariant, EndedHasTheFailure, PTL

-----------------------------------------------------------------------------
(* The daemon process around the executor, which may exit or be killed at any  *)
(* time: a state of it is described by what a call can tell of its runs.       *)

Types ==
  /\ daemon \in {"serving", "draining", "down"}
  /\ exits \in 0..MaxExits
  /\ cli \in [Calls -> CLIStates]
  /\ killed \in BOOLEAN
  /\ runs \in [Keys -> RunIds \union {NoRun}]
  /\ phase \in [RunIds -> Phases \union {"killed"}]
  /\ pc \in [Calls -> {"idle", "streaming", "refused", "detached", "ended"}]
  /\ on \in [Calls -> SUBSET RunIds]

\* A process that drains has an exit ahead of it; with the process its streams and its
\* registry are gone.
Ends ==
  /\ daemon = "draining" => exits < MaxExits
  /\ daemon = "down" => Streaming = {} /\ Registered = {}

\* A call that has not opened its stream has none.
NotYet ==
  /\ \A c \in Calls : cli[c] \in {"new", "probed"} => pc[c] = "idle"
  /\ \A c \in Calls : pc[c] = "idle" => on[c] = {}

DaemonInv == Types /\ Ends /\ NotYet /\ OrderlyStopCutsNoStream

-----------------------------------------------------------------------------
LEMMA DaemonInitInv == DaemonInit => DaemonInv
<1> SUFFICES ASSUME DaemonInit PROVE DaemonInv
  OBVIOUS
<1>1. Types
  <2>1. exits \in 0..MaxExits
    BY DaemonAssumption DEF DaemonInit
  <2>2. runs \in [Keys -> RunIds \union {NoRun}]
    BY DEF DaemonInit, Init
  <2>3. phase \in [RunIds -> Phases \union {"killed"}] /\ on \in [Calls -> SUBSET RunIds]
    BY DEF DaemonInit, Init, Phases
  <2>4. cli \in [Calls -> CLIStates]
    BY DEF DaemonInit, CLIStates
  <2>5. pc \in [Calls -> {"idle", "streaming", "refused", "detached", "ended"}]
    BY DEF DaemonInit, Init
  <2> QED
    BY <2>1, <2>2, <2>3, <2>4, <2>5 DEF DaemonInit, Types
<1>2. Ends /\ NotYet
  BY DEF DaemonInit, Init, Ends, NotYet
<1>3. OrderlyStopCutsNoStream
  BY DEF DaemonInit, Init, OrderlyStopCutsNoStream
<1> QED
  BY <1>1, <1>2, <1>3 DEF DaemonInv

\* What a job may do to what a call sees: it moves on, and leaves the registry.
LEMMA JobFacts ==
  ASSUME Types, NEW r \in RunIds, Job(r)
  PROVE  /\ runs' \in [Keys -> RunIds \union {NoRun}]
         /\ phase' \in [RunIds -> Phases \union {"killed"}]
         /\ \A k \in Keys : runs'[k] \in {runs[k], NoRun}
         /\ UNCHANGED <<pc, on>>
<1>1. CASE \/ SetupFails(r) \/ SetupSucceeds(r) \/ Aborts(r) \/ Panics(r)
           \/ \E o \in Outcomes : Completes(r, o)
  <2>1. runs' = runs /\ UNCHANGED <<pc, on>>
    BY <1>1 DEF SetupFails, SetupSucceeds, Completes, Aborts, Panics, callVars
  <2>2. phase[r] \in {"started", "working"} /\ \E p \in Phases : phase' = [phase EXCEPT ![r] = p]
    BY <1>1 DEF SetupFails, SetupSucceeds, Completes, Aborts, Panics, JobReturns, Phases, Live
  <2> QED
    BY <2>1, <2>2 DEF Types
<1>2. CASE Deregister(r) \/ Finish(r)
  <2>1. UNCHANGED <<pc, on>> /\ runs' \in {runs, [runs EXCEPT ![run[r].key] = NoRun]}
    BY <1>2 DEF Deregister, Finish, callVars
  <2>2. \E p \in Phases : phase' = [phase EXCEPT ![r] = p]
    BY <1>2 DEF Deregister, Finish, Phases, Live
  <2> QED
    BY <2>1, <2>2 DEF Types
<1> QED
  BY <1>1, <1>2 DEF Job

LEMMA JobPart ==
  ASSUME DaemonInv, NEW r \in RunIds, JobSteps(r)
  PROVE  DaemonInv'
<1>1. Job(r) /\ UNCHANGED <<daemon, exits, cli, killed>>
  BY DEF JobSteps, daemonVars
<1>2. Types'
  BY <1>1, JobFacts DEF DaemonInv, Types
<1>3. Ends'
  BY <1>1, JobFacts DEF DaemonInv, Ends, Streaming, Registered
<1>4. NotYet' /\ OrderlyStopCutsNoStream'
  BY <1>1, JobFacts DEF DaemonInv, NotYet, OrderlyStopCutsNoStream
<1> QED
  BY <1>2, <1>3, <1>4 DEF DaemonInv

\* What a stream may do to what its caller sees.
LEMMA CallPart ==
  ASSUME DaemonInv, NEW c \in Calls, CallSteps(c)
  PROVE  DaemonInv'
<1>1. UNCHANGED <<daemon, exits, cli, killed, runs, phase>>
  BY DEF CallSteps, daemonVars, Stream, Deliver, EndOfStream, Detach, Cancel, runVars
<1>2. CASE UNCHANGED <<pc, on>>
  BY <1>1, <1>2
     DEF DaemonInv, Types, Ends, Streaming, Registered, NotYet, OrderlyStopCutsNoStream
<1>3. CASE EndOfStream(c) \/ Detach(c)
  <2>1. /\ pc[c] = "streaming"
        /\ \/ pc' = [pc EXCEPT ![c] = "ended"] /\ on' = on
           \/ pc' = [pc EXCEPT ![c] = "detached"] /\ on' = [on EXCEPT ![c] = {}]
    BY <1>3 DEF EndOfStream, Detach
  <2>2. Types'
    BY <1>1, <2>1 DEF DaemonInv, Types
  <2>3. Ends'
    BY <1>1, <2>1 DEF DaemonInv, Types, Ends, Streaming, Registered
  <2>4. NotYet' /\ OrderlyStopCutsNoStream'
    BY <1>1, <2>1 DEF DaemonInv, Types, NotYet, OrderlyStopCutsNoStream
  <2> QED
    BY <2>2, <2>3, <2>4 DEF DaemonInv
<1> QED
  BY <1>2, <1>3 DEF CallSteps, Stream, Deliver, Cancel

-----------------------------------------------------------------------------
\* A caller that opens no stream.
LEMMA AsidePart ==
  ASSUME DaemonInv, NEW c \in Calls,
         Probe(c) \/ RunLocal(c) \/ LocalReturns(c) \/ OpenFails(c)
  PROVE  DaemonInv'
<1>1. /\ UNCHANGED <<daemon, exits, killed, runs, phase, pc, on>>
      /\ \E s \in CLIStates : cli' = [cli EXCEPT ![c] = s] /\ s # "new"
           /\ (s \in {"probed", "lost"} => cli[c] \in {"new", "probed"})
  BY DEF Probe, RunLocal, LocalReturns, OpenFails, vars, runVars, callVars, CLIStates
<1>2. Types'
  BY <1>1 DEF DaemonInv, Types
<1>3. Ends'
  BY <1>1 DEF DaemonInv, Ends, Streaming, Registered
<1>4. NotYet'
  BY <1>1 DEF DaemonInv, Types, NotYet
<1>5. OrderlyStopCutsNoStream'
  BY <1>1 DEF DaemonInv, Types, NotYet, OrderlyStopCutsNoStream
<1> QED
  BY <1>2, <1>3, <1>4, <1>5 DEF DaemonInv

\* A request reaches the executor: the call streams, is refused, or finds nothing.
LEMMA RequestFacts ==
  ASSUME Types, NEW c \in Calls,
         \/ \E K \in Filters : SubscribeActive(c, K)
         \/ \E req \in Requests : Attach(c, req) \/ Refuse(c, req) \/ \E r \in RunIds : Start(c, req, r)
  PROVE  /\ runs' \in [Keys -> RunIds \union {NoRun}]
         /\ phase' \in [RunIds -> Phases \union {"killed"}]
         /\ \E p \in {"streaming", "refused", "ended"} : pc' = [pc EXCEPT ![c] = p]
         /\ \E R \in SUBSET RunIds : on' = [on EXCEPT ![c] = R] /\ (pc'[c] = "ended" => R = {})
         /\ pc[c] = "idle"
<1>1. CASE \E K \in Filters : SubscribeActive(c, K)
  <2>1. PICK K \in Filters : SubscribeActive(c, K)
    BY <1>1
  <2>2. K \subseteq Keys
    BY DEF Filters, Keys
  <2>3. Matching(K) \subseteq RunIds
    BY <2>2 DEF Matching, Types
  <2>4. pc[c] = "idle" /\ on' = [on EXCEPT ![c] = Matching(K)] /\ UNCHANGED <<runs, phase>>
    BY <2>1 DEF SubscribeActive, runVars
  <2>5. CASE Matching(K) = {}
    <3>1. pc' = [pc EXCEPT ![c] = "ended"]
      BY <2>1, <2>5 DEF SubscribeActive
    <3> QED
      BY <2>4, <2>5, <3>1 DEF Types
  <2>6. CASE Matching(K) # {}
    <3>1. pc' = [pc EXCEPT ![c] = "streaming"] /\ pc'[c] = "streaming"
      BY <2>1, <2>6 DEF SubscribeActive, Types
    <3> QED
      BY <2>3, <2>4, <3>1 DEF Types
  <2> QED
    BY <2>5, <2>6
<1>2. CASE \E req \in Requests : Attach(c, req)
  <2>1. PICK req \in Requests : Attach(c, req)
    BY <1>2
  <2>2. req.key \in Keys /\ runs[req.key] \in RunIds
    BY <2>1 DEF Attach, Requests, Types
  <2>3. /\ pc[c] = "idle" /\ pc' = [pc EXCEPT ![c] = "streaming"] /\ UNCHANGED <<runs, phase>>
        /\ on' = [on EXCEPT ![c] = {runs[req.key]}]
    BY <2>1 DEF Attach, Ask, runVars
  <2>4. pc'[c] = "streaming" /\ {runs[req.key]} \in SUBSET RunIds
    BY <2>2, <2>3 DEF Types
  <2> QED
    BY <2>3, <2>4 DEF Types
<1>3. CASE \E req \in Requests : Refuse(c, req)
  <2>1. PICK req \in Requests : Refuse(c, req)
    BY <1>3
  <2>2. on' = [on EXCEPT ![c] = on[c]] /\ on[c] \in SUBSET RunIds
    BY <2>1 DEF Refuse, Types
  <2>3. pc' = [pc EXCEPT ![c] = "refused"] /\ pc'[c] = "refused" /\ pc[c] = "idle"
    BY <2>1 DEF Refuse, Ask, Types
  <2> QED
    BY <2>1, <2>2, <2>3 DEF Refuse, runVars, Types
<1>4. CASE \E req \in Requests, r \in RunIds : Start(c, req, r)
  <2>1. PICK req \in Requests, r \in RunIds : Start(c, req, r)
    BY <1>4
  <2>2. req.key \in Keys
    BY DEF Requests
  <2>3. /\ runs' = [runs EXCEPT ![req.key] = r] /\ phase' = [phase EXCEPT ![r] = "started"]
        /\ phase[r] = "unused"
        /\ pc' = [pc EXCEPT ![c] = "streaming"] /\ on' = [on EXCEPT ![c] = {r}] /\ pc[c] = "idle"
    BY <2>1 DEF Start, Ask
  <2>4. phase' \in [RunIds -> Phases \union {"killed"}]
    BY <2>3 DEF Types, Phases, Live
  <2>5. \A q \in RunIds : phase[q] = "finished" => phase'[q] = "finished"
    BY <2>3 DEF Types
  <2>6. runs' \in [Keys -> RunIds \union {NoRun}]
    BY <2>2, <2>3 DEF Types
  <2>7. pc'[c] = "streaming" /\ {r} \in SUBSET RunIds
    BY <2>3 DEF Types
  <2> QED
    BY <2>3, <2>4, <2>5, <2>6, <2>7
<1> QED
  BY <1>1, <1>2, <1>3, <1>4

LEMMA OpenPart ==
  ASSUME DaemonInv, NEW c \in Calls, OpenStream(c) \/ TickUpgrades(c)
  PROVE  DaemonInv'
<1>1. /\ \/ \E K \in Filters : SubscribeActive(c, K)
         \/ \E req \in Requests : Attach(c, req) \/ Refuse(c, req) \/ \E r \in RunIds : Start(c, req, r)
      /\ daemon # "down" /\ cli' = [cli EXCEPT ![c] = "rpc"] /\ UNCHANGED <<daemon, exits, killed>>
  BY DEF OpenStream, TickUpgrades
<1>2. /\ runs' \in [Keys -> RunIds \union {NoRun}]
      /\ phase' \in [RunIds -> Phases \union {"killed"}]
      /\ pc[c] = "idle"
  BY <1>1, RequestFacts DEF DaemonInv
<1>3. PICK p \in {"streaming", "refused", "ended"} : pc' = [pc EXCEPT ![c] = p]
  BY <1>1, RequestFacts DEF DaemonInv
<1>4. PICK R \in SUBSET RunIds : on' = [on EXCEPT ![c] = R] /\ (pc'[c] = "ended" => R = {})
  BY <1>1, RequestFacts DEF DaemonInv
<1>5. Types'
  BY <1>1, <1>2, <1>3, <1>4 DEF DaemonInv, Types, CLIStates
<1>6. Ends'
  BY <1>1 DEF DaemonInv, Ends
<1>7. NotYet'
  BY <1>1, <1>3, <1>4 DEF DaemonInv, Types, NotYet
<1>8. OrderlyStopCutsNoStream'
  BY <1>1, <1>4 DEF DaemonInv, Types, OrderlyStopCutsNoStream
<1> QED
  BY <1>5, <1>6, <1>7, <1>8 DEF DaemonInv

-----------------------------------------------------------------------------
\* The process ends with its streams: orderly, when only the tick loop's are left, or not.
LEMMA ProcessPart ==
  ASSUME DaemonInv, ProcessEnds, daemon # "down", exits < MaxExits, killed' \in BOOLEAN,
         ~killed' => ~killed /\ Streaming \subseteq TickCalls
  PROVE  DaemonInv'
<1>1. /\ daemon' = "down" /\ exits' = exits + 1 /\ runs' = NoRuns /\ on' = on
      /\ phase' = [r \in RunIds |-> IF phase[r] \in Live \union {"removed"} THEN "killed" ELSE phase[r]]
      /\ pc' = [d \in Calls |-> IF d \in Streaming THEN "detached" ELSE pc[d]]
      /\ cli' = [d \in Calls |-> IF d \in Streaming \ TickCalls THEN "lost" ELSE cli[d]]
  BY DEF ProcessEnds
<1>2. Types'
  <2>1. exits' \in 0..MaxExits
    BY <1>1, DaemonAssumption DEF DaemonInv, Types
  <2>2. cli' \in [Calls -> CLIStates]
    BY <1>1 DEF DaemonInv, Types, CLIStates
  <2>3. runs' \in [Keys -> RunIds \union {NoRun}]
    BY <1>1 DEF NoRuns
  <2>4. phase' \in [RunIds -> Phases \union {"killed"}]
    BY <1>1 DEF DaemonInv, Types
  <2>5. pc' \in [Calls -> {"idle", "streaming", "refused", "detached", "ended"}]
    BY <1>1 DEF DaemonInv, Types
  <2> QED
    BY <1>1, <2>1, <2>2, <2>3, <2>4, <2>5 DEF DaemonInv, Types
<1>3. Ends'
  BY <1>1 DEF Ends, Streaming, Registered, NoRuns
<1>4. NotYet'
  BY <1>1 DEF DaemonInv, Types, NotYet, Streaming
<1>5. OrderlyStopCutsNoStream'
  BY <1>1 DEF DaemonInv, Types, OrderlyStopCutsNoStream
<1> QED
  BY <1>2, <1>3, <1>4, <1>5 DEF DaemonInv

LEMMA ExitPart == DaemonInv /\ (Exit \/ Crash) => DaemonInv'
<1> SUFFICES ASSUME DaemonInv, Exit \/ Crash PROVE DaemonInv'
  OBVIOUS
<1>1. CASE Exit
  BY <1>1, ProcessPart DEF Exit, DaemonInv, Types, Ends
<1>2. CASE Crash
  BY <1>2, ProcessPart DEF Crash
<1> QED
  BY <1>1, <1>2

LEMMA TurnPart == DaemonInv /\ (Terminate \/ Relaunch \/ UNCHANGED allVars) => DaemonInv'
<1> SUFFICES ASSUME DaemonInv, Terminate \/ Relaunch \/ UNCHANGED allVars PROVE DaemonInv'
  OBVIOUS
<1>1. /\ UNCHANGED <<exits, cli, killed, runs, phase, pc, on>>
      /\ \/ daemon' = "draining" /\ exits < MaxExits
         \/ daemon' = "serving"
         \/ daemon' = daemon
  BY DEF Terminate, Relaunch, allVars, daemonVars, vars, runVars, callVars
<1> QED
  BY <1>1
     DEF DaemonInv, Types, Ends, Streaming, Registered, NotYet, OrderlyStopCutsNoStream

\* The invariant holds in every state of the daemon and its callers.
THEOREM DaemonInvariance == DaemonSpec => []DaemonInv
<1>1. DaemonInv /\ [DaemonNext]_allVars => DaemonInv'
  <2> SUFFICES ASSUME DaemonInv, [DaemonNext]_allVars PROVE DaemonInv'
    OBVIOUS
  <2>1. ASSUME NEW c \in Calls, CLI(c) \/ CallSteps(c) PROVE DaemonInv'
    BY <2>1, AsidePart, OpenPart, CallPart DEF CLI
  <2>2. ASSUME NEW r \in RunIds, JobSteps(r) PROVE DaemonInv'
    BY <2>2, JobPart
  <2> QED
    BY <2>1, <2>2, ExitPart, TurnPart DEF DaemonNext
<1> QED
  BY DaemonInitInv, <1>1, PTL DEF DaemonSpec

-----------------------------------------------------------------------------
\* Every variable of the process and its callers keeps its type, and no stream or
\* registered run outlives the process (run.go's Run returns, or is killed).
THEOREM NothingOutlivesIt == DaemonSpec => []DaemonTypeOK
<1>1. DaemonInv => DaemonTypeOK
  BY DEF DaemonInv, Types, Ends, DaemonTypeOK
<1> QED
  BY DaemonInvariance, <1>1, PTL

\* GracefulStop cuts no client's stream: unless the process is killed, a call that comes
\* out empty never had one.
THEOREM OrderlyStopsCutNothing == DaemonSpec => []OrderlyStopCutsNoStream
<1>1. DaemonInv => OrderlyStopCutsNoStream
  BY DEF DaemonInv
<1> QED
  BY DaemonInvariance, <1>1, PTL

-----------------------------------------------------------------------------
(* The executor through the lives of its process.                              *)

\* A signal cancels the contexts of the tick loop, and a new process gives it new ones;
\* neither does anything else to the executor.
Cancels ==
  /\ UNCHANGED <<runVars, pc, asked, on, seen, failure>>
  /\ ctx' \in [Calls -> BOOLEAN]

\* What a step of the daemon and its callers is to the executor.
LEMMA ExecutorSees ==
  ASSUME Inv, [DaemonNext]_allVars
  PROVE  [Next]_vars \/ (ProcessEnds /\ daemon' = "down") \/ Cancels
<1>1. ASSUME NEW c \in Calls, CLI(c) PROVE [Next]_vars
  <2>1. CASE Probe(c) \/ RunLocal(c) \/ LocalReturns(c) \/ OpenFails(c)
    BY <2>1 DEF Probe, RunLocal, LocalReturns, OpenFails
  <2>2. CASE OpenStream(c) \/ TickUpgrades(c)
    <3>1. Call(c)
      BY <2>2 DEF OpenStream, TickUpgrades, Call
    <3> QED
      BY <3>1 DEF Next
  <2> QED
    BY <1>1, <2>1, <2>2 DEF CLI
<1>2. ASSUME NEW c \in Calls, CallSteps(c) PROVE [Next]_vars
  BY <1>2 DEF CallSteps, Next
<1>3. ASSUME NEW r \in RunIds, JobSteps(r) PROVE [Next]_vars
  BY <1>3 DEF JobSteps, Next
<1>4. CASE Terminate \/ Relaunch
  <2>1. ctx \in [Calls -> BOOLEAN]
    BY DEF Inv, ExecutorTypes
  <2>2. ctx' \in [Calls -> BOOLEAN]
    BY <1>4, <2>1 DEF Terminate, Relaunch
  <2> QED
    BY <1>4, <2>2 DEF Terminate, Relaunch, Cancels
<1>5. CASE Exit \/ Crash
  BY <1>5 DEF Exit, Crash, ProcessEnds
<1>6. CASE UNCHANGED allVars
  BY <1>6 DEF allVars
<1> QED
  BY <1>1, <1>2, <1>3, <1>4, <1>5, <1>6 DEF DaemonNext

\* The new process starts with an empty registry, and no run of the old one is live.
LEMMA EndKeeps ==
  ASSUME Inv, StreamInvariant, ProcessEnds
  PROVE  Inv' /\ StreamInvariant'
<1>1. /\ runs' = NoRuns
      /\ phase' = [r \in RunIds |-> IF phase[r] \in Live \union {"removed"} THEN "killed" ELSE phase[r]]
      /\ pc' = [c \in Calls |-> IF c \in Streaming THEN "detached" ELSE pc[c]]
      /\ UNCHANGED <<run, result, log, asked, on, seen, failure, ctx>>
  BY DEF ProcessEnds
<1>2. ExecutorTypes'
  <2>1. runs' \in [Keys -> RunIds \union {NoRun}] /\ phase' \in [RunIds -> Phases \union {"killed"}]
    BY <1>1 DEF NoRuns, Inv, ExecutorTypes
  <2>2. pc' \in [Calls -> {"idle", "streaming", "refused", "detached", "ended"}]
    BY <1>1 DEF Inv, ExecutorTypes
  <2> QED
    BY <1>1, <2>1, <2>2 DEF Inv, ExecutorTypes
<1>3. \A r \in RunIds : /\ phase'[r] \notin Live
                        /\ phase'[r] \in Unreturned => phase'[r] = phase[r]
                        /\ phase[r] = "unused" <=> phase'[r] = "unused"
                        /\ phase[r] = "finished" => phase'[r] = "finished"
  BY <1>1 DEF Inv, ExecutorTypes, Live, Phases, Unreturned
<1>4. (RegisteredIsLive /\ LiveIsRegistered /\ OneKeyPerTarget)'
  BY <1>1, <1>3 DEF NoRuns, RegisteredIsLive, LiveIsRegistered, OneKeyPerTarget
<1>5. NoEarlyEnd' /\ NoEarlyOutcome'
  BY <1>1, <1>3 DEF Inv, NoEarlyEnd, StreamInvariant, NoEarlyOutcome, Unreturned
<1>6. EndedHeardAll'
  <2>1. \A c \in Calls : pc'[c] = "ended" => pc[c] = "ended"
    BY <1>1 DEF Inv, ExecutorTypes
  <2> QED
    BY <1>1, <1>3, <2>1 DEF StreamInvariant, EndedHeardAll, Inv, ExecutorTypes
<1>7. FailuresAreNoted' /\ AbortedIsCancelable'
  BY <1>1, <1>3 DEF StreamInvariant, FailuresAreNoted, AbortedIsCancelable
<1>8. AskedForIt'
  <2>1. \A c \in Calls : pc'[c] = "idle" => pc[c] = "idle"
    BY <1>1 DEF Inv, ExecutorTypes
  <2> QED
    BY <1>1, <1>3, <2>1 DEF StreamInvariant, AskedForIt, Inv, ExecutorTypes
<1> QED
  BY <1>2, <1>4, <1>5, <1>6, <1>7, <1>8 DEF Inv, StreamInvariant

LEMMA CancelsKeep ==
  ASSUME Inv, StreamInvariant, Cancels
  PROVE  Inv' /\ StreamInvariant'
<1>1. ExecutorTypes'
  BY DEF Cancels, Inv, ExecutorTypes, runVars
<1>2. Inv'
  BY <1>1, CallerInv DEF Cancels
<1>3. StreamInvariant'
  BY DEF Cancels, StreamInvariant, NoEarlyOutcome, FailuresAreNoted, EndedHeardAll,
         AbortedIsCancelable, AskedForIt, runVars
<1> QED
  BY <1>2, <1>3

LEMMA EveryLife == DaemonSpec => [](Inv /\ StreamInvariant)
<1>1. DaemonInit => Inv /\ StreamInvariant
  BY InitInv, InitStreamInvariant DEF DaemonInit
<1>2. Inv /\ StreamInvariant /\ [DaemonNext]_allVars => (Inv /\ StreamInvariant)'
  BY ExecutorSees, StepInv, StreamStep, EndKeeps, CancelsKeep
<1> QED
  BY <1>1, <1>2, PTL DEF DaemonSpec

\* What the executor guarantees it guarantees through every signal, exit, crash and
\* relaunch of the daemon process: one job per target, no stale registry, no shared run
\* stopped by somebody else, failures told to every caller that stays to the end.
THEOREM ExecutorSurvivesExits ==
  DaemonSpec => [](OneRunPerTarget /\ NoStaleState /\ OthersCannotAbort /\ FailureReachesCalls)
BY EveryLife, LiveAlone, EndedIsUnregistered, UncancelledIsKept, EndedHasTheFailure, PTL

\* The end of the process leaves no target locked: in a later life too a request is
\* refused only for a run of that life, which is in progress.
THEOREM RefusalsSurviveExits == DaemonSpec => RefusedOnlyForLiveRun
<1>1. Inv /\ [DaemonNext]_allVars => [Justified]_vars
  <2> SUFFICES ASSUME Inv, [DaemonNext]_allVars PROVE [Justified]_vars
    OBVIOUS
  <2>1. ASSUME ProcessEnds \/ Cancels PROVE \A c \in Calls : pc'[c] = "refused" => pc[c] = "refused"
    BY <2>1 DEF ProcessEnds, Cancels
  <2> QED
    BY <2>1, ExecutorSees, RefusalStep DEF Justified
<1> QED
  BY EveryLife, <1>1, PTL DEF DaemonSpec, RefusedOnlyForLiveRun, Justified

\* Each life of the process implements TargetLease from its initial state: only the end
\* of the process takes a target from a run that has not released it.
LeasePerLife ==
  /\ Lease!Init
  /\ [][Lease!Next \/ (daemon' = "down" /\ Lease!Init')]_Lease!leaseVars

\* run.go starts every process with a new executor, so no lease of an earlier process
\* is left, and none is taken while its holder can still work.
THEOREM LeaseSurvivesExits == DaemonSpec => LeasePerLife
<1>1. DaemonInit => Lease!Init
  BY LeaseInit DEF DaemonInit
<1>2. Inv /\ [DaemonNext]_allVars =>
        [Lease!Next \/ (daemon' = "down" /\ Lease!Init')]_Lease!leaseVars
  <2> SUFFICES ASSUME Inv, [DaemonNext]_allVars
               PROVE  [Lease!Next \/ (daemon' = "down" /\ Lease!Init')]_Lease!leaseVars
    OBVIOUS
  <2>1. ASSUME Cancels PROVE UNCHANGED Lease!leaseVars
    BY <2>1, SameHeld DEF Cancels, runVars, Lease!leaseVars, Held
  <2>2. ASSUME ProcessEnds PROVE Lease!Init'
    <3>1. runs' = NoRuns /\ \A r \in RunIds : phase'[r] # "working"
      BY <2>2 DEF ProcessEnds, Live
    <3>2. \A t \in Targets : Held'[t] = {}
      <4> SUFFICES ASSUME NEW t \in Targets PROVE Held'[t] = {}
        OBVIOUS
      <4>1. \A x : x \notin Held'[t]
        BY <3>1, HeldMembers DEF NoRuns
      <4> QED
        BY <4>1, SetExtensionality
    <3>3. Held' = [t \in Targets |-> {}]
      BY <3>2 DEF Held
    <3>4. Busy' = {}
      BY <3>1 DEF Busy
    <3> QED
      BY <3>3, <3>4 DEF Lease!Init, Held, Busy
  <2> QED
    BY <2>1, <2>2, ExecutorSees, LeaseStep
<1> QED
  BY EveryLife, <1>1, <1>2, PTL DEF DaemonSpec, LeasePerLife
=============================================================================
