-------------------------- MODULE StateFileProofs --------------------------
(* What StateFile guarantees for every number of workers, targets, versions    *)
(* and requirements. Types, and that nothing of the local team is ever saved,  *)
(* hold for any number of processes. That updates are atomic and recorded      *)
(* requirements survive holds when one process does the writing, which is what *)
(* stateMu and the executor see to.                                            *)
EXTENDS StateFile, TLAPS

OneProcess == \A v, w \in Workers : Home[v] = Home[w]

InUpdate == {"load", "save"}

\* Whoever is about to save has loaded what the file still says.
FreshCopy == \A w \in Workers : pc[w] = "save" => copy[w] = file

\* Operations in progress have different targets.
Exclusive ==
  \A v, w \in Workers :
    pc[v] \notin Idle /\ pc[w] \notin Idle /\ job[v].target = job[w].target => v = w

\* A patch that has resolved its requirement agrees with the one on record.
Agrees(w) ==
  pc[w] \in {"lock", "load", "save"} /\ update[w] # NoRecord
    /\ Recorded(job[w].target) \in Upstream
  => update[w].requirement = Recorded(job[w].target)

Inv == TypeOK /\ FreshCopy /\ Exclusive /\ \A w \in Workers : Agrees(w)

-----------------------------------------------------------------------------
LEMMA TypesHold == TypeOK /\ [Next]_vars => TypeOK'
<1> SUFFICES ASSUME TypeOK, [Next]_vars PROVE TypeOK'
  OBVIOUS
<1> USE StateFileAssumption DEF TypeOK, Files, Jobs, Idle
<1>1. ASSUME NEW w \in Workers, NEW j \in Jobs, Begin(w, j) PROVE TypeOK'
  <2>1. pc[w] \notin {"load", "save"} /\ pc'[w] \notin {"load", "save"}
    BY <1>1 DEF Begin
  <2>2. \A v \in Workers :
          (pc'[v] \in {"load", "save"}) <=> (pc[v] \in {"load", "save"})
    BY <1>1, <2>1 DEF Begin
  <2>3. pc' \in [Workers -> Idle \union {"resolve", "lock", "load", "save"}]
    BY <1>1 DEF Begin
  <2>4. job' \in [Workers -> Jobs]
    BY <1>1 DEF Begin
  <2>5. update' \in [Workers -> Records \union {NoRecord}]
    BY <1>1 DEF Begin
  <2> QED
    BY <1>1, <2>2, <2>3, <2>4, <2>5 DEF Begin
<1>2. ASSUME NEW w \in Workers, ResolveOriginalDR(w) PROVE TypeOK'
  <2>1. PICK dr \in Requirements, v \in Versions :
          update' = [update EXCEPT ![w] = [version |-> v, requirement |-> dr]]
    BY <1>2 DEF ResolveOriginalDR, Requirements
  <2>2. [version |-> v, requirement |-> dr] \in Records
    BY <2>1 DEF Records
  <2> QED
    BY <1>2, <2>1, <2>2 DEF ResolveOriginalDR, Step
<1>3. ASSUME NEW w \in Workers, GiveUp(w) PROVE TypeOK'
  BY <1>3 DEF GiveUp, Step
<1>4. ASSUME NEW w \in Workers, Lock(w) PROVE TypeOK'
  BY <1>4 DEF Lock, Step
<1>5. ASSUME NEW w \in Workers, Load(w) PROVE TypeOK'
  <2>1. CASE pc' = [pc EXCEPT ![w] = "save"] /\ copy' = [copy EXCEPT ![w] = file] /\ UNCHANGED mu
    BY <1>5, <2>1 DEF Load, Step
  <2>2. CASE pc' = [pc EXCEPT ![w] = "failed"] /\ Unlock(w) /\ UNCHANGED copy
    BY <1>5, <2>2 DEF Load, Step, Unlock
  <2> QED
    BY <1>5, <2>1, <2>2 DEF Load, Step
<1>6. ASSUME NEW w \in Workers, Save(w) PROVE TypeOK'
  <2>1. Updated(w) \in Files
    BY DEF Updated
  <2> QED
    BY <1>6, <2>1 DEF Save, Step, Unlock
<1>7. ASSUME NEW w \in Workers, SaveFails(w) PROVE TypeOK'
  BY <1>7 DEF SaveFails, Step, Unlock
<1>8. ASSUME NEW p \in Processes, Crash(p) PROVE TypeOK'
  BY <1>8 DEF Crash
<1>9. CASE UNCHANGED vars
  BY <1>9 DEF vars
<1> QED
  BY <1>1, <1>2, <1>3, <1>4, <1>5, <1>6, <1>7, <1>8, <1>9 DEF Next, Work

LEMMA TypesStart == Init => TypeOK
BY StateFileAssumption DEF Init, TypeOK, Idle

\* Every variable of the state file keeps its type, and stateMu is held exactly by
\* the worker inside Update's cycle.
THEOREM TypeCorrect == Spec => []TypeOK
BY TypesStart, TypesHold, PTL DEF Spec

\* Only Save changes the file.
LEMMA OnlySaveWrites ==
  ASSUME [Next]_vars
  PROVE  file' = file \/ \E w \in Workers : Save(w)
BY DEF Next, Work, Begin, ResolveOriginalDR, GiveUp, Lock, Load, SaveFails, Crash, vars

\* validateUnlocked: no update writes a requirement of the local team, for itself
\* or left over from another target.
THEOREM NothingLocalSaved == Spec => LocalTeamNeverSaved
<1>1. TypeOK /\ [Next]_vars =>
        [file' # file => \A t \in Targets :
           file'[t] # NoRecord => file'[t].requirement # Local]_vars
  BY OnlySaveWrites DEF Save, Valid
<1> QED
  BY TypeCorrect, <1>1, PTL DEF Spec, LocalTeamNeverSaved

-----------------------------------------------------------------------------
LEMMA ExclusionHolds ==
  ASSUME OneProcess, Inv, [Next]_vars
  PROVE  Exclusive'
<1> USE DEF Inv, TypeOK, Exclusive, Idle
<1>1. ASSUME NEW w \in Workers, NEW j \in Jobs, Begin(w, j) PROVE Exclusive'
  BY <1>1 DEF Begin, OneProcess
<1>2. ASSUME NEW w \in Workers, ~ \E j \in Jobs : Begin(w, j), Work(w) PROVE Exclusive'
  <2>1. job' = job /\ \A v \in Workers : pc'[v] \notin Idle => pc[v] \notin Idle
    BY <1>2 DEF Work, ResolveOriginalDR, GiveUp, Lock, Load, Save, SaveFails, Step
  <2> QED
    BY <2>1
<1>3. ASSUME NEW p \in Processes, Crash(p) PROVE Exclusive'
  BY <1>3 DEF Crash
<1>4. CASE UNCHANGED vars
  BY <1>4 DEF vars
<1> QED
  BY <1>1, <1>2, <1>3, <1>4 DEF Next

\* At most one worker is inside Update.
LEMMA OneInUpdate ==
  ASSUME OneProcess, TypeOK, NEW v \in Workers, NEW w \in Workers,
         pc[v] \in InUpdate, pc[w] \in InUpdate
  PROVE  v = w
BY DEF OneProcess, TypeOK, InUpdate

LEMMA CopyStaysFresh ==
  ASSUME OneProcess, Inv, [Next]_vars
  PROVE  FreshCopy'
<1> USE DEF Inv, TypeOK, FreshCopy
<1>1. ASSUME NEW w \in Workers, Save(w) PROVE FreshCopy'
  <2>1. \A v \in Workers : v # w => pc[v] # "save"
    BY <1>1, OneInUpdate DEF Save, Step, InUpdate
  <2> QED
    BY <1>1, <2>1 DEF Save, Step
<1>2. ASSUME NEW w \in Workers, Load(w) PROVE FreshCopy'
  BY <1>2 DEF Load, Step
<1>3. ASSUME file' = file, copy' = copy, \A v \in Workers : pc'[v] = "save" => pc[v] = "save"
      PROVE  FreshCopy'
  BY <1>3
<1>4. ASSUME NEW w \in Workers, Work(w), ~Save(w), ~Load(w) PROVE FreshCopy'
  <2>1. /\ file' = file /\ copy' = copy
        /\ \A v \in Workers : pc'[v] = "save" => pc[v] = "save"
    BY <1>4 DEF Work, Begin, ResolveOriginalDR, GiveUp, Lock, SaveFails, Step
  <2> QED
    BY <2>1, <1>3
<1>5. ASSUME NEW p \in Processes, Crash(p) PROVE FreshCopy'
  BY <1>5, <1>3 DEF Crash
<1>6. CASE UNCHANGED vars
  BY <1>6, <1>3 DEF vars
<1> QED
  BY <1>1, <1>2, <1>4, <1>5, <1>6 DEF Next

LEMMA AgreementHolds ==
  ASSUME OneProcess, Inv, [Next]_vars, NEW v \in Workers
  PROVE  Agrees(v)'
<1> USE DEF Inv, TypeOK, Agrees, Recorded
<1>1. ASSUME NEW w \in Workers, NEW j \in Jobs, Begin(w, j) PROVE Agrees(v)'
  BY <1>1 DEF Begin
<1>2. ASSUME NEW w \in Workers, ResolveOriginalDR(w) PROVE Agrees(v)'
  <2>1. CASE v = w
    BY <1>2, <2>1, StateFileAssumption DEF ResolveOriginalDR, Step
  <2>2. CASE v # w
    BY <1>2, <2>2 DEF ResolveOriginalDR, Step
  <2> QED
    BY <2>1, <2>2
<1>3. ASSUME NEW w \in Workers, Save(w) PROVE Agrees(v)'
  <2>1. CASE v = w
    BY <1>3, <2>1 DEF Save, Step
  <2>2. CASE v # w
    <3>1. /\ file' = [file EXCEPT ![job[w].target] = update[w]]
          /\ pc'[v] = pc[v] /\ job' = job /\ update' = update
      BY <1>3, <2>2 DEF Save, Step, Updated, FreshCopy
    <3>2. pc[v] \notin Idle => job[v].target # job[w].target
      BY <1>3, <2>2 DEF Exclusive, Save, Step, Idle
    <3>3. pc[v] \notin Idle => file'[job[v].target] = file[job[v].target]
      BY <3>1, <3>2 DEF Jobs, Files
    <3> QED
      BY <3>1, <3>3 DEF Idle
  <2> QED
    BY <2>1, <2>2
<1>4. ASSUME NEW w \in Workers, Lock(w) \/ Load(w) \/ GiveUp(w) \/ SaveFails(w) PROVE Agrees(v)'
  <2>1. /\ UNCHANGED <<file, job, update>>
        /\ pc'[v] \in {"lock", "load", "save"} => pc[v] \in {"lock", "load", "save"}
    BY <1>4 DEF Lock, Load, GiveUp, SaveFails, Step
  <2> QED
    BY <2>1
<1>5. ASSUME NEW p \in Processes, Crash(p) PROVE Agrees(v)'
  BY <1>5 DEF Crash
<1>6. CASE UNCHANGED vars
  BY <1>6 DEF vars
<1> QED
  BY <1>1, <1>2, <1>3, <1>4, <1>5, <1>6 DEF Next, Work

\* The invariant of a single writing process holds in every state of the file.
THEOREM Invariant ==
  ASSUME OneProcess
  PROVE  Spec => []Inv
<1>1. Init => Inv
  BY TypesStart DEF Init, Inv, FreshCopy, Exclusive, Agrees, Idle
<1>2. Inv /\ [Next]_vars => Inv'
  BY TypesHold, ExclusionHolds, CopyStaysFresh, AgreementHolds DEF Inv
<1> QED
  BY <1>1, <1>2, PTL DEF Spec

\* With one writing process, Save changes the record of its own target and no other.
LEMMA SavePuts ==
  ASSUME Inv, NEW w \in Workers, Save(w)
  PROVE  /\ job[w].target \in Targets
         /\ update[w] \in Records \union {NoRecord}
         /\ file' = [file EXCEPT ![job[w].target] = update[w]]
BY DEF Inv, TypeOK, FreshCopy, Save, Step, Updated, Jobs

\* Update serializes one load, mutate, save cycle: with one writing process the
\* file implements a store whose records are put and deleted atomically.
THEOREM Refinement ==
  ASSUME OneProcess
  PROVE  Spec => ImplementsStore
<1>1. Init => Store!Init
  BY DEF Init, Store!Init, Files
<1>2. Inv /\ [Next]_vars => [Store!Next]_file
  BY OnlySaveWrites, SavePuts DEF Store!Next, Store!Put
<1> QED
  BY Invariant, <1>1, <1>2, PTL DEF Spec, ImplementsStore, Store!Spec

\* With one writing process a recorded vendor's requirement survives every later
\* patch of its target, in whatever order loads and saves of others fall.
THEOREM RequirementsSurvive ==
  ASSUME OneProcess
  PROVE  Spec => RequirementIsKept
<1>1. Inv /\ [Next]_vars =>
        [\A t \in Targets :
           file[t] # NoRecord /\ file[t].requirement \in Upstream /\ file'[t] # NoRecord =>
             file'[t].requirement = file[t].requirement]_vars
  <2> SUFFICES ASSUME Inv, [Next]_vars, NEW t \in Targets,
                      file[t] # NoRecord, file[t].requirement \in Upstream, file'[t] # NoRecord
               PROVE  file'[t].requirement = file[t].requirement
    OBVIOUS
  <2>1. ASSUME NEW w \in Workers, Save(w) PROVE file'[t].requirement = file[t].requirement
    <3>1. Agrees(w) /\ pc[w] = "save" /\ file \in Files
      BY <2>1 DEF Inv, TypeOK, Save, Step
    <3>2. CASE t = job[w].target
      BY <2>1, <3>1, <3>2, SavePuts DEF Agrees, Recorded, Files
    <3>3. CASE t # job[w].target
      BY <2>1, <3>1, <3>3, SavePuts DEF Files
    <3> QED
      BY <3>2, <3>3
  <2> QED
    BY <2>1, OnlySaveWrites
<1> QED
  BY Invariant, <1>1, PTL DEF Spec, RequirementIsKept
=============================================================================
