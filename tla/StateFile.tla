----------------------------- MODULE StateFile -----------------------------
(* internal/state: the file that records what is patched, and the operations   *)
(* that use it: stepWriteState and resolveOriginalDRForPatch of package patch  *)
(* and removePatchState of package hardreset. Workers are the goroutines that  *)
(* run operations; stateMu serializes those of one process, and nothing those  *)
(* of two.                                                                     *)
CONSTANTS
  Workers,
  Processes,
  Home,       \* the process of each worker
  Targets,
  Versions,
  Upstream,   \* requirements of the vendors' own signatures
  Local,      \* a requirement that names the local signing team
  NoOne, NoRecord

Blank == "blank"   \* a requirement that was not captured
Requirements == Upstream \union {Local, Blank}
Records == [version : Versions, requirement : Requirements]

ASSUME StateFileAssumption ==
  /\ Home \in [Workers -> Processes]
  /\ NoOne \notin Workers
  /\ NoRecord \notin Records
  /\ Local \notin Upstream \union {Blank}
  /\ Blank \notin Upstream

VARIABLES
  file,      \* state.json; an absent file and an empty one read the same
  mu,        \* stateMu of each process
  pc,        \* where each worker is
  job,       \* its operation, "patch" or "reset", and its target
  update,    \* the record its callback will put, or NoRecord to delete
  copy       \* what it loaded inside Update

vars == <<file, mu, pc, job, update, copy>>

Files == [Targets -> Records \union {NoRecord}]
Jobs == [kind : {"patch", "reset"}, target : Targets]
Idle == {"idle", "done", "failed"}

\* The state file can be older than the local team it is checked against.
Init ==
  /\ file \in Files
  /\ mu = [p \in Processes |-> NoOne]
  /\ pc = [w \in Workers |-> "idle"]
  /\ job \in [Workers -> Jobs]
  /\ update = [w \in Workers |-> NoRecord]
  /\ copy = [w \in Workers |-> file]

-----------------------------------------------------------------------------
Step(w, from, to) ==
  /\ pc[w] = from
  /\ pc' = [pc EXCEPT ![w] = to]

\* The executor of a process runs one operation of a target at a time
\* (Executor!OneRunPerTarget).
Begin(w, j) ==
  /\ pc[w] \in Idle
  /\ \A v \in Workers :
       Home[v] = Home[w] /\ pc[v] \notin Idle => job[v].target # j.target
  /\ job' = [job EXCEPT ![w] = j]
  /\ update' = [update EXCEPT ![w] = NoRecord]
  /\ pc' = [pc EXCEPT ![w] = IF j.kind = "patch" THEN "resolve" ELSE "lock"]
  /\ UNCHANGED <<file, mu, copy>>

Recorded(t) == IF file[t] = NoRecord THEN Blank ELSE file[t].requirement

\* Mutant: what codesign says now is always taken.
ResolveOriginalDR_Fresh(w) ==
  /\ Step(w, "resolve", "lock")
  /\ \E dr \in Upstream \union {Blank}, v \in Versions :
       update' = [update EXCEPT ![w] = [version |-> v, requirement |-> dr]]
  /\ UNCHANGED <<file, mu, job, copy>>

\* resolveOriginalDRForPatch: the recorded requirement, unless it is blank or the
\* local team's; else what codesign says, unless that is. It loads the file without
\* the lock, long before stepWriteState writes it.
ResolveOriginalDR(w) ==
  LET recorded == Recorded(job[w].target) IN
  /\ Step(w, "resolve", "lock")
  /\ \E dr \in IF recorded \in Upstream THEN {recorded} ELSE Upstream \union {Blank},
        v \in Versions :
       update' = [update EXCEPT ![w] = [version |-> v, requirement |-> dr]]
  /\ UNCHANGED <<file, mu, job, copy>>

\* The operation fails before it has anything to record.
GiveUp(w) ==
  /\ Step(w, "resolve", "failed")
  /\ UNCHANGED <<file, mu, job, update, copy>>

\* Mutant: Update takes no lock.
Lock_Never(w) ==
  /\ Step(w, "lock", "load")
  /\ UNCHANGED <<file, mu, job, update, copy>>

\* Update
Lock(w) ==
  /\ Step(w, "lock", "load")
  /\ mu[Home[w]] = NoOne
  /\ mu' = [mu EXCEPT ![Home[w]] = w]
  /\ UNCHANGED <<file, job, update, copy>>

Unlock(w) == mu' = [mu EXCEPT ![Home[w]] = NoOne]

\* loadUnlocked
Load(w) ==
  /\ \/ /\ Step(w, "load", "save")
        /\ copy' = [copy EXCEPT ![w] = file]
        /\ UNCHANGED mu
     \/ Step(w, "load", "failed") /\ Unlock(w) /\ UNCHANGED copy
  /\ UNCHANGED <<file, job, update>>

Updated(w) == [copy[w] EXCEPT ![job[w].target] = update[w]]

\* validateUnlocked looks at every record, those the callback did not touch included.
\* A state without records is not validated: its file is removed.
Valid(f) ==
  \A t \in {u \in Targets : f[u] # NoRecord} : f[t].requirement # Local

\* saveUnlocked writes a temporary file and renames it over the state file, so the
\* file changes at once or not at all; removeUnlocked.
Save(w) ==
  /\ Step(w, "save", "done")
  /\ Valid(Updated(w))
  /\ file' = Updated(w)
  /\ Unlock(w)
  /\ UNCHANGED <<job, update, copy>>

\* Any step of saveUnlocked fails: the temporary file is removed.
SaveFails(w) ==
  /\ Step(w, "save", "failed")
  /\ Unlock(w)
  /\ UNCHANGED <<file, job, update, copy>>

\* The process dies and comes back with a new stateMu and no operations.
Crash(p) ==
  /\ mu' = [mu EXCEPT ![p] = NoOne]
  /\ pc' = [w \in Workers |-> IF Home[w] = p THEN "idle" ELSE pc[w]]
  /\ UNCHANGED <<file, job, update, copy>>

Work(w) ==
  \/ \E j \in Jobs : Begin(w, j)
  \/ ResolveOriginalDR(w) \/ GiveUp(w)
  \/ Lock(w) \/ Load(w) \/ Save(w) \/ SaveFails(w)

Next ==
  \/ \E w \in Workers : Work(w)
  \/ \E p \in Processes : Crash(p)

Spec == Init /\ [][Next]_vars

-----------------------------------------------------------------------------
\* Types, and that stateMu is held exactly by the worker inside Update's cycle.
TypeOK ==
  /\ \A w \in Workers : (mu[Home[w]] = w) <=> (pc[w] \in {"load", "save"})
  /\ file \in Files
  /\ mu \in [Processes -> Workers \union {NoOne}]
  /\ pc \in [Workers -> Idle \union {"resolve", "lock", "load", "save"}]
  /\ job \in [Workers -> Jobs]
  /\ update \in [Workers -> Records \union {NoRecord}]
  /\ copy \in [Workers -> Files]

\* "The recorded value" is preferred (resolveOriginalDRForPatch): once a vendor's
\* requirement is recorded for a target, no later patch replaces it; only a reset
\* forgets it.
RequirementIsKept ==
  [][\A t \in Targets :
       file[t] # NoRecord /\ file[t].requirement \in Upstream /\ file'[t] # NoRecord =>
         file'[t].requirement = file[t].requirement]_vars

\* validateUnlocked: no update records a requirement of the local team, and none
\* succeeds while the file still holds one of another target.
LocalTeamNeverSaved ==
  [][file' # file => \A t \in Targets :
       file'[t] # NoRecord => file'[t].requirement # Local]_vars

\* Update "serializes one load, mutate, save cycle": no update undoes another.
Store == INSTANCE StateStore WITH store <- file

ImplementsStore == Store!Spec
=============================================================================
