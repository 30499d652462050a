----------------------------- MODULE BundleSwap -----------------------------
(* internal/bundlemutate: StagedSwap and CommitSwap replace an installed       *)
(* bundle with a staged copy that is patched on the way, on a file system      *)
(* whose operations can fail, beside an app that opens and closes when it      *)
(* likes.                                                                      *)
EXTENDS AppGuard

CONSTANT Versions   \* the bundle versions a feed offers

\* What stands for the version of a bundle that has none is not one.
ASSUME VersionsAssumption == Versions \intersect {"none", "debris"} = {}

VARIABLES
  live,      \* the bundle at t.AppPath
  old,       \* the bundle at t.AppPath.dvc-old
  staged,    \* the bundle under this upgrade's staging root
  archive,   \* what was downloaded
  target,    \* a standard target, one signed for development, or one of a Tauri feed
  pc,        \* the next step of the upgrade, or how the last one ended
  want,      \* the version the feed names
  had,       \* hadLiveBundle
  failing    \* the upgrade is on an error path

fs == <<live, old, staged>>

\* A bundle is whole or the debris of a removal. real: the original executable has
\* been moved to <exec>.real. sealed: its patch has been finished (Verify), or it is as
\* the vendor left it. genuine: it is the vendor's.
None == [version |-> "none", whole |-> FALSE, real |-> FALSE, sealed |-> FALSE, genuine |-> TRUE]
Debris == [None EXCEPT !.version = "debris"]
Clean(v, g) == [version |-> v, whole |-> TRUE, real |-> FALSE, sealed |-> TRUE, genuine |-> g]
Bundles ==
  {None, Debris} \union
  [version : Versions, whole : {TRUE}, real : BOOLEAN, sealed : BOOLEAN, genuine : BOOLEAN]

\* The version of the bundle in an archive, which the feed's name for it need not be, and
\* whether it is the vendor's.
NoArchive == [version |-> "none", genuine |-> FALSE]
Archives == {NoArchive} \union [version : Versions, genuine : BOOLEAN]

SwapInit ==
  /\ GuardInit
  /\ live \in {None} \union {Clean(v, TRUE) : v \in Versions}
  /\ old = None
  /\ staged = None
  /\ archive = NoArchive
  /\ target \in {"standard", "development", "tauri"}
  /\ pc = "idle"
  /\ want = "none"
  /\ had = FALSE
  /\ failing = "no"

Goto(step) == pc' = step /\ UNCHANGED failing
Fail(step) == pc' = step /\ failing' = "error"

\* What no step of the swap touches.
Static == UNCHANGED <<guardVars, archive, target, want>>

-----------------------------------------------------------------------------
\* Mutate, on entry and again from PreCommit: its check runs, and its answer sends
\* the upgrade on or ends it.
Guarded(here, next, end) ==
  /\ pc = here
  /\ \/ Mutate /\ UNCHANGED <<pc, failing>>
     \/ /\ guard \in Answers
        /\ guard' = "list"
        /\ CASE guard = "closed" -> Goto(next)
             [] guard = "running" -> pc' = end /\ failing' = "deferred"
             [] guard = "failed" -> Fail(end)
        /\ UNCHANGED <<procs, policy, listed, checked, faultVars>>
  /\ UNCHANGED <<fs, archive, target, want, had>>

Guard == Guarded("guard", "stage", "cleanup")

\* Mutant: no PreCommit hook.
PreCommit_Skipped ==
  /\ pc = "precommit"
  /\ Goto("prepareold") /\ NoFault
  /\ UNCHANGED <<fs, had>> /\ Static

PreCommit == Guarded("precommit", "prepareold", "cleanup")

\* stageBundle: ditto of what was extracted into the staging root. Nothing compares its
\* version with the feed's.
Stage ==
  /\ pc = "stage"
  /\ \/ staged' = Clean(archive.version, archive.genuine) /\ Goto("prepare") /\ NoFault
     \/ staged' \in {None, Debris} /\ Fail("cleanup") /\ Fault
  /\ checked' = "nothing"
  /\ UNCHANGED <<live, old, had, procs, policy, guard, listed, archive, target, want>>

\* What patching does to a bundle before it is sealed: only the standard plan makes a
\* .real.
Patched(b) ==
  IF b.whole THEN [b EXCEPT !.real = @ \/ target # "development", !.sealed = FALSE] ELSE b

\* patch.PrepareForSwap on the staged copy: it may refuse for reasons of its own.
Prepare ==
  /\ pc = "prepare"
  /\ staged' = Patched(staged)
  /\ Goto("precommit") \/ Fail("cleanup")
  /\ NoFault
  /\ UNCHANGED <<live, old, had>> /\ Static

\* os.RemoveAll of a bundle: all of it, or an error with some of it left.
Removal(b, b2) ==
  \/ b2 = None /\ NoFault
  \/ b # None /\ b2 \in {b, Debris} /\ Fault

\* prepareOldPath
PrepareOld ==
  /\ pc = "prepareold"
  /\ \/ Fail("cleanup") /\ Fault /\ UNCHANGED old
     \/ old = None /\ Goto("save") /\ NoFault /\ UNCHANGED old
     \/ old # None /\ live = None /\ Fail("cleanup") /\ NoFault /\ UNCHANGED old
     \/ /\ old # None /\ live # None
        /\ Removal(old, old')
        /\ IF old' = None THEN Goto("save") ELSE Fail("cleanup")
  /\ UNCHANGED <<live, staged, had>> /\ Static

\* Mutant: hadLiveBundle is lost.
Save_Forgets ==
  /\ pc = "save"
  /\ had' = FALSE
  /\ old' = live
  /\ live' = None
  /\ Goto("install") /\ NoFault
  /\ UNCHANGED staged /\ Static

\* renameIfExists(live, old)
Save ==
  /\ pc = "save"
  /\ \/ live = None /\ had' = FALSE /\ Goto("install") /\ NoFault /\ UNCHANGED <<live, old>>
     \/ live # None /\ had' = TRUE /\ old' = live /\ live' = None /\ Goto("install") /\ NoFault
     \/ Fail("cleanup") /\ Fault /\ UNCHANGED <<live, old, had>>
  /\ UNCHANGED staged /\ Static

\* Mutant: the old copy goes as soon as the new one is in place.
Install_DropsOld ==
  /\ pc = "install"
  /\ live' = staged
  /\ staged' = None
  /\ old' = None
  /\ Goto("verify") /\ NoFault
  /\ UNCHANGED had /\ Static

Install ==
  /\ pc = "install"
  /\ \/ live' = staged /\ staged' = None /\ Goto("verify") /\ NoFault
     \/ /\ UNCHANGED <<live, staged>>
        /\ Fail(IF had THEN "restoreinstall" ELSE "cleanup") /\ Fault
  /\ UNCHANGED <<old, had>> /\ Static

\* restoreAfterInstallFailure
RestoreInstall ==
  /\ pc = "restoreinstall"
  /\ \/ live' = old /\ old' = None /\ NoFault
     \/ UNCHANGED <<live, old>> /\ Fault
  /\ Goto("cleanup")
  /\ UNCHANGED <<staged, had>> /\ Static

\* patch.FinalizeAfterSwap on the live bundle seals, checks and records it.
Verify ==
  /\ pc = "verify"
  /\ \/ live' = [live EXCEPT !.sealed = TRUE] /\ Goto("finish")
     \/ UNCHANGED live /\ Fail("moveback")
  /\ NoFault
  /\ UNCHANGED <<old, staged, had>> /\ Static

\* Mutant: nothing removes the old copy.
FinishCommit_KeepsOld ==
  /\ pc = "finish"
  /\ Goto("cleanup") /\ NoFault
  /\ UNCHANGED <<fs, had>> /\ Static

\* finishCommit
FinishCommit ==
  /\ pc = "finish"
  /\ IF had THEN Removal(old, old') ELSE UNCHANGED old /\ NoFault
  /\ IF had /\ old' # None THEN Fail("cleanup") ELSE Goto("cleanup")
  /\ UNCHANGED <<live, staged, had>> /\ Static

\* rollbackCommit: mkdir and rename live back to the staging root ...
MoveBack ==
  /\ pc = "moveback"
  /\ \/ staged' = live /\ live' = None /\ NoFault
     \/ UNCHANGED <<live, staged>> /\ Fault
  /\ Goto(IF had THEN "clearlive" ELSE "cleanup")
  /\ UNCHANGED <<old, had>> /\ Static

\* ... restoreLiveBundleAfterRollback: remove what is still there ...
ClearLive ==
  /\ pc = "clearlive"
  /\ Removal(live, live')
  /\ Goto("restorelive")
  /\ UNCHANGED <<old, staged, had>> /\ Static

\* ... and rename the old bundle back, which a leftover in its place prevents.
RestoreLive ==
  /\ pc = "restorelive"
  /\ \/ live = None /\ live' = old /\ old' = None /\ NoFault
     \/ live = None /\ UNCHANGED <<live, old>> /\ Fault
     \/ live # None /\ UNCHANGED <<live, old>> /\ NoFault
  /\ Goto("cleanup")
  /\ UNCHANGED <<staged, had>> /\ Static

\* The deferred removal of the staging root, whose failure is only logged.
Cleanup ==
  /\ pc = "cleanup"
  /\ Removal(staged, staged')
  /\ pc' = IF failing = "no" THEN "ok" ELSE failing
  /\ UNCHANGED <<live, old, had, failing>> /\ Static

Swap ==
  \/ Guard \/ Stage \/ Prepare \/ PreCommit \/ PrepareOld \/ Save \/ Install
  \/ RestoreInstall \/ Verify \/ FinishCommit \/ MoveBack \/ ClearLive
  \/ RestoreLive \/ Cleanup
=============================================================================
