-------------------------- MODULE HardResetProofs --------------------------
(* What upgrades and resets of an app guarantee for any processes, versions    *)
(* and numbers of attempts, failures and crashes.                              *)
EXTENDS HardReset, TLAPS

CommitSteps == {"prepareold", "save", "install"}

FsTypes == live \in Bundles /\ old \in Bundles /\ staged \in Bundles /\ before \in Bundles

GuardTypes ==
  /\ guard \in GuardSteps \union Answers
  /\ policy \in {"defer", "close"}
  /\ procs \subseteq Procs /\ listed \subseteq Procs
  /\ checked \in {"nothing", "closed", "open", "unknown"}

FaultTypes == clean \in BOOLEAN /\ faults \in 0..MaxFaults

PcTypes ==
  /\ pc \in AtRest \union Steps
  /\ failing \in {"no", "error", "deferred"}
  /\ want \in Versions \union {"none"}
  /\ archive \in Archives
  /\ target \in {"standard", "development", "tauri"}

RunTypes ==
  /\ had \in BOOLEAN /\ owned \in BOOLEAN /\ inplace \in BOOLEAN
  /\ attempts \in 0..MaxAttempts
  /\ crashes \in 0..MaxCrashes

\* An answer of the guard is one to the check of this step, and one that says closed is
\* based on an empty list, or on one that could not be read.
Fresh ==
  /\ guard = "closed" => checked = "closed" \/ ~clean
  /\ pc \in CommitSteps => checked = "closed" \/ ~clean
  /\ guard # "list" => pc \in {"guard", "precommit", "patchguard", "idle"}

\* An altered archive gets no further than the check of its signature.
Vendor ==
  /\ live.genuine /\ old.genuine /\ staged.genuine
  /\ pc = "signature" /\ target # "tauri" => archive.genuine
  /\ pc \in {"extract", "guard", "stage"} => archive.genuine

\* What the upgrade is to install, and it there as the next upgrade knows a patched one.
Asked == IF inplace THEN want ELSE archive.version
Wanted(b) == b.whole /\ b.version = Asked /\ (target # "development" => b.real)

\* What each step of an upgrade has made of the bundle in hand.
Prepared ==
  /\ pc \in Steps \ {"check"} => want \in Versions
  /\ pc \in Steps => ~inplace \/ pc \in {"patchguard", "patch", "finalize"}
  /\ pc \in {"signature", "extract", "guard", "stage", "prepare"} => archive.version \in Versions
  /\ pc = "prepare" => staged.whole /\ staged.version = archive.version
  /\ pc \in CommitSteps \union {"precommit"} => Wanted(staged)
  /\ pc \in {"verify", "finish"} => Wanted(live)
  /\ pc = "finish" => live.sealed
  /\ pc \in {"patchguard", "patch"} => live.version \in {want, "debris"}
  /\ pc = "finalize" => Wanted(live)
  /\ pc = "ok" \/ (pc = "cleanup" /\ failing = "no") =>
       /\ Wanted(live) /\ live.sealed
       /\ ~inplace => old = None

\* On which steps the upgrade is failing.
Failing ==
  /\ pc \in Steps \ {"cleanup", "restoreinstall", "moveback", "clearlive", "restorelive"} =>
       failing = "no"
  /\ pc \in {"restoreinstall", "moveback", "clearlive", "restorelive"} => failing = "error"
  /\ pc \in {"patchguard", "patch", "finalize"} => inplace

\* prepareOldPath made way for the backup, and without a live bundle there is none.
OldGone ==
  /\ pc = "save" => old = None
  /\ pc \in {"install", "verify", "finish"} /\ ~had => old = None

\* Up to the commit nothing is changed; from then on the backup is the bundle of before,
\* and without a failure of the file system a rollback puts it back.
Restores ==
  /\ pc \in {"check", "download", "signature", "extract", "guard", "stage", "prepare",
             "precommit", "prepareold", "save", "patchguard", "patch"} => live = before
  /\ pc \in {"install", "verify", "moveback"} =>
       IF had THEN old = before ELSE before = None
  /\ pc = "install" => live = None
  /\ pc = "restoreinstall" => ~clean
  /\ pc \in {"clearlive", "restorelive"} /\ clean => live = None /\ old = before
  /\ pc = "cleanup" /\ (failing = "deferred" \/ (failing = "error" /\ clean)) => live = before
  /\ FailureRestores

\* The conditions under which the user's app is safe, which only ever cease to hold.
Sound == owned /\ (faults = 0 \/ (faults = 1 /\ crashes = 0))

\* A live bundle is whole, or there is a backup that is.
Safe ==
  Sound =>
    /\ live = None \/ live.whole
    /\ live.whole \/ old.whole
    /\ pc \in {"install", "verify", "moveback"} => had
    /\ pc \in {"install", "verify", "moveback", "restoreinstall", "clearlive", "restorelive"} =>
         old.whole
    /\ pc = "restoreinstall" => faults = 1
    /\ pc = "clearlive" /\ live # None => faults = 1
    /\ pc = "restorelive" => live = None

Types == FsTypes /\ GuardTypes /\ FaultTypes /\ PcTypes /\ RunTypes
UpgradeInv == Types /\ Fresh /\ Vendor /\ Prepared /\ Failing /\ OldGone /\ Restores /\ Safe

\* What a reset has taken by the step it is at.
Cleared ==
  /\ reset \in ResetSteps => pc = "idle"
  /\ reset \in {"extension", "tee", "bundle", "record"} => "staging" \notin left
  /\ reset \in {"tee", "bundle", "record"} => "extension" \notin left
  /\ reset \in {"bundle", "record"} => "tee" \notin left /\ "cli" \notin left
  /\ reset = "record" => live = None

\* Rows that a reset knows of go before the bundle that names their ids.
Tracked ==
  tracked /\ faults < 2 =>
    /\ grants => live.whole
    /\ reset = "verify" /\ grants => faults = 1
    /\ reset \in {"staging", "extension", "tee", "bundle", "record"} => ~grants

ResetTypes ==
  /\ reset \in ResetSteps \union Resting
  /\ grants \in BOOLEAN /\ tracked \in BOOLEAN
  /\ left \subseteq Traces

Inv == UpgradeInv /\ ResetTypes /\ Cleared /\ Tracked

-----------------------------------------------------------------------------

Wholes ==
  [version : Versions, whole : {TRUE}, real : BOOLEAN, sealed : BOOLEAN, genuine : BOOLEAN]

LEMMA Limits == MaxFaults \in Nat /\ MaxAttempts \in Nat /\ MaxCrashes \in Nat
BY AppGuardAssumption, UpgradeAssumption

LEMMA BundleFacts ==
  /\ None \in Bundles /\ ~None.whole /\ ~None.real /\ None.genuine /\ None.version = "none"
  /\ Debris \in Bundles /\ ~Debris.whole /\ ~Debris.real /\ Debris.genuine
  /\ Debris.version = "debris" /\ Debris # None
BY DEF None, Debris, Bundles

LEMMA ArchiveFacts ==
  /\ NoArchive \in Archives
  /\ \A a \in [version : Versions, genuine : {TRUE}] :
       a \in Archives /\ a.version \in Versions /\ a.genuine
  /\ \A a \in [version : Versions, genuine : {FALSE}] :
       a \in Archives /\ a.version \in Versions
  /\ \A a \in Archives : a.genuine \in BOOLEAN
<1>1. NoArchive \in Archives
  BY DEF NoArchive, Archives
<1>2. \A a \in [version : Versions, genuine : {TRUE}] :
        a \in Archives /\ a.version \in Versions /\ a.genuine
  BY DEF Archives
<1>3. \A a \in [version : Versions, genuine : {FALSE}] :
        a \in Archives /\ a.version \in Versions
  BY DEF Archives
<1>4. \A a \in Archives : a.genuine \in BOOLEAN
  <2>1. NoArchive.genuine \in BOOLEAN
    BY DEF NoArchive
  <2>2. \A a \in [version : Versions, genuine : BOOLEAN] : a.genuine \in BOOLEAN
    OBVIOUS
  <2> QED
    BY <2>1, <2>2 DEF Archives
<1> QED
  BY <1>1, <1>2, <1>3, <1>4

LEMMA CleanFacts ==
  ASSUME NEW v \in Versions, NEW g \in BOOLEAN
  PROVE  /\ Clean(v, g) \in Bundles
         /\ Clean(v, g).whole /\ Clean(v, g).version = v /\ Clean(v, g).genuine = g
BY DEF Clean, Bundles

LEMMA WholeFacts ==
  ASSUME NEW b \in Bundles
  PROVE  /\ b.whole \in BOOLEAN /\ b.genuine \in BOOLEAN
         /\ ~b.whole => b \in {None, Debris}
         /\ b.whole => b \in Wholes /\ b.version \in Versions
<1>1. CASE b = None
  BY <1>1 DEF None, Debris
<1>2. CASE b = Debris
  BY <1>2 DEF None, Debris
<1>3. CASE b \notin {None, Debris}
  <2>1. b \in Wholes
    BY <1>3 DEF Bundles, Wholes
  <2>2. b.version \in Versions /\ b.whole = TRUE /\ b.genuine \in BOOLEAN
    BY <2>1 DEF Wholes
  <2> QED
    BY <1>3, <2>1, <2>2
<1> QED
  BY <1>1, <1>2, <1>3

\* What sealing does to a bundle, and what a patch does to it.
LEMMA SealedFacts ==
  ASSUME NEW b \in Bundles, b.whole
  PROVE  LET s == [b EXCEPT !.sealed = TRUE]
         IN  /\ s \in Bundles /\ s.sealed /\ s.whole
             /\ s.version = b.version /\ s.real = b.real /\ s.genuine = b.genuine
<1> DEFINE s == [b EXCEPT !.sealed = TRUE]
<1>1. b \in Wholes
  BY WholeFacts
<1>2. s \in Wholes
  BY <1>1 DEF Wholes
<1>3. s.sealed /\ s.version = b.version /\ s.real = b.real /\ s.genuine = b.genuine
  BY <1>1 DEF Wholes
<1>4. s \in Bundles /\ s.whole
  BY <1>2 DEF Wholes, Bundles
<1> QED
  BY <1>3, <1>4

LEMMA PatchedFacts ==
  ASSUME NEW b \in Bundles
  PROVE  /\ Patched(b) \in Bundles
         /\ Patched(b).whole = b.whole /\ Patched(b).version = b.version
         /\ Patched(b).genuine = b.genuine
         /\ b.whole /\ target # "development" => Patched(b).real
         /\ ~b.whole => Patched(b) = b
<1>1. CASE b.whole
  <2>1. b \in Wholes
    BY <1>1, WholeFacts
  <2>2. Patched(b) = [b EXCEPT !.real = @ \/ target # "development", !.sealed = FALSE]
    BY <1>1 DEF Patched
  <2>3. Patched(b) \in Wholes
    BY <2>1, <2>2 DEF Wholes
  <2> QED
    BY <2>1, <2>2, <2>3 DEF Wholes, Bundles
<1>2. CASE ~b.whole
  BY <1>2 DEF Patched
<1> QED
  BY <1>1, <1>2

FaultStep ==
  /\ FaultTypes'
  /\ Fault => faults' = faults + 1 /\ ~clean'
  /\ NoFault => faults' = faults /\ (clean' <=> clean)

LEMMA FaultFacts ==
  ASSUME FaultTypes, Fault \/ NoFault
  PROVE  FaultStep
<1>1. clean' \in BOOLEAN
  BY DEF FaultTypes, Fault, NoFault, faultVars
<1>2. faults' \in 0..MaxFaults
  BY Limits DEF FaultTypes, Fault, NoFault, faultVars
<1>3. Fault => faults' = faults + 1 /\ ~clean'
  BY DEF Fault
<1>4. NoFault => faults' = faults /\ (clean' <=> clean)
  BY DEF NoFault, faultVars
<1> QED
  BY <1>1, <1>2, <1>3, <1>4 DEF FaultTypes, FaultStep

\* What a step of the guard can do to the rest of the system: very little.
GuardStep ==
  /\ GuardTypes' /\ FaultTypes'
  /\ guard \notin Answers
  /\ guard' = "closed" => checked' = "closed" \/ ~clean'
  /\ faults' = faults \/ (faults' = faults + 1 /\ ~clean')
  /\ clean' => clean

LEMMA RunningFacts ==
  ASSUME GuardTypes, FaultTypes, Running
  PROVE  GuardStep
<1>1. FaultTypes' /\ (faults' = faults \/ (faults' = faults + 1 /\ ~clean')) /\ (clean' => clean)
  BY FaultFacts DEF FaultStep, FaultTypes, Fault, NoFault, Running
<1>2. GuardTypes'
  BY DEF GuardTypes, Running, GuardSteps, Answers
<1>3. guard \notin Answers /\ (guard' = "closed" => checked' = "closed" \/ ~clean')
  BY FaultFacts DEF FaultStep, GuardTypes, Running, GuardSteps, Answers
<1> QED
  BY <1>1, <1>2, <1>3 DEF GuardStep

LEMMA ListingFacts ==
  ASSUME GuardTypes, FaultTypes, NEW here \in GuardSteps, NEW next \in GuardSteps \union {"failed"},
         Listing(here, next)
  PROVE  GuardStep
<1>1. FaultTypes' /\ (faults' = faults \/ (faults' = faults + 1 /\ ~clean')) /\ (clean' => clean)
  BY FaultFacts DEF FaultStep, FaultTypes, Fault, NoFault, Listing
<1>2. GuardTypes'
  BY DEF GuardTypes, Listing, GuardSteps, Answers
<1>3. guard \notin Answers /\ (guard' = "closed" => checked' = "closed" \/ ~clean')
  BY FaultFacts DEF FaultStep, GuardTypes, Listing, GuardSteps, Answers
<1> QED
  BY <1>1, <1>2, <1>3 DEF GuardStep

LEMMA RequestQuitFacts ==
  ASSUME GuardTypes, FaultTypes, RequestQuit
  PROVE  GuardStep
<1>1. FaultTypes' /\ (faults' = faults \/ (faults' = faults + 1 /\ ~clean')) /\ (clean' => clean)
  BY FaultFacts DEF FaultStep, FaultTypes, Fault, NoFault, RequestQuit
<1>2. GuardTypes'
  BY DEF GuardTypes, RequestQuit, GuardSteps, Answers
<1>3. guard \notin Answers /\ (guard' = "closed" => checked' = "closed" \/ ~clean')
  BY FaultFacts DEF FaultStep, GuardTypes, RequestQuit, GuardSteps, Answers
<1> QED
  BY <1>1, <1>2, <1>3 DEF GuardStep

LEMMA TerminateFacts ==
  ASSUME GuardTypes, FaultTypes, Terminate
  PROVE  GuardStep
<1>1. FaultTypes' /\ (faults' = faults \/ (faults' = faults + 1 /\ ~clean')) /\ (clean' => clean)
  BY FaultFacts DEF FaultStep, FaultTypes, Fault, NoFault, Terminate
<1>2. GuardTypes'
  BY DEF GuardTypes, Terminate, GuardSteps, Answers
<1>3. guard \notin Answers /\ (guard' = "closed" => checked' = "closed" \/ ~clean')
  BY FaultFacts DEF FaultStep, GuardTypes, Terminate, GuardSteps, Answers
<1> QED
  BY <1>1, <1>2, <1>3 DEF GuardStep

LEMMA KillFacts ==
  ASSUME GuardTypes, FaultTypes, Kill
  PROVE  GuardStep
<1>1. FaultTypes' /\ (faults' = faults \/ (faults' = faults + 1 /\ ~clean')) /\ (clean' => clean)
  BY FaultFacts DEF FaultStep, FaultTypes, Fault, NoFault, Kill
<1>2. GuardTypes'
  BY DEF GuardTypes, Kill, GuardSteps, Answers
<1>3. guard \notin Answers /\ (guard' = "closed" => checked' = "closed" \/ ~clean')
  BY FaultFacts DEF FaultStep, GuardTypes, Kill, GuardSteps, Answers
<1> QED
  BY <1>1, <1>2, <1>3 DEF GuardStep

LEMMA GuardFacts ==
  ASSUME GuardTypes, FaultTypes, Mutate
  PROVE  GuardStep
BY RunningFacts, ListingFacts, RequestQuitFacts, TerminateFacts, KillFacts
   DEF Mutate, EnsureClosed, GuardSteps

LEMMA CheckEndsInv ==
  ASSUME UpgradeInv, CheckEnds
  PROVE  UpgradeInv'
<1> USE DEF UpgradeInv, Types, CheckEnds, Apart, guardVars, fs, runVars
<1>faults. FaultStep
  BY FaultFacts
<1>1. FsTypes' /\ PcTypes' /\ RunTypes'
  BY DEF FsTypes, PcTypes, Prepared, Steps, CommitSteps, Wanted, Asked, AtRest, RunTypes
<1>2. GuardTypes' /\ Fresh'
  BY <1>faults DEF FaultStep, GuardTypes, GuardSteps, PcTypes, Fresh, CommitSteps
<1>3. Vendor'
  BY DEF Vendor, PcTypes, FsTypes, Prepared, CommitSteps, Steps, Wanted, Asked
<1>4. Prepared' /\ Failing' /\ OldGone'
  BY DEF Prepared, Failing, OldGone, CommitSteps, Wanted, Asked, FsTypes, PcTypes, AtRest, Steps
<1>5. Restores'
  BY <1>faults
     DEF FaultStep, Restores, FailureRestores, Failing, OldGone, FsTypes, PcTypes, RunTypes,
         FaultTypes
<1>6. Safe'
  BY <1>faults
     DEF FaultStep, PcTypes, Safe, Sound, Restores, OldGone, Prepared, Wanted, Asked, CommitSteps,
         Steps,
         FsTypes, FaultTypes, RunTypes
<1> QED
  BY <1>faults, <1>1, <1>2, <1>3, <1>4, <1>5, <1>6 DEF FaultStep

LEMMA FetchInv ==
  ASSUME UpgradeInv, NEW v \in Versions, Fetch(v)
  PROVE  UpgradeInv'
<1> USE DEF UpgradeInv, Types, Fetch, Goto, Apart, guardVars, fs, runVars
<1>faults. FaultStep
  BY FaultFacts
<1>1. FsTypes' /\ PcTypes' /\ RunTypes'
  BY DEF FsTypes, PcTypes, Prepared, Steps, CommitSteps, Wanted, Asked, AtRest, RunTypes
<1>2. GuardTypes' /\ Fresh'
  BY <1>faults DEF FaultStep, GuardTypes, GuardSteps, PcTypes, Fresh, CommitSteps
<1>3. Vendor'
  BY DEF Vendor, PcTypes, FsTypes, Prepared, CommitSteps, Steps, Wanted, Asked
<1>4. Prepared' /\ Failing' /\ OldGone'
  BY DEF Prepared, Failing, OldGone, CommitSteps, Wanted, Asked, FsTypes, PcTypes, AtRest, Steps
<1>5. Restores'
  BY <1>faults
     DEF FaultStep, Restores, FailureRestores, Failing, OldGone, FsTypes, PcTypes, RunTypes,
         FaultTypes
<1>6. Safe'
  BY <1>faults
     DEF FaultStep, PcTypes, Safe, Sound, Restores, OldGone, Prepared, Wanted, Asked, CommitSteps,
         Steps,
         FsTypes, FaultTypes, RunTypes
<1> QED
  BY <1>faults, <1>1, <1>2, <1>3, <1>4, <1>5, <1>6 DEF FaultStep

LEMMA HandleCurrentInv ==
  ASSUME UpgradeInv, NEW v \in Versions, HandleCurrentVersion(v)
  PROVE  UpgradeInv'
<1> USE DEF UpgradeInv, Types, HandleCurrentVersion, Goto, Apart, guardVars, fs, runVars
<1>faults. FaultStep
  BY FaultFacts
<1>1. FsTypes' /\ PcTypes' /\ RunTypes'
  BY BundleFacts DEF FsTypes, PcTypes, Prepared, Steps, CommitSteps, Wanted, Asked, AtRest, RunTypes
<1>2. GuardTypes' /\ Fresh'
  BY <1>faults DEF FaultStep, GuardTypes, GuardSteps, PcTypes, Fresh, CommitSteps
<1>3. Vendor'
  BY BundleFacts DEF Vendor, PcTypes, FsTypes, Prepared, CommitSteps, Steps, Wanted, Asked
<1>4. Prepared' /\ Failing' /\ OldGone'
  BY BundleFacts
     DEF Prepared, Failing, OldGone, CommitSteps, Wanted, Asked, FsTypes, PcTypes, AtRest, Steps
<1>5. Restores'
  BY <1>faults, BundleFacts
     DEF FaultStep, Restores, FailureRestores, Failing, OldGone, FsTypes, PcTypes, RunTypes,
         FaultTypes
<1>6. Safe'
  BY <1>faults, BundleFacts
     DEF FaultStep, PcTypes, Safe, Sound, Restores, OldGone, Prepared, Wanted, Asked, CommitSteps,
         Steps,
         FsTypes, FaultTypes, RunTypes
<1> QED
  BY <1>faults, <1>1, <1>2, <1>3, <1>4, <1>5, <1>6 DEF FaultStep

LEMMA DownloadInv ==
  ASSUME UpgradeInv, Download
  PROVE  UpgradeInv'
<1> USE DEF UpgradeInv, Types, Download, Goto, Fail, Apart, guardVars, fs, runVars
<1>faults. FaultStep
  BY FaultFacts
<1>archive. /\ archive' \in Archives
            /\ pc' = "signature" =>
                 archive'.version \in Versions /\ (target # "tauri" => archive'.genuine)
  BY ArchiveFacts DEF PcTypes
<1>1. FsTypes' /\ PcTypes' /\ RunTypes'
  BY <1>archive DEF FsTypes, PcTypes, Prepared, Steps, CommitSteps, Wanted, Asked, AtRest, RunTypes
<1>2. GuardTypes' /\ Fresh'
  BY <1>faults DEF FaultStep, GuardTypes, GuardSteps, PcTypes, Fresh, CommitSteps
<1>3. Vendor'
  BY <1>archive DEF Vendor, PcTypes, FsTypes, Prepared, CommitSteps, Steps, Wanted, Asked
<1>4. Prepared' /\ Failing' /\ OldGone'
  BY <1>archive
     DEF Prepared, Failing, OldGone, CommitSteps, Wanted, Asked, FsTypes, PcTypes, AtRest, Steps
<1>5. Restores'
  BY <1>faults
     DEF FaultStep, Restores, FailureRestores, Failing, OldGone, FsTypes, PcTypes, RunTypes,
         FaultTypes
<1>either. Fault \/ NoFault
  OBVIOUS
<1>rises. faults \in Nat /\ faults' \in Nat /\ faults' >= faults
  <2> HIDE DEF Download
  <2> QED
    BY <1>faults, <1>either DEF FaultStep, FaultTypes
<1>kept. /\ live' = live /\ old' = old /\ crashes' = crashes
         /\ (owned' <=> owned) /\ pc' \in {"signature", "error"}
  OBVIOUS
<1>6. Safe'
  BY <1>rises, <1>kept DEF Safe, Sound
<1> QED
  BY <1>faults, <1>1, <1>2, <1>3, <1>4, <1>5, <1>6 DEF FaultStep

LEMMA VerifyInv ==
  ASSUME UpgradeInv, VerifyArchive
  PROVE  UpgradeInv'
<1> USE DEF UpgradeInv, Types, VerifyArchive, PossibleSignatures, Signatures, VerifyMinisign,
            Goto, Fail, Apart, guardVars, fs, runVars
<1>faults. FaultStep
  BY FaultFacts
<1>1. FsTypes' /\ PcTypes' /\ RunTypes'
  BY DEF FsTypes, PcTypes, Prepared, Steps, CommitSteps, Wanted, Asked, AtRest, RunTypes
<1>2. GuardTypes' /\ Fresh'
  BY <1>faults DEF FaultStep, GuardTypes, GuardSteps, PcTypes, Fresh, CommitSteps
<1>3. Vendor'
  BY DEF Vendor, PcTypes, FsTypes, Prepared, CommitSteps, Steps, Wanted, Asked
<1>4. Prepared' /\ Failing' /\ OldGone'
  BY DEF Prepared, Failing, OldGone, CommitSteps, Wanted, Asked, FsTypes, PcTypes, AtRest, Steps
<1>5. Restores'
  BY <1>faults
     DEF FaultStep, Restores, FailureRestores, Failing, OldGone, FsTypes, PcTypes, RunTypes,
         FaultTypes
<1>6. Safe'
  BY <1>faults
     DEF FaultStep, PcTypes, Safe, Sound, Restores, OldGone, Prepared, Wanted, Asked, CommitSteps,
         Steps,
         FsTypes, FaultTypes, RunTypes
<1> QED
  BY <1>faults, <1>1, <1>2, <1>3, <1>4, <1>5, <1>6 DEF FaultStep

LEMMA ExtractInv ==
  ASSUME UpgradeInv, ExtractArchive
  PROVE  UpgradeInv'
<1> USE DEF UpgradeInv, Types, ExtractArchive, Goto, Fail, Apart, guardVars, fs, runVars
<1>faults. FaultStep
  BY FaultFacts
<1>1. FsTypes' /\ PcTypes' /\ RunTypes'
  BY DEF FsTypes, PcTypes, Prepared, Steps, CommitSteps, Wanted, Asked, AtRest, RunTypes
<1>2. GuardTypes' /\ Fresh'
  BY <1>faults DEF FaultStep, GuardTypes, GuardSteps, PcTypes, Fresh, CommitSteps
<1>3. Vendor'
  BY DEF Vendor, PcTypes, FsTypes, Prepared, CommitSteps, Steps, Wanted, Asked
<1>4. Prepared' /\ Failing' /\ OldGone'
  BY DEF Prepared, Failing, OldGone, CommitSteps, Wanted, Asked, FsTypes, PcTypes, AtRest, Steps
<1>5. Restores'
  BY <1>faults
     DEF FaultStep, Restores, FailureRestores, Failing, OldGone, FsTypes, PcTypes, RunTypes,
         FaultTypes
<1>6. Safe'
  BY <1>faults
     DEF FaultStep, PcTypes, Safe, Sound, Restores, OldGone, Prepared, Wanted, Asked, CommitSteps,
         Steps,
         FsTypes, FaultTypes, RunTypes
<1> QED
  BY <1>faults, <1>1, <1>2, <1>3, <1>4, <1>5, <1>6 DEF FaultStep

LEMMA StageInv ==
  ASSUME UpgradeInv, Stage, UNCHANGED <<runVars, inplace>>
  PROVE  UpgradeInv'
<1> USE DEF UpgradeInv, Types, Stage, Goto, Fail, guardVars, fs, runVars
<1>faults. FaultStep
  BY FaultFacts
<1>genuine. archive.genuine \in BOOLEAN
  BY ArchiveFacts DEF PcTypes
<1>staged. /\ staged' \in Bundles /\ staged'.genuine
           /\ pc' = "prepare" => staged'.whole /\ staged'.version = archive.version
  BY <1>genuine, CleanFacts, BundleFacts DEF Prepared, Vendor, Steps
<1>1. FsTypes' /\ PcTypes' /\ RunTypes'
  BY <1>staged
     DEF FsTypes, PcTypes, Prepared, Steps, CommitSteps, Wanted, Asked, AtRest, RunTypes
<1>2. GuardTypes' /\ Fresh'
  BY <1>faults DEF FaultStep, GuardTypes, GuardSteps, PcTypes, Fresh, CommitSteps
<1>3. Vendor'
  BY <1>staged
     DEF Vendor, PcTypes, FsTypes, Prepared, CommitSteps, Steps, Wanted, Asked
<1>4. Prepared' /\ Failing' /\ OldGone'
  BY <1>staged
     DEF Prepared, Failing, OldGone, CommitSteps, Wanted, Asked, FsTypes, PcTypes, AtRest, Steps
<1>5. Restores'
  BY <1>faults, <1>staged
     DEF FaultStep, Restores, FailureRestores, Failing, OldGone, FsTypes, PcTypes, RunTypes,
         FaultTypes
<1>6. Safe'
  BY <1>faults, <1>staged
     DEF FaultStep, PcTypes, Safe, Sound, Restores, OldGone, Prepared, Wanted, Asked, CommitSteps,
         Steps,
         FsTypes, FaultTypes, RunTypes
<1> QED
  BY <1>faults, <1>1, <1>2, <1>3, <1>4, <1>5, <1>6 DEF FaultStep

LEMMA PrepareInv ==
  ASSUME UpgradeInv, Prepare, UNCHANGED <<runVars, inplace>>
  PROVE  UpgradeInv'
<1> USE DEF UpgradeInv, Types, Prepare, Goto, Fail, Static, guardVars, fs, runVars
<1>faults. FaultStep
  BY FaultFacts
<1>1. FsTypes' /\ PcTypes' /\ RunTypes'
  BY PatchedFacts, WholeFacts, BundleFacts
     DEF FsTypes, PcTypes, Prepared, Steps, CommitSteps, Wanted, Asked, AtRest, RunTypes
<1>2. GuardTypes' /\ Fresh'
  BY <1>faults DEF FaultStep, GuardTypes, GuardSteps, PcTypes, Fresh, CommitSteps
<1>3. Vendor'
  BY PatchedFacts, WholeFacts, BundleFacts
     DEF Vendor, PcTypes, FsTypes, Prepared, CommitSteps, Steps, Wanted, Asked
<1>4. Prepared' /\ Failing' /\ OldGone'
  BY PatchedFacts, WholeFacts, BundleFacts
     DEF Prepared, Failing, OldGone, CommitSteps, Wanted, Asked, FsTypes, PcTypes, AtRest, Steps
<1>5. Restores'
  BY <1>faults, PatchedFacts, WholeFacts, BundleFacts
     DEF FaultStep, Restores, FailureRestores, Failing, OldGone, FsTypes, PcTypes, RunTypes,
         FaultTypes
<1>6. Safe'
  BY <1>faults, PatchedFacts, WholeFacts, BundleFacts
     DEF FaultStep, PcTypes, Safe, Sound, Restores, OldGone, Prepared, Wanted, Asked, CommitSteps,
         Steps,
         FsTypes, FaultTypes, RunTypes
<1> QED
  BY <1>faults, <1>1, <1>2, <1>3, <1>4, <1>5, <1>6 DEF FaultStep

LEMMA PrepareOldInv ==
  ASSUME UpgradeInv, PrepareOld, UNCHANGED <<runVars, inplace>>
  PROVE  UpgradeInv'
<1> USE DEF UpgradeInv, Types, PrepareOld, Removal, Goto, Fail, Static, guardVars, fs, runVars
<1>faults. FaultStep
  BY FaultFacts
<1>1. FsTypes' /\ PcTypes' /\ RunTypes'
  BY WholeFacts, BundleFacts
     DEF FsTypes, PcTypes, Prepared, Steps, CommitSteps, Wanted, Asked, AtRest, RunTypes
<1>2. GuardTypes' /\ Fresh'
  BY <1>faults DEF FaultStep, GuardTypes, GuardSteps, PcTypes, Fresh, CommitSteps
<1>3. Vendor'
  BY WholeFacts, BundleFacts
     DEF Vendor, PcTypes, FsTypes, Prepared, CommitSteps, Steps, Wanted, Asked
<1>4. Prepared' /\ Failing' /\ OldGone'
  BY WholeFacts, BundleFacts
     DEF Prepared, Failing, OldGone, CommitSteps, Wanted, Asked, FsTypes, PcTypes, AtRest, Steps
<1>5. Restores'
  BY <1>faults, WholeFacts, BundleFacts
     DEF FaultStep, Restores, FailureRestores, Failing, OldGone, FsTypes, PcTypes, RunTypes,
         FaultTypes
<1>6. Safe'
  BY <1>faults, WholeFacts, BundleFacts
     DEF FaultStep, PcTypes, Safe, Sound, Restores, OldGone, Prepared, Wanted, Asked, CommitSteps,
         Steps,
         FsTypes, FaultTypes, RunTypes
<1> QED
  BY <1>faults, <1>1, <1>2, <1>3, <1>4, <1>5, <1>6 DEF FaultStep

LEMMA SaveInv ==
  ASSUME UpgradeInv, Save, UNCHANGED <<runVars, inplace>>
  PROVE  UpgradeInv'
<1> USE DEF UpgradeInv, Types, Save, Goto, Fail, Static, guardVars, fs, runVars
<1>faults. FaultStep
  BY FaultFacts
<1>1. FsTypes' /\ PcTypes' /\ RunTypes'
  BY WholeFacts, BundleFacts
     DEF FsTypes, PcTypes, Prepared, Steps, CommitSteps, Wanted, Asked, AtRest, RunTypes
<1>2. GuardTypes' /\ Fresh'
  BY <1>faults DEF FaultStep, GuardTypes, GuardSteps, PcTypes, Fresh, CommitSteps
<1>3. Vendor'
  BY WholeFacts, BundleFacts
     DEF Vendor, PcTypes, FsTypes, Prepared, CommitSteps, Steps, Wanted, Asked
<1>4. Prepared' /\ Failing' /\ OldGone'
  BY WholeFacts, BundleFacts
     DEF Prepared, Failing, OldGone, CommitSteps, Wanted, Asked, FsTypes, PcTypes, AtRest, Steps
<1>5. Restores'
  BY <1>faults, WholeFacts, BundleFacts
     DEF FaultStep, Restores, FailureRestores, Failing, OldGone, FsTypes, PcTypes, RunTypes,
         FaultTypes
<1>6. Safe'
  BY <1>faults, WholeFacts, BundleFacts
     DEF FaultStep, PcTypes, Safe, Sound, Restores, OldGone, Prepared, Wanted, Asked, CommitSteps,
         Steps,
         FsTypes, FaultTypes, RunTypes
<1> QED
  BY <1>faults, <1>1, <1>2, <1>3, <1>4, <1>5, <1>6 DEF FaultStep

LEMMA InstallInv ==
  ASSUME UpgradeInv, Install, UNCHANGED <<runVars, inplace>>
  PROVE  UpgradeInv'
<1> USE DEF UpgradeInv, Types, Install, Goto, Fail, Static, guardVars, fs, runVars
<1>faults. FaultStep
  BY FaultFacts
<1>1. FsTypes' /\ PcTypes' /\ RunTypes'
  BY WholeFacts, BundleFacts
     DEF FsTypes, PcTypes, Prepared, Steps, CommitSteps, Wanted, Asked, AtRest, RunTypes
<1>2. GuardTypes' /\ Fresh'
  BY <1>faults DEF FaultStep, GuardTypes, GuardSteps, PcTypes, Fresh, CommitSteps
<1>3. Vendor'
  BY WholeFacts, BundleFacts
     DEF Vendor, PcTypes, FsTypes, Prepared, CommitSteps, Steps, Wanted, Asked
<1>4. Prepared' /\ Failing' /\ OldGone'
  BY WholeFacts, BundleFacts
     DEF Prepared, Failing, OldGone, CommitSteps, Wanted, Asked, FsTypes, PcTypes, AtRest, Steps
<1>5. Restores'
  BY <1>faults, WholeFacts, BundleFacts
     DEF FaultStep, Restores, FailureRestores, Failing, OldGone, FsTypes, PcTypes, RunTypes,
         FaultTypes
<1>6. Safe'
  BY <1>faults, WholeFacts, BundleFacts
     DEF FaultStep, PcTypes, Safe, Sound, Restores, OldGone, Prepared, Wanted, Asked, CommitSteps,
         Steps,
         FsTypes, FaultTypes, RunTypes
<1> QED
  BY <1>faults, <1>1, <1>2, <1>3, <1>4, <1>5, <1>6 DEF FaultStep

LEMMA RestoreInstallInv ==
  ASSUME UpgradeInv, RestoreInstall, UNCHANGED <<runVars, inplace>>
  PROVE  UpgradeInv'
<1> USE DEF UpgradeInv, Types, RestoreInstall, Goto, Static, guardVars, fs, runVars
<1>faults. FaultStep
  BY FaultFacts
<1>1. FsTypes' /\ PcTypes' /\ RunTypes'
  BY WholeFacts, BundleFacts
     DEF FsTypes, PcTypes, Prepared, Steps, CommitSteps, Wanted, Asked, AtRest, RunTypes
<1>2. GuardTypes' /\ Fresh'
  BY <1>faults DEF FaultStep, GuardTypes, GuardSteps, PcTypes, Fresh, CommitSteps
<1>3. Vendor'
  BY WholeFacts, BundleFacts
     DEF Vendor, PcTypes, FsTypes, Prepared, CommitSteps, Steps, Wanted, Asked
<1>4. Prepared' /\ Failing' /\ OldGone'
  BY WholeFacts, BundleFacts
     DEF Prepared, Failing, OldGone, CommitSteps, Wanted, Asked, FsTypes, PcTypes, AtRest, Steps
<1>5. Restores'
  BY <1>faults, WholeFacts, BundleFacts
     DEF FaultStep, Restores, FailureRestores, Failing, OldGone, FsTypes, PcTypes, RunTypes,
         FaultTypes
<1>6. Safe'
  BY <1>faults, WholeFacts, BundleFacts
     DEF FaultStep, PcTypes, Safe, Sound, Restores, OldGone, Prepared, Wanted, Asked, CommitSteps,
         Steps,
         FsTypes, FaultTypes, RunTypes
<1> QED
  BY <1>faults, <1>1, <1>2, <1>3, <1>4, <1>5, <1>6 DEF FaultStep

LEMMA FinalizeSwapInv ==
  ASSUME UpgradeInv, Verify, UNCHANGED <<runVars, inplace>>
  PROVE  UpgradeInv'
<1> USE DEF UpgradeInv, Types, Verify, Goto, Fail, Static, guardVars, fs, runVars
<1>faults. FaultStep
  BY FaultFacts
<1>known. /\ live.whole /\ live'.whole /\ live'.version = live.version
          /\ live'.real <=> live.real
          /\ pc' = "finish" => live'.sealed
  BY SealedFacts DEF FsTypes, Prepared, Wanted, Asked
<1>1. FsTypes' /\ PcTypes' /\ RunTypes'
  BY SealedFacts, BundleFacts
     DEF FsTypes, PcTypes, Prepared, Steps, CommitSteps, Wanted, Asked, AtRest, RunTypes
<1>2. GuardTypes' /\ Fresh'
  BY <1>faults DEF FaultStep, GuardTypes, GuardSteps, PcTypes, Fresh, CommitSteps
<1>3. Vendor'
  BY SealedFacts, BundleFacts
     DEF Vendor, PcTypes, FsTypes, Prepared, CommitSteps, Steps, Wanted, Asked
<1>4. Prepared' /\ Failing' /\ OldGone'
  BY <1>known
     DEF Prepared, Failing, OldGone, CommitSteps, Wanted, Asked, FsTypes, PcTypes, AtRest, Steps
<1>5. Restores'
  BY <1>faults, SealedFacts, BundleFacts
     DEF FaultStep, Restores, FailureRestores, Failing, OldGone, FsTypes, PcTypes, RunTypes,
         FaultTypes
<1>6. Safe'
  BY <1>known, <1>faults
     DEF FaultStep, PcTypes, Safe, Sound, Restores, OldGone, Prepared, Wanted, Asked, CommitSteps,
         Steps,
         FsTypes, FaultTypes, RunTypes
<1> QED
  BY <1>faults, <1>1, <1>2, <1>3, <1>4, <1>5, <1>6 DEF FaultStep

LEMMA FinishCommitInv ==
  ASSUME UpgradeInv, FinishCommit, UNCHANGED <<runVars, inplace>>
  PROVE  UpgradeInv'
<1> USE DEF UpgradeInv, Types, FinishCommit, Removal, Goto, Fail, Static, guardVars, fs, runVars
<1>faults. FaultStep
  BY FaultFacts
<1>1. FsTypes' /\ PcTypes' /\ RunTypes'
  BY BundleFacts DEF FsTypes, PcTypes, Prepared, Steps, CommitSteps, Wanted, Asked, AtRest, RunTypes
<1>2. GuardTypes' /\ Fresh'
  BY <1>faults DEF FaultStep, GuardTypes, GuardSteps, PcTypes, Fresh, CommitSteps
<1>3. Vendor'
  BY BundleFacts DEF Vendor, PcTypes, FsTypes, Prepared, CommitSteps, Steps, Wanted, Asked
<1>4. Prepared' /\ Failing' /\ OldGone'
  BY BundleFacts
     DEF Prepared, Failing, OldGone, CommitSteps, Wanted, Asked, FsTypes, PcTypes, AtRest, Steps
<1>known. failing' = "error" \/ (pc' = "cleanup" /\ failing' = "no")
  BY DEF Failing, Steps
<1>kept. failing' = "error" => Fault
  BY DEF Failing, Steps, FsTypes
<1>5. Restores'
  BY <1>faults, <1>known, <1>kept DEF FaultStep, Restores, FailureRestores
<1>6. Safe'
  BY <1>faults, BundleFacts
     DEF FaultStep, PcTypes, Safe, Sound, Restores, OldGone, Prepared, Wanted, Asked, CommitSteps,
         Steps,
         FsTypes, FaultTypes, RunTypes
<1> QED
  BY <1>faults, <1>1, <1>2, <1>3, <1>4, <1>5, <1>6 DEF FaultStep

LEMMA MoveBackInv ==
  ASSUME UpgradeInv, MoveBack, UNCHANGED <<runVars, inplace>>
  PROVE  UpgradeInv'
<1> USE DEF UpgradeInv, Types, MoveBack, Goto, Static, guardVars, fs, runVars
<1>faults. FaultStep
  BY FaultFacts
<1>1. FsTypes' /\ PcTypes' /\ RunTypes'
  BY BundleFacts DEF FsTypes, PcTypes, Prepared, Steps, CommitSteps, Wanted, Asked, AtRest, RunTypes
<1>2. GuardTypes' /\ Fresh'
  BY <1>faults DEF FaultStep, GuardTypes, GuardSteps, PcTypes, Fresh, CommitSteps
<1>3. Vendor'
  BY BundleFacts DEF Vendor, PcTypes, FsTypes, Prepared, CommitSteps, Steps, Wanted, Asked
<1>4. Prepared' /\ Failing' /\ OldGone'
  BY BundleFacts
     DEF Prepared, Failing, OldGone, CommitSteps, Wanted, Asked, FsTypes, PcTypes, AtRest, Steps
<1>5. Restores'
  BY <1>faults, BundleFacts
     DEF FaultStep, Restores, FailureRestores, Failing, OldGone, FsTypes, PcTypes, RunTypes,
         FaultTypes
<1>6. Safe'
  BY <1>faults, BundleFacts
     DEF FaultStep, PcTypes, Safe, Sound, Restores, OldGone, Prepared, Wanted, Asked, CommitSteps,
         Steps,
         FsTypes, FaultTypes, RunTypes
<1> QED
  BY <1>faults, <1>1, <1>2, <1>3, <1>4, <1>5, <1>6 DEF FaultStep

LEMMA ClearLiveInv ==
  ASSUME UpgradeInv, ClearLive, UNCHANGED <<runVars, inplace>>
  PROVE  UpgradeInv'
<1> USE DEF UpgradeInv, Types, ClearLive, Removal, Goto, Static, guardVars, fs, runVars
<1>faults. FaultStep
  BY FaultFacts
<1>1. FsTypes' /\ PcTypes' /\ RunTypes'
  BY BundleFacts DEF FsTypes, PcTypes, Prepared, Steps, CommitSteps, Wanted, Asked, AtRest, RunTypes
<1>2. GuardTypes' /\ Fresh'
  BY <1>faults DEF FaultStep, GuardTypes, GuardSteps, PcTypes, Fresh, CommitSteps
<1>3. Vendor'
  BY BundleFacts DEF Vendor, PcTypes, FsTypes, Prepared, CommitSteps, Steps, Wanted, Asked
<1>4. Prepared' /\ Failing' /\ OldGone'
  BY BundleFacts
     DEF Prepared, Failing, OldGone, CommitSteps, Wanted, Asked, FsTypes, PcTypes, AtRest, Steps
<1>5. Restores'
  BY <1>faults, BundleFacts
     DEF FaultStep, Restores, FailureRestores, Failing, OldGone, FsTypes, PcTypes, RunTypes,
         FaultTypes
<1>6. Safe'
  BY <1>faults, BundleFacts
     DEF FaultStep, PcTypes, Safe, Sound, Restores, OldGone, Prepared, Wanted, Asked, CommitSteps,
         Steps,
         FsTypes, FaultTypes, RunTypes
<1> QED
  BY <1>faults, <1>1, <1>2, <1>3, <1>4, <1>5, <1>6 DEF FaultStep

LEMMA RestoreLiveInv ==
  ASSUME UpgradeInv, RestoreLive, UNCHANGED <<runVars, inplace>>
  PROVE  UpgradeInv'
<1> USE DEF UpgradeInv, Types, RestoreLive, Goto, Static, guardVars, fs, runVars
<1>faults. FaultStep
  BY FaultFacts
<1>1. FsTypes' /\ PcTypes' /\ RunTypes'
  BY BundleFacts DEF FsTypes, PcTypes, Prepared, Steps, CommitSteps, Wanted, Asked, AtRest, RunTypes
<1>2. GuardTypes' /\ Fresh'
  BY <1>faults DEF FaultStep, GuardTypes, GuardSteps, PcTypes, Fresh, CommitSteps
<1>3. Vendor'
  BY BundleFacts DEF Vendor, PcTypes, FsTypes, Prepared, CommitSteps, Steps, Wanted, Asked
<1>4. Prepared' /\ Failing' /\ OldGone'
  BY BundleFacts
     DEF Prepared, Failing, OldGone, CommitSteps, Wanted, Asked, FsTypes, PcTypes, AtRest, Steps
<1>5. Restores'
  BY <1>faults, BundleFacts
     DEF FaultStep, Restores, FailureRestores, Failing, OldGone, FsTypes, PcTypes, RunTypes,
         FaultTypes
<1>6. Safe'
  BY <1>faults, BundleFacts
     DEF FaultStep, PcTypes, Safe, Sound, Restores, OldGone, Prepared, Wanted, Asked, CommitSteps,
         Steps,
         FsTypes, FaultTypes, RunTypes
<1> QED
  BY <1>faults, <1>1, <1>2, <1>3, <1>4, <1>5, <1>6 DEF FaultStep

LEMMA CleanupInv ==
  ASSUME UpgradeInv, Cleanup, UNCHANGED <<runVars, inplace>>
  PROVE  UpgradeInv'
<1> USE DEF UpgradeInv, Types, Cleanup, Removal, Static, guardVars, fs, runVars
<1>faults. FaultStep
  BY FaultFacts
<1>1. FsTypes' /\ PcTypes' /\ RunTypes'
  BY BundleFacts DEF FsTypes, PcTypes, Prepared, Steps, CommitSteps, Wanted, Asked, AtRest, RunTypes
<1>2. GuardTypes' /\ Fresh'
  BY <1>faults DEF FaultStep, GuardTypes, GuardSteps, PcTypes, Fresh, CommitSteps
<1>3. Vendor'
  BY BundleFacts DEF Vendor, PcTypes, FsTypes, Prepared, CommitSteps, Steps, Wanted, Asked
<1>4. Prepared' /\ Failing' /\ OldGone'
  BY BundleFacts
     DEF Prepared, Failing, OldGone, CommitSteps, Wanted, Asked, FsTypes, PcTypes, AtRest, Steps
<1>5. Restores'
  BY <1>faults, BundleFacts
     DEF FaultStep, Restores, FailureRestores, Failing, OldGone, FsTypes, PcTypes, RunTypes,
         FaultTypes
<1>6. Safe'
  BY <1>faults, BundleFacts
     DEF FaultStep, PcTypes, Safe, Sound, Restores, OldGone, Prepared, Wanted, Asked, CommitSteps,
         Steps,
         FsTypes, FaultTypes, RunTypes
<1> QED
  BY <1>faults, <1>1, <1>2, <1>3, <1>4, <1>5, <1>6 DEF FaultStep

LEMMA PatchInv ==
  ASSUME UpgradeInv, Patch
  PROVE  UpgradeInv'
<1> USE DEF UpgradeInv, Types, Patch, Goto, Fail, Apart, guardVars, fs, runVars
<1>faults. FaultStep
  BY FaultFacts
<1>1. FsTypes' /\ PcTypes' /\ RunTypes'
  BY VersionsAssumption, PatchedFacts, WholeFacts, BundleFacts
     DEF FsTypes, PcTypes, Prepared, Steps, CommitSteps, Wanted, Asked, AtRest, RunTypes
<1>2. GuardTypes' /\ Fresh'
  BY <1>faults, VersionsAssumption, PatchedFacts, WholeFacts, BundleFacts
     DEF FaultStep, GuardTypes, GuardSteps, PcTypes, Fresh, CommitSteps
<1>3. Vendor'
  BY VersionsAssumption, PatchedFacts, WholeFacts, BundleFacts
     DEF Vendor, PcTypes, FsTypes, Prepared, CommitSteps, Steps, Wanted, Asked
<1>4. Prepared' /\ Failing' /\ OldGone'
  BY VersionsAssumption, PatchedFacts, WholeFacts, BundleFacts
     DEF Prepared, Failing, OldGone, CommitSteps, Wanted, Asked, FsTypes, PcTypes, AtRest, Steps
<1>5. Restores'
  BY <1>faults, VersionsAssumption, PatchedFacts, WholeFacts, BundleFacts
     DEF FaultStep, Restores, FailureRestores, Failing, OldGone, FsTypes, PcTypes, RunTypes,
         FaultTypes
<1>6. Safe'
  BY <1>faults, VersionsAssumption, PatchedFacts, WholeFacts, BundleFacts
     DEF FaultStep, PcTypes, Safe, Sound, Restores, OldGone, Prepared, Wanted, Asked, CommitSteps,
         Steps,
         FsTypes, FaultTypes, RunTypes
<1> QED
  BY <1>faults, <1>1, <1>2, <1>3, <1>4, <1>5, <1>6 DEF FaultStep

LEMMA FinalizeInv ==
  ASSUME UpgradeInv, Finalize
  PROVE  UpgradeInv'
<1> USE DEF UpgradeInv, Types, Finalize, Goto, Fail, Apart, guardVars, fs, runVars
<1>faults. FaultStep
  BY FaultFacts
<1>known. /\ live.whole /\ live'.whole /\ live'.version = live.version
          /\ live'.real <=> live.real
          /\ pc' = "ok" => live'.sealed
  BY SealedFacts DEF FsTypes, Prepared, Wanted, Asked
<1>1. FsTypes' /\ PcTypes' /\ RunTypes'
  BY SealedFacts, BundleFacts
     DEF FsTypes, PcTypes, Prepared, Steps, CommitSteps, Wanted, Asked, AtRest, RunTypes
<1>2. GuardTypes' /\ Fresh'
  BY <1>faults DEF FaultStep, GuardTypes, GuardSteps, PcTypes, Fresh, CommitSteps
<1>3. Vendor'
  BY SealedFacts, BundleFacts
     DEF Vendor, PcTypes, FsTypes, Prepared, CommitSteps, Steps, Wanted, Asked
<1>4. Prepared' /\ Failing' /\ OldGone'
  BY <1>known
     DEF Prepared, Failing, OldGone, CommitSteps, Wanted, Asked, FsTypes, PcTypes, AtRest, Steps
<1>5. Restores'
  BY <1>faults, SealedFacts, BundleFacts
     DEF FaultStep, Restores, FailureRestores, Failing, OldGone, FsTypes, PcTypes, RunTypes,
         FaultTypes
<1>6. Safe'
  BY <1>known, <1>faults
     DEF FaultStep, PcTypes, Safe, Sound, Restores, OldGone, Prepared, Wanted, Asked, CommitSteps,
         Steps,
         FsTypes, FaultTypes, RunTypes
<1> QED
  BY <1>faults, <1>1, <1>2, <1>3, <1>4, <1>5, <1>6 DEF FaultStep

\* A step of the guard, wherever it is asked.
LEMMA GuardInv ==
  ASSUME UpgradeInv, Mutate, pc \in {"guard", "precommit", "patchguard", "idle"},
         UNCHANGED <<fs, archive, target, pc, want, had, failing, runVars, inplace>>
  PROVE  UpgradeInv'
<1> USE DEF UpgradeInv, Types, guardVars, fs, runVars
<1>faults. GuardStep
  BY GuardFacts
<1>1. FsTypes' /\ PcTypes' /\ RunTypes'
  BY DEF FsTypes, PcTypes, Prepared, Steps, CommitSteps, Wanted, Asked, AtRest, RunTypes
<1>2. GuardTypes' /\ Fresh'
  BY <1>faults DEF GuardStep, GuardTypes, GuardSteps, PcTypes, Fresh, CommitSteps
<1>3. Vendor'
  BY DEF Vendor, PcTypes, FsTypes, Prepared, CommitSteps, Steps, Wanted, Asked
<1>4. Prepared' /\ Failing' /\ OldGone'
  BY DEF Prepared, Failing, OldGone, CommitSteps, Wanted, Asked, FsTypes, PcTypes, AtRest, Steps
<1>5. Restores'
  BY <1>faults
     DEF GuardStep, Restores, FailureRestores, Failing, OldGone, FsTypes, PcTypes, RunTypes,
         FaultTypes
<1>6. Safe'
  BY <1>faults
     DEF GuardStep, PcTypes, Safe, Sound, Restores, OldGone, Prepared, Wanted, Asked, CommitSteps,
         Steps,
         FsTypes, FaultTypes, RunTypes
<1> QED
  BY <1>faults, <1>1, <1>2, <1>3, <1>4, <1>5, <1>6 DEF GuardStep

\* Its answer to each of those that ask.
LEMMA GuardAnswerInv ==
  ASSUME UpgradeInv, Guarded("guard", "stage", "cleanup"), ~Mutate,
         UNCHANGED <<runVars, inplace>>
  PROVE  UpgradeInv'
<1> USE DEF UpgradeInv, Types, Guarded, Goto, Fail, faultVars, Answers, guardVars, fs, runVars
<1>known. guard' = "list" /\ UNCHANGED <<procs, policy, listed, checked, faults, clean>>
  OBVIOUS
<1>faults. FaultTypes' /\ faults' = faults /\ (clean' <=> clean)
  BY <1>known DEF FaultTypes
<1>1. FsTypes' /\ PcTypes' /\ RunTypes'
  BY DEF FsTypes, PcTypes, Prepared, Steps, CommitSteps, Wanted, Asked, AtRest, RunTypes
<1>2. GuardTypes' /\ Fresh'
  BY <1>faults, <1>known DEF GuardTypes, GuardSteps, PcTypes, Fresh, CommitSteps
<1>3. Vendor'
  BY DEF Vendor, PcTypes, FsTypes, Prepared, CommitSteps, Steps, Wanted, Asked
<1>4. Prepared' /\ Failing' /\ OldGone'
  BY DEF Prepared, Failing, OldGone, CommitSteps, Wanted, Asked, FsTypes, PcTypes, AtRest, Steps
<1>5. Restores'
  BY <1>faults
     DEF Restores, FailureRestores, Failing, OldGone, FsTypes, PcTypes, RunTypes, FaultTypes
<1>6. Safe'
  BY <1>faults
     DEF PcTypes, Safe, Sound, Restores, OldGone, Prepared, Wanted, Asked, CommitSteps, Steps,
         FsTypes,
         FaultTypes, RunTypes
<1> QED
  BY <1>faults, <1>1, <1>2, <1>3, <1>4, <1>5, <1>6

LEMMA PreCommitAnswerInv ==
  ASSUME UpgradeInv, Guarded("precommit", "prepareold", "cleanup"), ~Mutate,
         UNCHANGED <<runVars, inplace>>
  PROVE  UpgradeInv'
<1> USE DEF UpgradeInv, Types, Guarded, Goto, Fail, faultVars, Answers, guardVars, fs, runVars
<1>known. guard' = "list" /\ UNCHANGED <<procs, policy, listed, checked, faults, clean>>
  OBVIOUS
<1>faults. FaultTypes' /\ faults' = faults /\ (clean' <=> clean)
  BY <1>known DEF FaultTypes
<1>1. FsTypes' /\ PcTypes' /\ RunTypes'
  BY DEF FsTypes, PcTypes, Prepared, Steps, CommitSteps, Wanted, Asked, AtRest, RunTypes
<1>2. GuardTypes' /\ Fresh'
  BY <1>faults, <1>known DEF GuardTypes, GuardSteps, PcTypes, Fresh, CommitSteps
<1>3. Vendor'
  BY DEF Vendor, PcTypes, FsTypes, Prepared, CommitSteps, Steps, Wanted, Asked
<1>4. Prepared' /\ Failing' /\ OldGone'
  BY DEF Prepared, Failing, OldGone, CommitSteps, Wanted, Asked, FsTypes, PcTypes, AtRest, Steps
<1>5. Restores'
  BY <1>faults
     DEF Restores, FailureRestores, Failing, OldGone, FsTypes, PcTypes, RunTypes, FaultTypes
<1>6. Safe'
  BY <1>faults
     DEF PcTypes, Safe, Sound, Restores, OldGone, Prepared, Wanted, Asked, CommitSteps, Steps,
         FsTypes,
         FaultTypes, RunTypes
<1> QED
  BY <1>faults, <1>1, <1>2, <1>3, <1>4, <1>5, <1>6

LEMMA PatchGuardAnswerInv ==
  ASSUME UpgradeInv, ~Mutate,
         Guarded("patchguard", "patch", IF guard = "running" THEN "deferred" ELSE "error"),
         UNCHANGED <<runVars, inplace>>
  PROVE  UpgradeInv'
<1> USE DEF UpgradeInv, Types, Guarded, Goto, Fail, faultVars, Answers, guardVars, fs, runVars
<1>known. guard' = "list" /\ UNCHANGED <<procs, policy, listed, checked, faults, clean>>
  OBVIOUS
<1>faults. FaultTypes' /\ faults' = faults /\ (clean' <=> clean)
  BY <1>known DEF FaultTypes
<1>1. FsTypes' /\ PcTypes' /\ RunTypes'
  BY DEF FsTypes, PcTypes, Prepared, Steps, CommitSteps, Wanted, Asked, AtRest, RunTypes
<1>2. GuardTypes' /\ Fresh'
  BY <1>faults, <1>known DEF GuardTypes, GuardSteps, PcTypes, Fresh, CommitSteps
<1>3. Vendor'
  BY DEF Vendor, PcTypes, FsTypes, Prepared, CommitSteps, Steps, Wanted, Asked
<1>4. Prepared' /\ Failing' /\ OldGone'
  BY DEF Prepared, Failing, OldGone, CommitSteps, Wanted, Asked, FsTypes, PcTypes, AtRest, Steps
<1>5. Restores'
  BY <1>faults
     DEF Restores, FailureRestores, Failing, OldGone, FsTypes, PcTypes, RunTypes, FaultTypes
<1>6. Safe'
  BY <1>faults
     DEF PcTypes, Safe, Sound, Restores, OldGone, Prepared, Wanted, Asked, CommitSteps, Steps,
         FsTypes,
         FaultTypes, RunTypes
<1> QED
  BY <1>faults, <1>1, <1>2, <1>3, <1>4, <1>5, <1>6

LEMMA BeginInv ==
  ASSUME UpgradeInv, NEW p \in {"defer", "close"}, Begin(p)
  PROVE  UpgradeInv'
<1> USE DEF UpgradeInv, Types, Begin, guardVars, fs, runVars
<1>faults. FaultTypes' /\ faults' = faults
  BY DEF FaultTypes
<1>known. attempts' \in 0..MaxAttempts
  BY Limits DEF RunTypes
<1>1. FsTypes' /\ PcTypes' /\ RunTypes'
  BY <1>known, ArchiveFacts
     DEF FsTypes, PcTypes, Prepared, Steps, CommitSteps, Wanted, Asked, AtRest, RunTypes
<1>2. GuardTypes' /\ Fresh'
  BY <1>faults DEF GuardTypes, GuardSteps, PcTypes, Fresh, CommitSteps
<1>3. Vendor'
  BY DEF Vendor, PcTypes, FsTypes, Prepared, CommitSteps, Steps, Wanted, Asked
<1>4. Prepared' /\ Failing' /\ OldGone'
  BY DEF Prepared, Failing, OldGone, CommitSteps, Wanted, Asked, FsTypes, PcTypes, AtRest, Steps
<1>5. Restores'
  BY <1>faults
     DEF Restores, FailureRestores, Failing, OldGone, FsTypes, PcTypes, RunTypes, FaultTypes
<1>6. Safe'
  BY <1>faults
     DEF PcTypes, Safe, Sound, Restores, OldGone, Prepared, Wanted, Asked, CommitSteps, Steps,
         FsTypes,
         FaultTypes, RunTypes
<1> QED
  BY <1>faults, <1>1, <1>2, <1>3, <1>4, <1>5, <1>6

LEMMA UserInv ==
  ASSUME UpgradeInv, AppActs(live.whole),
         UNCHANGED <<fs, archive, target, pc, want, had, failing, runVars, inplace>>
  PROVE  UpgradeInv'
<1> USE DEF UpgradeInv, Types, AppActs, faultVars, guardVars, fs, runVars
<1>faults. FaultTypes' /\ faults' = faults /\ (clean' <=> clean)
  BY DEF FaultTypes
<1>1. FsTypes' /\ PcTypes' /\ RunTypes'
  BY DEF FsTypes, PcTypes, Prepared, Steps, CommitSteps, Wanted, Asked, AtRest, RunTypes
<1>2. GuardTypes' /\ Fresh'
  BY <1>faults DEF GuardTypes, GuardSteps, PcTypes, Fresh, CommitSteps
<1>3. Vendor'
  BY DEF Vendor, PcTypes, FsTypes, Prepared, CommitSteps, Steps, Wanted, Asked
<1>4. Prepared' /\ Failing' /\ OldGone'
  BY DEF Prepared, Failing, OldGone, CommitSteps, Wanted, Asked, FsTypes, PcTypes, AtRest, Steps
<1>5. Restores'
  BY <1>faults
     DEF Restores, FailureRestores, Failing, OldGone, FsTypes, PcTypes, RunTypes, FaultTypes
<1>6. Safe'
  BY <1>faults
     DEF PcTypes, Safe, Sound, Restores, OldGone, Prepared, Wanted, Asked, CommitSteps, Steps,
         FsTypes,
         FaultTypes, RunTypes
<1> QED
  BY <1>faults, <1>1, <1>2, <1>3, <1>4, <1>5, <1>6

LEMMA CrashInv ==
  ASSUME UpgradeInv, Crash
  PROVE  UpgradeInv'
<1> USE DEF UpgradeInv, Types, Crash, faultVars, HalfRemoved, guardVars, fs, runVars
<1>faults. FaultTypes' /\ faults' = faults /\ (clean' <=> clean)
  BY DEF FaultTypes
<1>known. crashes' = crashes + 1 /\ crashes' \in 0..MaxCrashes
  BY Limits DEF RunTypes
<1>1. FsTypes' /\ PcTypes' /\ RunTypes'
  BY PatchedFacts, WholeFacts, BundleFacts, ArchiveFacts, <1>known
     DEF FsTypes, PcTypes, Prepared, Steps, CommitSteps, Wanted, Asked, AtRest, RunTypes
<1>2. GuardTypes' /\ Fresh'
  BY <1>faults DEF GuardTypes, GuardSteps, PcTypes, Fresh, CommitSteps
<1>3. Vendor'
  BY PatchedFacts, WholeFacts, BundleFacts
     DEF Vendor, PcTypes, FsTypes, Prepared, CommitSteps, Steps, Wanted, Asked
<1>4. Prepared' /\ Failing' /\ OldGone'
  BY PatchedFacts, WholeFacts, BundleFacts
     DEF Prepared, Failing, OldGone, CommitSteps, Wanted, Asked, FsTypes, PcTypes, AtRest, Steps
<1>5. Restores'
  BY <1>faults, PatchedFacts, WholeFacts, BundleFacts
     DEF Restores, FailureRestores, Failing, OldGone, FsTypes, PcTypes, RunTypes, FaultTypes
<1>6. Safe'
  BY <1>faults, <1>known, PatchedFacts, WholeFacts, BundleFacts
     DEF PcTypes, Safe, Sound, Restores, OldGone, Prepared, Wanted, Asked, CommitSteps, Steps,
         FsTypes,
         FaultTypes, RunTypes
<1> QED
  BY <1>faults, <1>1, <1>2, <1>3, <1>4, <1>5, <1>6

LEMMA GuardedInv ==
  ASSUME UpgradeInv, Guard \/ PreCommit \/ PatchGuard, UNCHANGED <<runVars, inplace>>
  PROVE  UpgradeInv'
<1> USE DEF UpgradeInv, Types
<1>1. CASE Mutate
  <2>1. guard \notin Answers
    BY <1>1, GuardFacts DEF GuardStep
  <2>2. /\ pc \in {"guard", "precommit", "patchguard", "idle"}
        /\ UNCHANGED <<fs, archive, target, pc, want, had, failing>>
    BY <2>1 DEF Guard, PreCommit, PatchGuard, Guarded
  <2> QED
    BY <1>1, <2>2, GuardInv
<1>2. CASE ~Mutate
  BY <1>2, GuardAnswerInv, PreCommitAnswerInv, PatchGuardAnswerInv
     DEF Guard, PreCommit, PatchGuard
<1> QED
  BY <1>1, <1>2

LEMMA StillInv ==
  ASSUME UpgradeInv, Still, Fault \/ NoFault
  PROVE  UpgradeInv'
<1> USE DEF UpgradeInv, Types, Still, guardVars, fs, runVars
<1>faults. FaultStep
  BY FaultFacts
<1>1. FsTypes' /\ PcTypes' /\ RunTypes'
  BY DEF FsTypes, PcTypes, Prepared, Steps, CommitSteps, Wanted, Asked, AtRest, RunTypes
<1>2. GuardTypes' /\ Fresh'
  BY <1>faults DEF FaultStep, GuardTypes, GuardSteps, PcTypes, Fresh, CommitSteps
<1>3. Vendor'
  BY DEF Vendor, PcTypes, FsTypes, Prepared, CommitSteps, Steps, Wanted, Asked
<1>4. Prepared' /\ Failing' /\ OldGone'
  BY DEF Prepared, Failing, OldGone, CommitSteps, Wanted, Asked, FsTypes, PcTypes, AtRest, Steps
<1>5. Restores'
  BY <1>faults
     DEF FaultStep, Restores, FailureRestores, Failing, OldGone, FsTypes, PcTypes, RunTypes,
         FaultTypes
<1>6. Safe'
  BY <1>faults
     DEF FaultStep, PcTypes, Safe, Sound, Restores, OldGone, Prepared, Wanted, Asked, CommitSteps,
         Steps,
         FsTypes, FaultTypes, RunTypes
<1> QED
  BY <1>faults, <1>1, <1>2, <1>3, <1>4, <1>5, <1>6 DEF FaultStep

LEMMA UpgradeNextInv ==
  ASSUME UpgradeInv, Next
  PROVE  UpgradeInv'
<1>1. CASE \E p \in {"defer", "close"} : Begin(p)
  BY <1>1, BeginInv
<1>2. CASE StagedUpgrade
  BY <1>2, GuardedInv, StageInv, PrepareInv, PrepareOldInv, SaveInv, InstallInv,
     RestoreInstallInv, FinalizeSwapInv, FinishCommitInv, MoveBackInv, ClearLiveInv, RestoreLiveInv,
     CleanupInv
     DEF StagedUpgrade, Swap
<1>3. CASE Run /\ ~StagedUpgrade
  BY <1>3, CheckEndsInv, FetchInv, HandleCurrentInv, DownloadInv, VerifyInv, ExtractInv, GuardedInv,
     PatchInv, FinalizeInv
     DEF Run, PatchGuard
<1>4. CASE User
  BY <1>4, UserInv DEF User
<1>5. CASE Crash
  BY <1>5, CrashInv
<1> QED
  BY <1>1, <1>2, <1>3, <1>4, <1>5 DEF Next

-----------------------------------------------------------------------------
(* Resets.                                                                     *)

LEMMA BeginResetInv ==
  ASSUME UpgradeInv, NEW p \in {"defer", "close"}, BeginReset(p)
  PROVE  UpgradeInv'
<1> USE DEF UpgradeInv, Types, BeginReset, guardVars, fs, runVars
<1>faults. FaultTypes' /\ faults' = faults
  BY DEF FaultTypes
<1>known. attempts' \in 0..MaxAttempts
  BY Limits DEF RunTypes
<1>1. FsTypes' /\ PcTypes' /\ RunTypes'
  BY <1>known, ArchiveFacts
     DEF FsTypes, PcTypes, Prepared, Steps, CommitSteps, Wanted, Asked, AtRest, RunTypes
<1>2. GuardTypes' /\ Fresh'
  BY <1>faults DEF GuardTypes, GuardSteps, PcTypes, Fresh, CommitSteps
<1>3. Vendor'
  BY DEF Vendor, PcTypes, FsTypes, Prepared, CommitSteps, Steps, Wanted, Asked
<1>4. Prepared' /\ Failing' /\ OldGone'
  BY DEF Prepared, Failing, OldGone, CommitSteps, Wanted, Asked, FsTypes, PcTypes, AtRest, Steps
<1>5. Restores'
  BY <1>faults
     DEF Restores, FailureRestores, Failing, OldGone, FsTypes, PcTypes, RunTypes, FaultTypes
<1>6. Safe'
  BY <1>faults
     DEF PcTypes, Safe, Sound, Restores, OldGone, Prepared, Wanted, Asked, CommitSteps, Steps,
         FsTypes,
         FaultTypes, RunTypes
<1> QED
  BY <1>faults, <1>1, <1>2, <1>3, <1>4, <1>5, <1>6

LEMMA ResetGuardAnswerInv ==
  ASSUME UpgradeInv, pc = "idle", ~Mutate, ResetGuard
  PROVE  UpgradeInv'
<1> USE DEF UpgradeInv, Types, ResetGuard, faultVars, guardVars, fs, runVars
<1>known. guard' = "list" /\ UNCHANGED <<procs, policy, listed, checked, faults, clean>>
  OBVIOUS
<1>faults. FaultTypes' /\ faults' = faults /\ (clean' <=> clean)
  BY <1>known DEF FaultTypes
<1>1. FsTypes' /\ PcTypes' /\ RunTypes'
  BY DEF FsTypes, PcTypes, Prepared, Steps, CommitSteps, Wanted, Asked, AtRest, RunTypes
<1>2. GuardTypes' /\ Fresh'
  BY <1>faults, <1>known DEF GuardTypes, GuardSteps, PcTypes, Fresh, CommitSteps
<1>3. Vendor'
  BY DEF Vendor, PcTypes, FsTypes, Prepared, CommitSteps, Steps, Wanted, Asked
<1>4. Prepared' /\ Failing' /\ OldGone'
  BY DEF Prepared, Failing, OldGone, CommitSteps, Wanted, Asked, FsTypes, PcTypes, AtRest, Steps
<1>5. Restores'
  BY <1>faults
     DEF Restores, FailureRestores, Failing, OldGone, FsTypes, PcTypes, RunTypes, FaultTypes
<1>6. Safe'
  BY <1>faults
     DEF PcTypes, Safe, Sound, Restores, OldGone, Prepared, Wanted, Asked, CommitSteps, Steps,
         FsTypes,
         FaultTypes, RunTypes
<1> QED
  BY <1>faults, <1>1, <1>2, <1>3, <1>4, <1>5, <1>6

LEMMA RemoveBundleInv ==
  ASSUME UpgradeInv, pc = "idle", RemoveBundle
  PROVE  UpgradeInv'
<1> USE DEF UpgradeInv, Types, RemoveBundle, Removal, guardVars, fs, runVars
<1>faults. FaultStep
  BY FaultFacts
<1>1. FsTypes' /\ PcTypes' /\ RunTypes'
  BY BundleFacts DEF FsTypes, PcTypes, Prepared, Steps, CommitSteps, Wanted, Asked, AtRest, RunTypes
<1>2. GuardTypes' /\ Fresh'
  BY <1>faults DEF FaultStep, GuardTypes, GuardSteps, PcTypes, Fresh, CommitSteps
<1>3. Vendor'
  BY BundleFacts DEF Vendor, PcTypes, FsTypes, Prepared, CommitSteps, Steps, Wanted, Asked
<1>4. Prepared' /\ Failing' /\ OldGone'
  BY BundleFacts
     DEF Prepared, Failing, OldGone, CommitSteps, Wanted, Asked, FsTypes, PcTypes, AtRest, Steps
<1>5. Restores'
  BY <1>faults, BundleFacts
     DEF FaultStep, Restores, FailureRestores, Failing, OldGone, FsTypes, PcTypes, RunTypes,
         FaultTypes
<1>6. Safe'
  BY <1>faults, BundleFacts
     DEF FaultStep, PcTypes, Safe, Sound, Restores, OldGone, Prepared, Wanted, Asked, CommitSteps,
         Steps,
         FsTypes, FaultTypes, RunTypes
<1> QED
  BY <1>faults, <1>1, <1>2, <1>3, <1>4, <1>5, <1>6 DEF FaultStep

LEMMA CrashResetInv ==
  ASSUME UpgradeInv, pc = "idle", CrashReset
  PROVE  UpgradeInv'
<1> USE DEF UpgradeInv, Types, CrashReset, HalfRemoved, guardVars, faultVars, guardVars, fs,
            runVars
<1>faults. FaultTypes' /\ faults' = faults /\ (clean' <=> clean)
  BY DEF FaultTypes
<1>known. crashes' = crashes + 1 /\ crashes' \in 0..MaxCrashes
  BY Limits DEF RunTypes
<1>1. FsTypes' /\ PcTypes' /\ RunTypes'
  BY BundleFacts, <1>known
     DEF FsTypes, PcTypes, Prepared, Steps, CommitSteps, Wanted, Asked, AtRest, RunTypes
<1>2. GuardTypes' /\ Fresh'
  BY <1>faults DEF GuardTypes, GuardSteps, PcTypes, Fresh, CommitSteps
<1>3. Vendor'
  BY BundleFacts DEF Vendor, PcTypes, FsTypes, Prepared, CommitSteps, Steps, Wanted, Asked
<1>4. Prepared' /\ Failing' /\ OldGone'
  BY BundleFacts
     DEF Prepared, Failing, OldGone, CommitSteps, Wanted, Asked, FsTypes, PcTypes, AtRest, Steps
<1>5. Restores'
  BY <1>faults, BundleFacts
     DEF Restores, FailureRestores, Failing, OldGone, FsTypes, PcTypes, RunTypes, FaultTypes
<1>kept. owned' => owned /\ live' = live /\ old' = old
  OBVIOUS
<1>6. Safe'
  BY <1>faults, <1>known, <1>kept
     DEF PcTypes, Safe, Sound, Restores, OldGone, Prepared, Wanted, Asked, CommitSteps, Steps,
         FsTypes,
         FaultTypes, RunTypes
<1> QED
  BY <1>faults, <1>1, <1>2, <1>3, <1>4, <1>5, <1>6


-----------------------------------------------------------------------------
(* The whole of it.                                                            *)

LEMMA ResetInitInv ==
  ASSUME ResetInit
  PROVE  Inv
<1>1. \A v \in Versions :
        Clean(v, TRUE) \in Bundles /\ Clean(v, TRUE).whole /\ Clean(v, TRUE).genuine
  BY CleanFacts
<1>2. FsTypes /\ Vendor
  BY <1>1, BundleFacts DEF FsTypes, Vendor, ResetInit, Init, SwapInit
<1>3. GuardTypes /\ FaultTypes
  BY Limits DEF GuardTypes, GuardSteps, FaultTypes, ResetInit, Init, SwapInit, GuardInit
<1>4. PcTypes /\ RunTypes
  <2>1. owned \in BOOLEAN
    BY DEF ResetInit, Init
  <2>2. had \in BOOLEAN /\ inplace \in BOOLEAN
    BY DEF ResetInit, Init, SwapInit
  <2>3. attempts \in 0..MaxAttempts /\ crashes \in 0..MaxCrashes
    BY Limits DEF ResetInit, Init
  <2>4. PcTypes
    BY ArchiveFacts DEF PcTypes, AtRest, ResetInit, Init, SwapInit
  <2> QED
    BY <2>1, <2>2, <2>3, <2>4 DEF RunTypes
<1>5. Fresh /\ Prepared /\ Failing /\ OldGone
  BY DEF Fresh, Prepared, Failing, OldGone, CommitSteps, Steps, ResetInit, Init, SwapInit,
         GuardInit
<1>6. Restores
  BY DEF Restores, FailureRestores, ResetInit, Init, SwapInit
<1>7. Safe
  BY <1>1 DEF Safe, Sound, ResetInit, Init, SwapInit
<1>8. ResetTypes /\ Cleared /\ Tracked
  BY <1>1 DEF ResetTypes, Cleared, Tracked, ResetSteps, Resting, Traces, ResetInit, Init, SwapInit
<1> QED
  BY <1>2, <1>3, <1>4, <1>5, <1>6, <1>7, <1>8 DEF Inv, UpgradeInv, Types

LEMMA UpgradeStepsInv ==
  ASSUME Inv, UpgradeSteps
  PROVE  Inv'
<1> USE DEF Inv, UpgradeSteps
<1>1. UpgradeInv'
  BY UpgradeNextInv DEF Next
<1>2. left' \subseteq Traces
  BY DEF ResetTypes, Leaves, Extension, Traces
<1>3. ResetTypes' /\ Cleared' /\ Tracked'
  BY <1>2 DEF ResetTypes, Cleared, Tracked, ResetSteps, Resting
<1> QED
  BY <1>1, <1>3

LEMMA BeginResetPart ==
  ASSUME Inv, NEW p \in {"defer", "close"}, BeginReset(p)
  PROVE  Inv'
<1> USE DEF Inv, BeginReset
<1>1. UpgradeInv'
  BY BeginResetInv
<1>2. live.whole \in BOOLEAN
  BY WholeFacts DEF UpgradeInv, Types, FsTypes
<1>3. ResetTypes' /\ Cleared' /\ Tracked'
  BY <1>2 DEF ResetTypes, Cleared, Tracked, ResetSteps, Resting, fs
<1> QED
  BY <1>1, <1>3

LEMMA ResetGuardPart ==
  ASSUME Inv, ResetGuard
  PROVE  Inv'
<1> USE DEF Inv
<1>1. pc = "idle"
  BY DEF ResetGuard, Cleared, ResetSteps
<1>2. UpgradeInv' /\ faults' >= faults
  <2>1. CASE Mutate
    <3>1. guard \notin Answers /\ faults' >= faults
      BY <2>1, GuardFacts DEF GuardStep, UpgradeInv, Types, FaultTypes
    <3>2. UNCHANGED <<fs, archive, target, pc, want, had, failing, runVars, inplace>>
      BY DEF ResetGuard
    <3> QED
      BY <1>1, <2>1, <3>1, <3>2, GuardInv
  <2>2. CASE ~Mutate
    BY <1>1, <2>2, ResetGuardAnswerInv DEF ResetGuard, faultVars, UpgradeInv, Types, FaultTypes
  <2> QED
    BY <2>1, <2>2
<1>3. ResetTypes' /\ Cleared' /\ Tracked'
  BY <1>2
     DEF ResetGuard, ResetTypes, Cleared, Tracked, ResetSteps, Resting, fs, UpgradeInv, Types,
         FaultTypes
<1> QED
  BY <1>2, <1>3

\* The steps of a reset outside the bundle.
LEMMA PlanPart ==
  ASSUME Inv, DeleteTCCRows \/ VerifyNoTCCRows \/ RemoveStaging \/ RemoveExtension \/ RestoreTee
               \/ RemovePatchState
  PROVE  Inv'
<1>1. Still /\ (Fault \/ NoFault)
  BY DEF DeleteTCCRows, VerifyNoTCCRows, RemoveStaging, RemoveExtension, RestoreTee,
         RemovePatchState, To, Stops
<1>2. UpgradeInv'
  BY <1>1, StillInv DEF Inv
<1>3. /\ live' = live /\ pc' = pc
      /\ faults \in Nat /\ faults' \in Nat /\ faults' >= faults /\ (Fault => faults' = faults + 1)
  <2>1. FaultStep
    BY <1>1, FaultFacts DEF Inv, UpgradeInv, Types
  <2>2. faults \in Nat /\ faults' \in Nat /\ faults' >= faults /\ (Fault => faults' = faults + 1)
    BY <1>1, <2>1 DEF FaultStep, Inv, UpgradeInv, Types, FaultTypes
  <2> QED
    BY <1>1, <2>2 DEF Still, fs
<1>4. tracked' = tracked
  BY DEF DeleteTCCRows, VerifyNoTCCRows, RemoveStaging, RemoveExtension, RestoreTee,
         RemovePatchState
<1>5. CASE DeleteTCCRows
  <2>1. ResetTypes' /\ Cleared'
    BY <1>3, <1>5 DEF DeleteTCCRows, To, Stops, Inv, ResetTypes, Cleared, ResetSteps, Resting
  <2>2. grants' => grants
    BY <1>5 DEF DeleteTCCRows
  <2>3. reset' = "verify" \/ reset' = "none"
    BY <1>5 DEF DeleteTCCRows, To, Stops
  <2>4. tracked /\ faults < 2 => (grants => live.whole)
    BY DEF Inv, Tracked
  <2>5. reset' = "verify" /\ tracked /\ faults < 2 /\ grants' => faults' = faults + 1
    BY <1>3, <1>5, <2>4 DEF DeleteTCCRows, To, Stops
  <2>6. Tracked'
    BY <1>3, <1>4, <2>2, <2>3, <2>4, <2>5 DEF Tracked
  <2> QED
    BY <1>2, <2>1, <2>6 DEF Inv
<1>6. CASE VerifyNoTCCRows
  <2>1. ResetTypes' /\ Cleared'
    BY <1>3, <1>6 DEF VerifyNoTCCRows, To, Inv, ResetTypes, Cleared, ResetSteps, Resting
  <2>2. (grants' <=> grants) /\ (reset' = "staging" \/ reset' = "none")
    BY <1>6 DEF VerifyNoTCCRows, To
  <2>3. reset' = "staging" /\ tracked /\ faults' < 2 => ~grants
    BY <1>3, <1>6 DEF VerifyNoTCCRows, To, Inv, Tracked
  <2>4. tracked /\ faults < 2 => (grants => live.whole)
    BY DEF Inv, Tracked
  <2>5. Tracked'
    BY <1>3, <1>4, <2>2, <2>3, <2>4 DEF Tracked
  <2> QED
    BY <1>2, <2>1, <2>5 DEF Inv
<1>7. CASE RemoveStaging \/ RemoveExtension \/ RestoreTee \/ RemovePatchState
  <2>1. ResetTypes' /\ Cleared'
    BY <1>3, <1>7
       DEF RemoveStaging, RemoveExtension, RestoreTee, RemovePatchState, To, Stops, Inv, ResetTypes,
           Cleared, ResetSteps, Resting, Traces
  <2>2. /\ grants' <=> grants
        /\ reset \in {"staging", "extension", "tee", "bundle", "record"} /\ reset' # "verify"
    BY <1>7 DEF RemoveStaging, RemoveExtension, RestoreTee, RemovePatchState, To, Stops
  <2>3. tracked /\ faults < 2 => ~grants
    BY <2>2 DEF Inv, Tracked
  <2>4. Tracked'
    BY <1>3, <1>4, <2>2, <2>3 DEF Tracked
  <2> QED
    BY <1>2, <2>1, <2>4 DEF Inv
<1> QED
  BY <1>5, <1>6, <1>7

LEMMA RemoveBundlePart ==
  ASSUME Inv, RemoveBundle
  PROVE  Inv'
<1> USE DEF Inv
<1>1. UpgradeInv' /\ FaultStep
  BY RemoveBundleInv, FaultFacts DEF RemoveBundle, Removal, Cleared, ResetSteps, UpgradeInv, Types
<1>2. ResetTypes' /\ Cleared'
  BY DEF RemoveBundle, Cleared, ResetTypes, ResetSteps, Resting
<1>3. Tracked'
  BY <1>1 DEF RemoveBundle, Removal, Tracked, FaultStep, UpgradeInv, Types, FaultTypes
<1> QED
  BY <1>1, <1>2, <1>3

LEMMA CrashResetPart ==
  ASSUME Inv, CrashReset
  PROVE  Inv'
<1> USE DEF Inv, CrashReset
<1>1. UpgradeInv'
  BY CrashResetInv DEF Cleared
<1>2. ResetTypes' /\ Cleared' /\ Tracked'
  BY DEF ResetTypes, Cleared, Tracked, ResetSteps, Resting, Traces, faultVars
<1> QED
  BY <1>1, <1>2

LEMMA UserPart ==
  ASSUME Inv, User, UNCHANGED resetVars
  PROVE  Inv'
<1>1. UpgradeInv'
  BY UserInv DEF User, Inv
<1>2. ResetTypes' /\ Cleared' /\ Tracked'
  BY DEF User, AppActs, resetVars, Inv, ResetTypes, Cleared, Tracked, fs, faultVars
<1> QED
  BY <1>1, <1>2 DEF Inv

LEMMA GrantPart ==
  ASSUME Inv, Grant \/ UNCHANGED allVars
  PROVE  Inv'
<1>1. UNCHANGED vars
  BY DEF Grant, allVars
<1>2. Types' /\ Fresh' /\ Vendor' /\ Failing' /\ OldGone'
  BY <1>1
     DEF vars, guardVars, faultVars, fs, runVars, Inv, UpgradeInv, Types, FsTypes, GuardTypes,
              FaultTypes, PcTypes, RunTypes, Fresh, Vendor, Failing, OldGone
<1>3. Prepared' /\ Restores' /\ Safe'
  BY <1>1
     DEF vars, guardVars, faultVars, fs, runVars, Inv, UpgradeInv, Prepared, Wanted, Asked,
         Restores,
              FailureRestores, Safe, Sound
<1>4. UNCHANGED <<pc, live, faults>>
  BY <1>1 DEF vars, fs, faultVars
<1>5. ResetTypes'
  BY DEF Inv, Grant, allVars, resetVars, ResetTypes
<1>6. Cleared'
  BY <1>4 DEF Inv, Grant, allVars, resetVars, Cleared
<1>7. Tracked'
  BY <1>4 DEF Inv, Grant, allVars, resetVars, Tracked
<1> QED
  BY <1>2, <1>3, <1>5, <1>6, <1>7 DEF Inv, UpgradeInv

\* The invariant holds in every state of upgrades, the app, the guard and resets.
THEOREM Invariance == ResetSpec => []Inv
<1>1. Inv /\ [ResetNext]_allVars => Inv'
  BY UpgradeStepsInv, BeginResetPart, ResetGuardPart, PlanPart, RemoveBundlePart, CrashResetPart,
     UserPart, GrantPart
     DEF ResetNext, ExecutePlan
<1> QED
  BY ResetInitInv, <1>1, PTL DEF ResetSpec

-----------------------------------------------------------------------------
\* Every state of upgrades and resets has its types.
THEOREM TypeCorrect == ResetSpec => []ResetTypeOK
<1>1. Inv => ResetTypeOK
  BY DEF Inv, UpgradeInv, Types, FsTypes, GuardTypes, FaultTypes, PcTypes, RunTypes, ResetTypes,
         ResetTypeOK, TypeOK
<1> QED
  BY Invariance, <1>1, PTL

\* A user who had an app has a whole copy of one through every crash and retry on a sound
\* file system, and through one failure without a crash (CommitSwap and its roll-backs).
THEOREM AppIsNeverLost == ResetSpec => []NeverWithoutBundle
<1>1. Inv => NeverWithoutBundle
  BY DEF Inv, UpgradeInv, Safe, Sound, NeverWithoutBundle
<1> QED
  BY Invariance, <1>1, PTL

\* An upgrade that failed without a failure of the file system, or gave way to the app,
\* has left the bundle it found (CommitSwap's roll-backs).
THEOREM FailuresRestore == ResetSpec => []FailureRestores
<1>1. Inv => FailureRestores
  BY DEF Inv, UpgradeInv, Restores
<1> QED
  BY Invariance, <1>1, PTL

\* An upgrade that reports success has put the bundle it downloaded, whole and finished, in
\* place of the old one, or has patched the installed one (runStagedUpgrade,
\* handleCurrentVersion).
THEOREM SuccessIsInstalled == ResetSpec => []SuccessInstalls
<1>1. Inv => SuccessInstalls
  BY DEF Inv, UpgradeInv, Prepared, Wanted, Asked, SuccessInstalls
<1> QED
  BY Invariance, <1>1, PTL

\* A commit starts on a check of the app made after staging (Mutate's PreCommit).
THEOREM CommitsAreChecked == ResetSpec => []CommitFollowsFreshCheck
<1>1. Inv => CommitFollowsFreshCheck
  BY DEF Inv, UpgradeInv, Fresh, CommitSteps, CommitFollowsFreshCheck
<1> QED
  BY Invariance, <1>1, PTL

\* No bundle that the vendor has not signed is staged or installed (verifyArchive).
THEOREM VendorSigned == ResetSpec => []OnlyVendorBundles
<1>1. Inv => OnlyVendorBundles
  BY DEF Inv, UpgradeInv, Vendor, OnlyVendorBundles
<1> QED
  BY Invariance, <1>1, PTL

\* A reset that reports success has forgotten the app (hardreset.Run).
THEOREM ResetsForget == ResetSpec => ResetForgetsApp
<1>1. Inv /\ [ResetNext]_allVars =>
        [reset' = "done" /\ reset # "done" =>
           /\ live' = None /\ left' = {}
           /\ tracked /\ faults < 2 => ~grants]_allVars
  <2> SUFFICES ASSUME Inv, ResetNext, reset' = "done", reset # "done"
               PROVE  /\ live' = None /\ left' = {}
                      /\ tracked /\ faults < 2 => ~grants
    OBVIOUS
  <2>1. RemovePatchState
    BY DEF ResetNext, UpgradeSteps, BeginReset, ResetGuard, ExecutePlan, DeleteTCCRows,
           VerifyNoTCCRows,
           RemoveStaging, RemoveExtension, RestoreTee, RemoveBundle, CrashReset, Grant, resetVars,
           To, Stops
  <2>2. left' = {} /\ live' = None
    BY <2>1 DEF RemovePatchState, To, Stops, Still, fs, Inv, ResetTypes, Traces, Cleared
  <2>3. tracked /\ faults < 2 => ~grants
    BY <2>1 DEF RemovePatchState, Inv, Tracked
  <2> QED
    BY <2>2, <2>3
<1> QED
  BY Invariance, <1>1, PTL DEF ResetSpec, ResetForgetsApp
=============================================================================
