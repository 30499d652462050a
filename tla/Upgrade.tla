------------------------------ MODULE Upgrade ------------------------------
(* internal/upgrade: one upgrade after the other of an app, from the check of  *)
(* its feed to the swap of its bundle, by a process that can be killed between *)
(* any two steps.                                                               *)
EXTENDS BundleSwap

CONSTANTS
  MaxAttempts,  \* bound: upgrades started
  MaxCrashes    \* bound: process deaths in the middle of an upgrade

ASSUME UpgradeAssumption ==
  /\ MaxAttempts \in Nat
  /\ MaxCrashes \in Nat

VARIABLES
  attempts, crashes,
  before,   \* history: live when the upgrade began
  owned,    \* history: the user had the app before the first upgrade
  inplace   \* history: this upgrade found its version installed and patches it

runVars == <<attempts, crashes, before, owned>>
vars == <<guardVars, faultVars, fs, archive, target, pc, want, had, failing, runVars, inplace>>

AtRest == {"idle", "ok", "error", "deferred", "noupdate", "current"}
Steps == {"check", "download", "signature", "extract", "guard", "stage", "prepare",
          "precommit", "prepareold", "save", "install", "restoreinstall", "verify",
          "moveback", "clearlive", "restorelive", "finish", "cleanup",
          "patchguard", "patch", "finalize"}

Init ==
  /\ SwapInit
  /\ attempts = 0
  /\ crashes = 0
  /\ before = live
  /\ owned = (live # None)
  /\ inplace = FALSE

\* What the steps before and beside the swap leave alone.
Apart == UNCHANGED <<guardVars, target, old, staged, had, runVars>>

-----------------------------------------------------------------------------
\* Operation: every run has its own staging directory for the download.
Begin(p) ==
  /\ pc \in AtRest
  /\ attempts < MaxAttempts
  /\ attempts' = attempts + 1
  /\ policy' = p
  /\ guard' = "list" /\ listed' = {} /\ checked' = "nothing"
  /\ clean' = TRUE
  /\ archive' = NoArchive /\ want' = "none" /\ had' = FALSE
  /\ pc' = "check" /\ failing' = "no"
  /\ before' = live /\ inplace' = FALSE
  /\ UNCHANGED <<procs, faults, fs, target, crashes, owned>>

\* Run up to the manifest: an unreadable bundle, an untrusted CA, a feed that fails or
\* lacks a field is an error; the feed may have nothing for us.
CheckEnds ==
  /\ pc = "check"
  /\ pc' \in {"error", "noupdate"}
  /\ NoFault
  /\ UNCHANGED <<live, archive, want, failing, inplace>> /\ Apart

\* The feed names another version than the bundle, newer or not, or there is no bundle.
\* What is left of a bundle can still name any version.
Fetch(v) ==
  /\ pc = "check"
  /\ live.version # v
  /\ want' = v
  /\ Goto("download")
  /\ NoFault
  /\ UNCHANGED <<live, archive, inplace>> /\ Apart

\* handleCurrentVersion: with a .real there is nothing to do, without one the bundle
\* is clean, and patched where it is.
HandleCurrentVersion(v) ==
  /\ pc = "check"
  /\ live.version \in {v, "debris"}
  /\ want' = v
  /\ \/ /\ live.real \/ live = Debris
        /\ Goto("current") /\ UNCHANGED inplace
     \/ /\ ~live.real
        /\ Goto("patchguard") /\ inplace' = TRUE
  /\ NoFault
  /\ UNCHANGED <<live, archive>> /\ Apart

\* downloadArchive
Download ==
  /\ pc = "download"
  /\ \/ archive' \in [version : Versions, genuine : {TRUE}] /\ Goto("signature") /\ NoFault
     \/ /\ target = "tauri"
        /\ archive' \in [version : Versions, genuine : {FALSE}] /\ Goto("signature") /\ Fault
     \/ UNCHANGED archive /\ Fail("error") /\ Fault
  /\ UNCHANGED <<live, want, inplace>> /\ Apart

-----------------------------------------------------------------------------
\* minisign. A signature as the manifest carries it: its algorithm, whether its key id
\* is ours, what our key signed in it, and whether our key signed its trusted comment
\* together with it.
Signatures ==
  [algorithm : {"prehash", "legacy", "other"}, keyId : BOOLEAN,
   over : {"digest", "bytes", "nothing"}, comment : BOOLEAN]

\* The vendor's key signs the vendor's archive and nothing else.
PossibleSignatures ==
  {s \in Signatures : s.over # "nothing" => archive.genuine}

\* Mutant: the trusted comment is checked, the archive is not.
VerifyMinisign_CommentOnly(s) == s.keyId /\ s.comment

\* verifyMinisignMessage on the digest or on the bytes, as the signature's own algorithm
\* says; decodeMinisignSignature knows no third one.
VerifyMinisign(s) ==
  /\ s.keyId /\ s.comment
  /\ \/ s.algorithm = "prehash" /\ s.over = "digest"
     \/ s.algorithm = "legacy" /\ s.over = "bytes"

\* verifyArchive: only a Tauri feed carries a signature, and there it may be missing or
\* unreadable.
VerifyArchive ==
  /\ pc = "signature"
  /\ \/ target # "tauri" /\ Goto("extract")
     \/ target = "tauri" /\ Fail("error")
     \/ /\ target = "tauri"
        /\ \E s \in PossibleSignatures : VerifyMinisign(s)
        /\ Goto("extract")
  /\ NoFault
  /\ UNCHANGED <<live, archive, want, inplace>> /\ Apart

\* extractZip, extractTarGz: into the staging directory, and there has to be exactly
\* one app in it.
ExtractArchive ==
  /\ pc = "extract"
  /\ Goto("guard") \/ Fail("error")
  /\ NoFault
  /\ UNCHANGED <<live, archive, want, inplace>> /\ Apart

-----------------------------------------------------------------------------
\* patch.Patch of a clean bundle, in place: it gives way or closes the app once,
PatchGuard ==
  /\ Guarded("patchguard", "patch", IF guard = "running" THEN "deferred" ELSE "error")
  /\ UNCHANGED <<runVars, inplace>>

\* preparePreparedBundle, which can stop before or after its first change,
Patch ==
  /\ pc = "patch"
  /\ \/ live' \in {live, Patched(live)} /\ Fail("error")
     \/ live' = Patched(live) /\ live.whole /\ Goto("finalize")
  /\ NoFault
  /\ UNCHANGED <<archive, want, inplace>> /\ Apart

\* and finalizePreparedBundle; nothing rolls it back.
Finalize ==
  /\ pc = "finalize"
  /\ \/ live' = [live EXCEPT !.sealed = TRUE] /\ Goto("ok")
     \/ UNCHANGED live /\ Fail("error")
  /\ NoFault
  /\ UNCHANGED <<archive, want, inplace>> /\ Apart

\* runStagedUpgrade
StagedUpgrade == Swap /\ UNCHANGED <<runVars, inplace>>

Run ==
  \/ CheckEnds \/ (\E v \in Versions : Fetch(v) \/ HandleCurrentVersion(v))
  \/ Download \/ VerifyArchive \/ ExtractArchive \/ StagedUpgrade
  \/ PatchGuard \/ Patch \/ Finalize

\* The user opens and closes the app; there is nothing to open between renames.
User ==
  /\ AppActs(live.whole)
  /\ UNCHANGED <<fs, archive, target, pc, want, had, failing, runVars, inplace>>

\* Killed inside a removal, the process leaves any part of the bundle behind.
HalfRemoved(b) == IF b = None THEN {None} ELSE {b, Debris}

\* The process dies. Its staging directories have names no later upgrade reuses.
Crash ==
  /\ pc \in Steps
  /\ crashes < MaxCrashes
  /\ crashes' = crashes + 1
  /\ pc' = "idle"
  /\ staged' = None /\ archive' = NoArchive
  /\ live' \in CASE pc = "clearlive" -> HalfRemoved(live)
                 [] pc = "patch" -> {live, Patched(live)}
                 [] OTHER -> {live}
  /\ old' \in IF (pc = "prepareold" /\ live # None) \/ (pc = "finish" /\ had)
             THEN HalfRemoved(old) ELSE {old}
  /\ UNCHANGED <<guardVars, faultVars, target, want, had, failing, attempts, before, owned, inplace>>

Next ==
  \/ \E p \in {"defer", "close"} : Begin(p)
  \/ Run \/ User \/ Crash

Spec == Init /\ [][Next]_vars

-----------------------------------------------------------------------------
TypeOK ==
  /\ {live, old, staged, before} \subseteq Bundles
  /\ pc \in AtRest \union Steps
  /\ policy \in {"defer", "close"}
  /\ guard \in GuardSteps \union Answers
  /\ procs \subseteq Procs /\ listed \subseteq Procs
  /\ want \in Versions \union {"none"}
  /\ archive \in Archives
  /\ target \in {"standard", "development", "tauri"}
  /\ failing \in {"no", "error", "deferred"}
  /\ checked \in {"nothing", "closed", "open", "unknown"}
  /\ {had, clean, owned, inplace} \subseteq BOOLEAN
  /\ attempts \in 0..MaxAttempts
  /\ faults \in 0..MaxFaults
  /\ crashes \in 0..MaxCrashes

\* A user who had an app still has a whole copy of one, in its place or beside it,
\* at every moment of every upgrade: through any crashes and retries on a sound file
\* system, and through a failure of the file system without a crash. (A rename that
\* fails in a rollback, and a crash in the removal that follows, can leave debris in
\* place, which the next upgrade takes for the live bundle.)
NeverWithoutBundle ==
  owned /\ (faults = 0 \/ (faults = 1 /\ crashes = 0)) => live.whole \/ old.whole

\* "on verify failure: roll back" (CommitSwap): an upgrade to another version that
\* failed or deferred and met no file-system failure has left in place the bundle it
\* found; one that deferred has in any case.
FailureRestores ==
  pc = "deferred" \/ (pc = "error" /\ clean /\ ~inplace) => live = before

\* An upgrade that reports success has in place, whole and finished, the bundle it
\* downloaded, or, where the feed named the installed one, that one; it leaves no backup
\* behind when it swapped the bundle, and, but for targets signed for development, has
\* left it as the next upgrade knows a patched one. (Not that the bundle is of the
\* version the feed named: what an archive holds is never compared with it.)
SuccessInstalls ==
  pc = "ok" =>
    /\ live.version = (IF inplace THEN want ELSE archive.version)
    /\ live.whole /\ live.sealed
    /\ ~inplace => old = None
    /\ target # "development" => live.real

\* The commit starts on a check of the app made after the long staging work, and
\* the list of that check was empty, unless it could not be read.
CommitFollowsFreshCheck ==
  pc \in {"prepareold", "save", "install"} => checked = "closed" \/ ~clean

\* Whatever a feed of Tauri's serves, no bundle the vendor has not signed gets as far as
\* the staging root of a swap, nor from there to the user.
OnlyVendorBundles ==
  live.genuine /\ old.genuine /\ staged.genuine
=============================================================================
