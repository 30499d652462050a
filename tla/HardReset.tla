----------------------------- MODULE HardReset -----------------------------
(* internal/hardreset beside internal/upgrade: a reset takes an app's privacy  *)
(* grants, what its upgrades and patches left, the bundle and its record, in   *)
(* this order. It stops at the first error and can be killed half-way; the     *)
(* next one starts over, from what is left.                                    *)
EXTENDS Upgrade

VARIABLES
  reset,   \* the next step of a reset; none: there is none; done: the last one succeeded
  grants,  \* the privacy databases hold rows for code inside the bundle
  left,    \* what was made outside the bundle: see Traces
  tracked  \* history: a reset has read all ids in the bundle, and no row came since

resetVars == <<reset, grants, left, tracked>>
allVars == <<vars, resetVars>>

\* staging: an archive's directory. extension: the Computer Use helpers and plugin of
\* a development target. tee: the tee over a downloaded CLI, of the others; cli: that
\* tee removed and its .real not yet renamed back. record: in state.json.
Traces == {"staging", "extension", "tee", "cli", "record"}
ResetSteps == {"guard", "tccutil", "verify", "staging", "extension", "tee", "bundle", "record"}
Resting == {"none", "done"}

ResetInit ==
  /\ Init
  /\ reset = "none"
  /\ grants = owned
  /\ left = {}
  /\ tracked = FALSE

-----------------------------------------------------------------------------
(* What upgrades leave for a reset.                                            *)

Extension == IF target = "development" THEN "extension" ELSE "tee"

\* Only a killed upgrade keeps its staging directory. The hooks of patch.Patch and of
\* FinalizeAfterSwap work outside the bundle before they record the patch.
Downloaded == Steps \ {"check", "patchguard", "patch", "finalize"}
Leaves ==
  CASE pc \in Downloaded /\ pc' = "idle" /\ pc # "verify" -> {{"staging"}}
    [] pc \in {"verify", "finalize"} /\ pc' \in {"finish", "ok"} -> {{Extension, "record"}}
    [] pc = "verify" /\ pc' = "idle" -> {{"staging"}, {"staging", Extension, "record"}}
    [] pc = "verify" /\ pc' = "moveback" -> {{}, {Extension}, {Extension, "record"}}
    [] pc = "finalize" /\ pc' \in {"error", "idle"} -> {{}, {Extension}, {Extension, "record"}}
    [] OTHER -> {{}}

\* The executor runs one operation of a target at a time.
UpgradeSteps ==
  /\ reset \in Resting
  /\ (\E p \in {"defer", "close"} : Begin(p)) \/ Run \/ Crash
  /\ reset' = "none"
  /\ \E made \in Leaves : left' = left \union made
  /\ tracked' = FALSE
  /\ UNCHANGED grants

\* The app asks the user for a permission, for a helper's bundle id.
Grant ==
  /\ procs # {}
  /\ ~grants
  /\ grants' = TRUE
  /\ tracked' = FALSE
  /\ UNCHANGED <<vars, reset, left>>

-----------------------------------------------------------------------------
Still == UNCHANGED <<guardVars, fs, archive, target, pc, want, had, failing, runVars, inplace>>
To(next) == reset' = next /\ NoFault

\* An error ends the reset.
Stops == reset' = "none" /\ Fault

\* Run. BuildPlan scans the bundle for the ids of its code; without one, or with the
\* remains of one, it knows the configured ids, and some or none of the others.
BeginReset(p) ==
  /\ reset \in Resting /\ pc \in AtRest
  /\ attempts < MaxAttempts
  /\ attempts' = attempts + 1
  /\ reset' = "guard" /\ pc' = "idle" /\ failing' = "no"
  /\ policy' = p
  /\ guard' = "list" /\ listed' = {} /\ checked' = "nothing"
  /\ before' = live /\ inplace' = FALSE /\ clean' = TRUE
  /\ archive' = NoArchive /\ want' = "none" /\ had' = FALSE
  /\ tracked' = (tracked \/ live.whole)
  /\ UNCHANGED <<procs, faults, fs, target, crashes, owned, grants, left>>

\* Mutant: the bundle goes before everything else.
ResetGuard_BundleFirst ==
  /\ reset = "guard"
  /\ \/ Mutate /\ UNCHANGED <<reset, live, owned>>
     \/ /\ guard \in Answers /\ guard' = "list"
        /\ reset' = (IF guard = "closed" THEN "tccutil" ELSE "none")
        /\ live' = (IF guard = "closed" THEN None ELSE live)
        /\ owned' = (owned /\ guard # "closed")
        /\ UNCHANGED <<procs, policy, listed, checked, faultVars>>
  /\ UNCHANGED <<old, staged, archive, target, pc, want, had, failing, attempts, crashes, before, inplace, grants, left, tracked>>

\* defaultMutateBundle: a background reset gives way to a running app.
ResetGuard ==
  /\ reset = "guard"
  /\ \/ Mutate /\ UNCHANGED reset
     \/ /\ guard \in Answers /\ guard' = "list"
        /\ reset' = (IF guard = "closed" THEN "tccutil" ELSE "none")
        /\ UNCHANGED <<procs, policy, listed, checked, faultVars>>
  /\ UNCHANGED <<fs, archive, target, pc, want, had, failing, runVars, inplace, grants, left, tracked>>

\* resetTCCUtilAll, whose errors count unless the id is unknown; deleteUserTCCRows and
\* deleteSystemTCCRows, whose errors do not. Ids that were not found keep their rows.
DeleteTCCRows ==
  /\ reset = "tccutil"
  /\ \/ To("verify") /\ grants' \in (IF live.whole THEN {FALSE} ELSE {FALSE, grants})
     \/ reset' = "verify" /\ Fault /\ UNCHANGED grants
     \/ Stops /\ UNCHANGED grants
  /\ UNCHANGED <<left, tracked>> /\ Still

\* verifyNoTCCRows: rows of ids of the plan are an error, a failed count is not.
VerifyNoTCCRows ==
  /\ reset = "verify"
  /\ \/ ~grants /\ To("staging")
     \/ grants /\ reset' = "none" /\ NoFault
     \/ grants /\ ~live.whole /\ To("staging")
     \/ reset' = "staging" /\ Fault
  /\ UNCHANGED <<grants, left, tracked>> /\ Still

-----------------------------------------------------------------------------
\* resetArtifacts: the staging directories of killed upgrades, ...
RemoveStaging ==
  /\ reset = "staging"
  /\ \/ left' = left \ {"staging"} /\ To("extension")
     \/ UNCHANGED left /\ Stops
  /\ UNCHANGED <<grants, tracked>> /\ Still

\* ... the plugin, the helper and its copies in the cache, ...
RemoveExtension ==
  /\ reset = "extension"
  /\ \/ left' = left \ {"extension"} /\ To("tee")
     \/ UNCHANGED left /\ "extension" \in left /\ Stops
  /\ UNCHANGED <<grants, tracked>> /\ Still

\* Mutant: only a CLI that is there is looked for, and not its .real.
RestoreTee_NoGlob ==
  /\ reset = "tee"
  /\ \/ left' = left \ {"tee"} /\ To("bundle")
     \/ "tee" \in left /\ left' = (left \ {"tee"}) \union {"cli"} /\ Stops
  /\ UNCHANGED <<grants, tracked>> /\ Still

\* ... restoreRealArtifact: the tee is removed, then .real is renamed; artifactCandidates
\* finds a CLI by its .real alone, ...
RestoreTee ==
  /\ reset = "tee"
  /\ \/ left' = left \ {"tee", "cli"} /\ To("bundle")
     \/ "tee" \in left /\ left' \in {left, (left \ {"tee"}) \union {"cli"}} /\ Stops
     \/ "cli" \in left /\ UNCHANGED left /\ Stops
  /\ UNCHANGED <<grants, tracked>> /\ Still

\* ... and last the bundle, not the backup a killed upgrade left beside it.
RemoveBundle ==
  /\ reset = "bundle"
  /\ Removal(live, live')
  /\ reset' = (IF live' = None THEN "record" ELSE "none")
  /\ owned' = FALSE
  /\ UNCHANGED <<grants, left, tracked, procs, policy, guard, listed, checked, old, staged,
                 archive, target, pc, want, had, failing, attempts, crashes, before, inplace>>

\* removePatchState
RemovePatchState ==
  /\ reset = "record"
  /\ \/ left' = left \ {"record"} /\ To("done")
     \/ UNCHANGED left /\ Stops
  /\ UNCHANGED <<grants, tracked>> /\ Still

\* executePlan
ExecutePlan ==
  \/ DeleteTCCRows \/ VerifyNoTCCRows
  \/ RemoveStaging \/ RemoveExtension \/ RestoreTee \/ RemoveBundle \/ RemovePatchState

CrashReset ==
  /\ reset \in ResetSteps
  /\ crashes < MaxCrashes
  /\ crashes' = crashes + 1
  /\ reset' = "none"
  /\ IF reset = "bundle" THEN live' \in HalfRemoved(live) /\ owned' = FALSE ELSE UNCHANGED <<live, owned>>
  /\ left' \in IF reset = "tee" /\ "tee" \in left
               THEN {left, (left \ {"tee"}) \union {"cli"}} ELSE {left}
  /\ UNCHANGED <<guardVars, faultVars, old, staged, archive, target, pc, want, had, failing,
                 attempts, before, inplace, grants, tracked>>

ResetNext ==
  \/ UpgradeSteps
  \/ \E p \in {"defer", "close"} : BeginReset(p)
  \/ ResetGuard \/ ExecutePlan \/ CrashReset
  \/ Grant
  \/ User /\ UNCHANGED resetVars

ResetSpec == ResetInit /\ [][ResetNext]_allVars

-----------------------------------------------------------------------------
ResetTypeOK ==
  /\ TypeOK
  /\ reset \in ResetSteps \union Resting
  /\ grants \in BOOLEAN /\ tracked \in BOOLEAN
  /\ left \subseteq Traces

\* A reset that succeeds, after however many that failed or were killed, has taken the
\* app, its record and what was made outside of the bundle. It has taken the grants of
\* the code in the bundle, whose ids only the bundle tells, if a reset since the app's
\* last run and last upgrade has seen the bundle whole and one database failed at most.
ResetForgetsApp ==
  [][reset' = "done" /\ reset # "done" =>
       /\ live' = None /\ left' = {}
       /\ tracked /\ faults < 2 => ~grants]_allVars
=============================================================================
