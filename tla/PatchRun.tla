------------------------------ MODULE PatchRun ------------------------------
(* internal/patch: the control of one patch at a time of a target, and the     *)
(* signatures of the code in its bundle. A pipeline is a sequence of steps; at *)
(* any of them a command can fail or the process can die, leaving what that    *)
(* step has done so far, and the next patch starts from there.                 *)
EXTENDS Naturals, Sequences

CONSTANTS
  Policies,   \* the shipped targets modelled: a subset of AllPolicies
  MaxRuns,    \* bound: patches and keychain repairs started
  MaxFaults,  \* bound: commands and file operations that fail
  MaxCrashes, \* bound: processes killed half-way
  MaxChanges  \* bound: updates, launches and changed assets between patches

\* plain: preserved nested code and a bundled CLI (Claude). inject: the injector
\* under a Developer ID seal (Cursor). development: development signing, the
\* injector, a CLI wrapper and the Computer Use helper (Codex).
AllPolicies == {"plain", "inject", "development"}

ASSUME PatchRunAssumption ==
  /\ Policies \subseteq AllPolicies
  /\ MaxRuns \in Nat /\ MaxFaults \in Nat /\ MaxCrashes \in Nat /\ MaxChanges \in Nat

VARIABLES
  policy,    \* the target's configuration
  plan,      \* the signing strategy of the run, or keychain: a keychain repair
  step,      \* the step to take, or idle
  outcome,   \* how the last run ended
  migrate,   \* --migrate-keychain, as long as there is something to restore
  seal,      \* who signed each code object last; stale: changed since
  runs, faults, crashes

run == <<policy, plan, step, outcome, migrate, runs, faults, crashes>>

Plans == {"none", "standard", "development", "keychain"}

\* The code objects of a bundle, which the app object encloses. main is the file in
\* CFBundleExecutable's place, real the .real beside it.
Code == {"nested", "helper", "real", "main", "app"}
Signers == {"none", "vendor", "local", "development", "stale"}

VendorSeal ==
  [c \in Code |-> IF c = "real" \/ (c = "helper" /\ policy # "development") THEN "none" ELSE "vendor"]

Touch(s, c) == [s EXCEPT ![c] = "stale", !["app"] = "stale"]
Sign(s, c, by) ==
  IF s[c] = "none" THEN s
  ELSE [d \in Code |-> IF d = c THEN by ELSE IF d = "app" THEN "stale" ELSE s[d]]

-----------------------------------------------------------------------------
\* The steps of each strategy in the order of the code, those a target without the
\* capability skips included. Development: sealed after the hooks, not before.
Finalize == <<"installed", "cached", "plugin", "pluginCopy", "teeMove", "teeCopy", "teeSign">>
Closing == <<"check", "verify", "record", "regrant">>
InstallInjection == <<"policy", "dylib", "smoke", "install", "env">>

Standard ==
  <<"stage", "entitlements", "move", "wrapper", "shim", "launch">> \o InstallInjection
  \o <<"restore", "unembed", "extend", "seal">> \o Finalize \o Closing
Development ==
  <<"embed">> \o InstallInjection \o <<"entitlements", "extend">> \o Finalize \o <<"seal">> \o Closing

\* Mutants: the environment set before the injector is in place; the seal of the
\* standard plan before the helper is changed; the keychain before everything else.
Pipeline_EnvFirst(p) ==
  CASE p = "keychain" -> <<"regrant">>
    [] p = "standard" -> Standard
    [] OTHER -> <<"embed", "policy", "dylib", "smoke", "env", "install", "extend">> \o Finalize
                \o <<"seal">> \o Closing
Pipeline_SealFirst(p) ==
  CASE p = "keychain" -> <<"regrant">>
    [] p = "standard" -> <<"stage", "entitlements", "move", "wrapper", "shim", "launch">> \o InstallInjection
                         \o <<"restore", "unembed", "seal", "extend">> \o Finalize \o Closing
    [] OTHER -> Development
Pipeline_RegrantFirst(p) ==
  CASE p = "keychain" -> <<"regrant">>
    [] p = "standard" -> <<"regrant">> \o Standard
    [] OTHER -> <<"regrant">> \o Development

Pipeline(p) ==
  CASE p = "keychain" -> <<"regrant">>
    [] p = "standard" -> Standard
    [] OTHER -> Development

\* The steps there is something to do for, in plan p, with or without --migrate-keychain.
Applies(s, p, m) ==
  CASE s \in {"stage", "restore", "teeMove", "teeCopy", "teeSign"} -> policy = "plain"
    [] s \in {"wrapper", "extend", "installed", "cached", "plugin", "pluginCopy", "check"} -> policy = "development"
    [] s \in {"policy", "dylib", "smoke", "install", "env"} -> policy = "inject" \/ p = "development"
    [] s = "regrant" -> m
    [] OTHER -> TRUE

\* Between places i and j of the pipeline there is nothing to do.
NothingBetween(p, m, i, j) == \A k \in (i + 1)..(j - 1) : ~Applies(Pipeline(p)[k], p, m)

\* Place j is the next after place i with something to do.
Follows(p, m, i, j) == i < j /\ Applies(Pipeline(p)[j], p, m) /\ NothingBetween(p, m, i, j)

Ended(result) == step' = "idle" /\ outcome' = result

\* Where the run goes from step s: to the next step, or to its end.
GotoAfter(s) ==
  \E i \in DOMAIN Pipeline(plan) :
    /\ Pipeline(plan)[i] = s
    /\ \/ NothingBetween(plan, migrate, i, Len(Pipeline(plan)) + 1) /\ Ended("ok")
       \/ \E j \in DOMAIN Pipeline(plan) :
            Follows(plan, migrate, i, j) /\ step' = Pipeline(plan)[j] /\ UNCHANGED outcome

Go == GotoAfter(step) /\ UNCHANGED <<faults, crashes>>

\* A command or file operation fails: the step returns an error. The process dies:
\* nothing it deferred runs. Both leave the work of the step somewhere on its way.
Fail == faults < MaxFaults /\ faults' = faults + 1 /\ UNCHANGED crashes /\ Ended("failed")
Die == crashes < MaxCrashes /\ crashes' = crashes + 1 /\ UNCHANGED faults /\ Ended("killed")
Stop == Fail \/ Die

\* A check of the code says no although nothing failed.
Refuse == Ended("refused") /\ UNCHANGED <<faults, crashes>>

\* The step the run is at, which changes nothing of the run but where it is.
At(s) == step = s /\ UNCHANGED <<policy, plan, migrate, runs>>

RunInit ==
  /\ policy \in Policies
  /\ plan = "none" /\ step = "idle" /\ outcome = "none" /\ migrate = FALSE
  /\ seal = VendorSeal
  /\ runs = 0 /\ faults = 0 /\ crashes = 0

RunTypeOK ==
  /\ policy \in Policies
  /\ plan \in Plans /\ migrate \in BOOLEAN
  /\ step = "idle" \/ \E i \in DOMAIN Pipeline(plan) : step = Pipeline(plan)[i]
  /\ outcome \in {"none", "ok", "skipped", "failed", "refused", "killed"}
  /\ seal \in [Code -> Signers]
  /\ runs \in 0..MaxRuns /\ faults \in 0..MaxFaults /\ crashes \in 0..MaxCrashes
=============================================================================
