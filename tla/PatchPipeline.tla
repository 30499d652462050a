--------------------------- MODULE PatchPipeline ---------------------------
(* internal/patch: a patch of an app's bundle under either signing strategy,   *)
(* in place and without roll-back, composed with the injector, the Computer    *)
(* Use helper and the bundled CLI; between patches the vendor updates the app, *)
(* the app runs, and signing assets and trust come and go.                     *)
EXTENDS Injector, ComputerUse, CliTee

VARIABLES
  main, real,   \* CFBundleExecutable's file: none, torn, vendor, shim; .real is there
  launch,       \* the launch policy the shim reads: none, torn, whole
  wrapper,      \* the CLI wrapper the launch policy names: none, torn, whole
  kept,         \* preserved nested code: whole, part, gone
  profile,      \* embedded.provisionprofile: vendor, none, development
  version,      \* of the bundle
  record,       \* the version in state.json, 0 without one
  keychain,     \* whom the app's keychain item lets in: app, granted; gone
  assets, trusted, \* the development assets are complete; the MITM CA is trusted
  changes

executable == <<main, real>>
bundle == <<main, real, launch, kept, profile, version>>
outside == <<wrapper, record, keychain>>
world == <<assets, trusted, changes>>
extras == <<injector, trust, cli>>
vars == <<run, seal, extras, bundle, outside, world>>

FreshBundle ==
  /\ main' = "vendor" /\ real' = FALSE /\ launch' = "none" /\ kept' = "whole"
  /\ profile' = "vendor" /\ env' = "vendor" /\ seal' = VendorSeal

Init ==
  /\ RunInit /\ InjectorInit /\ TrustInit
  /\ cli \in {NoCli} \union (IF policy = "plain" THEN {VendorCli} ELSE {})
  /\ main = "vendor" /\ real = FALSE /\ launch = "none" /\ kept = "whole"
  /\ profile = "vendor" /\ version = 1
  /\ wrapper = "none" /\ record = 0 /\ keychain = "app"
  /\ assets = (policy = "development") /\ trusted = TRUE
  /\ changes = 0

-----------------------------------------------------------------------------
\* A run starts: Operation, or KeychainMigrateOperation. The app cannot be closed, or
\* the caller does not want it closed: deferred. The CA is not trusted: refused
\* (EnsureTrustedMITMCA).
Begin ==
  /\ step = "idle"
  /\ runs < MaxRuns
  /\ runs' = runs + 1
  /\ UNCHANGED <<policy, seal, extras, bundle, outside, world, faults, crashes>>

Untrusted == policy = "development" /\ ~trusted

TurnAway ==
  /\ Begin
  /\ plan' = "none" /\ migrate' = FALSE
  /\ Ended("skipped") \/ (Untrusted /\ Ended("refused"))

\* There is an item whose password can be read.
CaptureItems == keychain # "gone"

\* preparePreparedBundle up to the choice of the strategy: with --migrate-keychain the
\* item is read, and one that is not there is passed over.
Patch ==
  /\ ~Untrusted
  /\ Begin
  /\ migrate' \in BOOLEAN /\ (migrate' => CaptureItems)
  /\ plan' = IF policy = "development" /\ assets THEN "development" ELSE "standard"
  /\ \E j \in DOMAIN Pipeline(plan') : Follows(plan', migrate', 0, j) /\ step' = Pipeline(plan')[j]
  /\ outcome' = "none"

KeychainMigrate ==
  /\ CaptureItems
  /\ Begin
  /\ plan' = "keychain" /\ migrate' = TRUE /\ step' = "regrant" /\ outcome' = "none"

-----------------------------------------------------------------------------
\* prepareStandardBundleSigning.
\* stagePreservedNestedCode: a copy of what is there, refused if nothing is.
StagePreserved ==
  /\ At("stage")
  /\ IF kept = "gone" THEN Refuse ELSE Go \/ Stop
  /\ UNCHANGED <<seal, extras, bundle, outside, world>>

\* stepExtractEntitlements, writeDevelopmentEntitlements: a temporary file, made of the
\* entitlements of .real, or of the executable where there is no .real.
WriteEntitlements ==
  /\ At("entitlements")
  /\ Go \/ Stop
  /\ UNCHANGED <<seal, extras, bundle, outside, world>>

\* Mutant: renamed whether or not a .real is there.
StepMoveToReal_Always ==
  /\ At("move")
  /\ main' = "none" /\ real' = (main = "vendor") /\ Go
  /\ seal' = [seal EXCEPT !["real"] = seal["main"], !["main"] = "none", !["app"] = "stale"]
  /\ UNCHANGED <<extras, launch, kept, profile, version, outside, world>>

\* stepMoveToReal
StepMoveToReal ==
  /\ At("move")
  /\ \/ real /\ Go /\ UNCHANGED <<executable, seal>>
     \/ /\ ~real
        /\ main' = "none" /\ real' = TRUE /\ Go
        /\ seal' = [seal EXCEPT !["real"] = seal["main"], !["main"] = "none", !["app"] = "stale"]
     \/ Stop /\ UNCHANGED <<executable, seal>>
  /\ UNCHANGED <<extras, launch, kept, profile, version, outside, world>>

\* Mutant: a wrapper that cannot be written is noted and the patch goes on.
PreLaunchPolicyHook_Noted ==
  /\ At("wrapper")
  /\ wrapper' \in {wrapper, "torn", "whole"} /\ Go
  /\ UNCHANGED <<seal, extras, bundle, record, keychain, world>>

\* codexclishim.PreLaunchPolicyHook: the wrapper is copied over itself.
PreLaunchPolicyHook ==
  /\ At("wrapper")
  /\ \/ wrapper' = "whole" /\ Go
     \/ wrapper' \in {wrapper, "torn"} /\ Stop
  /\ UNCHANGED <<seal, extras, bundle, record, keychain, world>>

\* stepInstallShim: the shim ...
InstallShim ==
  /\ At("shim")
  /\ \/ main' = "shim" /\ seal' = [seal EXCEPT !["main"] = "stale", !["app"] = "stale"] /\ Go
     \/ main' = "torn" /\ seal' = [seal EXCEPT !["main"] = "stale", !["app"] = "stale"] /\ Stop
     \/ UNCHANGED <<main, seal>> /\ Stop
  /\ UNCHANGED <<extras, real, launch, kept, profile, version, outside, world>>

\* ... and the launch policy it reads.
InstallLaunchPolicy ==
  /\ At("launch")
  /\ \/ launch' = "whole" /\ Go
     \/ launch' \in {launch, "torn"} /\ Stop
  /\ UNCHANGED <<seal, extras, main, real, kept, profile, version, outside, world>>

\* stepRestorePreservedNestedCode: remove, then copy back. A whole copy of a part is
\* a part.
RestorePreserved ==
  /\ At("restore")
  /\ \/ UNCHANGED kept /\ (Go \/ Stop)
     \/ kept' \in {"part", "gone"} /\ Stop
  /\ seal' = Touch(seal, "app")
  /\ UNCHANGED <<extras, main, real, launch, profile, version, outside, world>>

\* stepEmbedProvisioningProfile, for a target without a configured profile.
RemoveProfile ==
  /\ At("unembed")
  /\ \/ profile' = "none" /\ Go
     \/ UNCHANGED profile /\ Stop
  /\ seal' = Touch(seal, "app")
  /\ UNCHANGED <<extras, main, real, launch, kept, version, outside, world>>

\* ApplyNestedMutations: removeAppInCruft, embedProvisioningProfile.
EmbedProfile ==
  /\ At("embed")
  /\ \/ profile' = "development" /\ Go
     \/ UNCHANGED profile /\ Stop
  /\ seal' = Touch(seal, "app")
  /\ UNCHANGED <<extras, main, real, launch, kept, version, outside, world>>

-----------------------------------------------------------------------------
\* sealStandardBundle: nested code deepest first, .real, the shim, the bundle.
SignOrder == <<"nested", "helper", "real", "main", "app">>
SignedUpTo(n) ==
  [c \in Code |-> IF seal[c] # "none" /\ (\E i \in 1..n : SignOrder[i] = c) THEN "local"
                  ELSE IF c = "app" THEN "stale" ELSE seal[c]]

SealStandard ==
  /\ At("seal") /\ plan = "standard"
  /\ \/ seal' = SignedUpTo(5) /\ Go
     \/ \E n \in 0..4 : seal' = SignedUpTo(n) /\ Stop
  /\ UNCHANGED <<extras, bundle, outside, world>>

\* sealDevelopmentBundle: rcodesign --shallow, which nested code does not take part in.
SealDevelopment ==
  /\ At("seal") /\ plan = "development"
  /\ IF main \in {"none", "torn"} THEN Refuse /\ UNCHANGED seal
     ELSE \/ seal' = [seal EXCEPT !["main"] = "development", !["app"] = "development"] /\ Go
          \/ seal' = Touch(seal, "app") /\ Stop
  /\ UNCHANGED <<extras, bundle, outside, world>>

\* stepVerify, with the dry run of the shim
VerifiedStandard ==
  /\ \A c \in Code : seal[c] \in {"none", "local"}
  /\ main = "shim" /\ launch = "whole"

\* stepVerifyDevelopmentSigned
VerifiedDevelopment ==
  /\ seal["app"] = "development" /\ \A c \in Code : seal[c] # "stale"
  /\ dylib = "tested" /\ policyFile = "whole"

Verify ==
  /\ At("verify")
  /\ IF (plan = "standard" /\ VerifiedStandard) \/ (plan = "development" /\ VerifiedDevelopment)
     THEN Go \/ Stop ELSE Refuse
  /\ UNCHANGED <<seal, extras, bundle, outside, world>>

\* stepWriteState
WriteState ==
  /\ At("record")
  /\ \/ record' = version /\ (Go \/ Die)
     \/ UNCHANGED record /\ Stop
  /\ UNCHANGED <<seal, extras, bundle, wrapper, keychain, world>>

\* RegrantItems: delete the item, add it again with its password for the app at this
\* path. restoreKeychainAccess notes an error and goes on.
RegrantFails ==
  /\ faults < MaxFaults /\ faults' = faults + 1 /\ UNCHANGED crashes
  /\ Ended(IF plan = "keychain" THEN "failed" ELSE "ok")

RegrantItems ==
  /\ At("regrant")
  /\ \/ keychain' = "granted" /\ Go
     \/ keychain' \in {keychain, "gone"} /\ (RegrantFails \/ Die)
  /\ UNCHANGED <<seal, extras, bundle, wrapper, record, world>>

-----------------------------------------------------------------------------
\* Between patches. External: the vendor's updater replaces the bundle and keeps what
\* is outside; the app, once started, installs its bundled helper, and downloads a
\* CLI; the user removes or adds assets and trust.
Between ==
  /\ step = "idle"
  /\ changes < MaxChanges
  /\ changes' = changes + 1
  /\ outcome' = "none"
  /\ UNCHANGED <<policy, plan, step, migrate, runs, faults, crashes, outside>>

Update ==
  /\ Between
  /\ FreshBundle
  /\ version' = version + 1
  /\ trust' = [trust EXCEPT !["bundled"] = "upstream"]
  /\ UNCHANGED <<policyFile, dylib, cli, assets, trusted>>

Launch ==
  /\ Between /\ policy = "development"
  /\ trust' = [c \in Copies |-> IF c \in Helpers THEN trust["bundled"] ELSE trust[c]]
  /\ UNCHANGED <<seal, injector, cli, bundle, assets, trusted>>

UpdateCli ==
  /\ Between /\ policy = "plain"
  /\ cli' = VendorCli
  /\ UNCHANGED <<seal, injector, trust, bundle, assets, trusted>>

ChangeSetup ==
  /\ Between /\ policy = "development"
  /\ \/ assets' = ~assets /\ UNCHANGED trusted
     \/ trusted' = ~trusted /\ UNCHANGED assets
  /\ UNCHANGED <<seal, extras, bundle>>

-----------------------------------------------------------------------------
Start == TurnAway \/ Patch \/ KeychainMigrate

PatchBundle ==
  \/ StagePreserved \/ WriteEntitlements \/ StepMoveToReal \/ PreLaunchPolicyHook
  \/ InstallShim \/ InstallLaunchPolicy \/ RestorePreserved \/ RemoveProfile \/ EmbedProfile
  \/ SealStandard \/ SealDevelopment \/ Verify \/ WriteState \/ RegrantItems

Extend ==
  \/ InjectorNext /\ UNCHANGED <<trust, cli, bundle, outside, world>>
  \/ ComputerUseNext /\ UNCHANGED <<injector, cli, bundle, outside, world>>
  \/ CliTeeNext /\ UNCHANGED <<injector, trust, bundle, outside, world>>

Next ==
  \/ Start \/ PatchBundle \/ Extend
  \/ Update \/ Launch \/ UpdateCli \/ ChangeSetup

Spec == Init /\ [][Next]_vars

-----------------------------------------------------------------------------
TypeOK ==
  /\ RunTypeOK /\ InjectorTypeOK /\ TrustTypeOK /\ CliTypeOK
  /\ main \in {"none", "torn", "vendor", "shim"} /\ real \in BOOLEAN
  /\ launch \in {"none", "torn", "whole"} /\ wrapper \in {"none", "torn", "whole"}
  /\ kept \in {"whole", "part", "gone"} /\ profile \in {"vendor", "none", "development"}
  /\ version \in Nat \ {0} /\ record \in 0..version /\ keychain \in {"app", "granted", "gone"}
  /\ assets \in BOOLEAN /\ trusted \in BOOLEAN /\ changes \in 0..MaxChanges

\* stepMoveToReal keeps the vendor's executable beside the shim: however patches of
\* either strategy fail, die and follow each other, the vendor's executable is in the
\* bundle, so that the app can be patched again.
VendorBinaryKept == main = "vendor" \/ real

\* A patch in place has no roll-back; the next patch repairs what the last one left.
\* As long as nothing fails in a patch itself, it succeeds, but for these cases.
OnlyTheseRefuse ==
  outcome = "refused" =>
    \/ policy = "development" /\ ~trusted
    \/ kept = "gone"
    \/ trust["plugin"] = "headless"
    \/ plan = "development" /\ main \in {"none", "torn"}

Patched == outcome = "ok" /\ plan \in {"standard", "development"}

\* A patch that reports success has finished what its own plan installs, in what it
\* verifies and in what it does not, whatever patches of either strategy had been cut
\* short before it: the bundle is sealed over all that was changed, by the signer of the
\* strategy, and recorded as what it is; its executable is a whole file, and a shim has
\* the vendor's beside it; a standard patch leaves the shim with its policy and wrapper,
\* one that injects leaves library, policy and environment. It vouches for nothing that
\* only the other strategy writes: a launch policy or an injector's policy torn by a
\* patch of the other strategy stays as it is.
SuccessFinishesItsPlan ==
  Patched =>
    /\ seal["app"] = (IF plan = "development" THEN "development" ELSE "local")
    /\ \A c \in Code : seal[c] # "stale"
    /\ record = version
    /\ profile = (IF plan = "development" THEN "development" ELSE "none")
    /\ main \in {"vendor", "shim"} /\ (main = "shim" => real)
    /\ plan = "standard" => main = "shim" /\ launch = "whole"
    /\ plan = "standard" /\ policy = "development" => wrapper = "whole"
    /\ policy = "inject" \/ plan = "development" =>
         env = "set" /\ dylib = "tested" /\ policyFile = "whole"

\* After a patch that reports success every copy of the helper that is there trusts
\* the local team, in the bundle or outside, and the login plugin is there.
HelpersTrustLocal ==
  Patched /\ policy = "development" =>
    trust["plugin"] = "local" /\ \A c \in Helpers : trust[c] \in {"absent", "local"}

\* The keychain item is given to the app only when the bundle has the signature it
\* will be asked for with: at the end of a patch, or in a repair of its own.
KeychainTouchedLast ==
  [][keychain' # keychain =>
       plan = "keychain" \/ (record = version /\ seal["app"] \in {"local", "development"})]_vars
=============================================================================
