---------------------------- MODULE ComputerUse ----------------------------
(* internal/computeruseext: the steps of a patch that make every copy of the   *)
(* Computer Use helper trust the local team: the one in the bundle, the one    *)
(* the app has installed, the cached ones, and the login authorization plugin. *)
EXTENDS PatchRun

VARIABLE trust  \* whom each copy trusts

Helpers == {"bundled", "installed", "cached"}
Copies == Helpers \union {"plugin"}

\* mixed: some of its surfaces changed, or not signed again. headless: a plugin
\* directory without its executable.
TrustInit ==
  trust \in {f \in [Copies -> {"absent", "upstream"}] : f["bundled"] = "upstream" /\ f["cached"] = f["installed"]}

Trusts(c, whom) == trust' = [trust EXCEPT ![c] = whom]

\* mutateComputerUseBundle: every binary and requirement is rewritten over a renamed
\* temporary file, then every sign target is signed.
Repair(c) ==
  \/ Trusts(c, "local") /\ Go
  \/ Trusts(c, "mixed") /\ Stop
  \/ UNCHANGED trust /\ Stop

\* MutateBundledComputerUse, inside the bundle and before its seal.
MutateBundledComputerUse ==
  /\ At("extend")
  /\ \/ Trusts("bundled", "local") /\ seal' = Sign(seal, "helper", "local") /\ Go
     \/ Trusts("bundled", "mixed") /\ seal' = Touch(seal, "helper") /\ Stop
     \/ UNCHANGED <<trust, seal>> /\ Stop

\* Mutant: without an installed helper the cache and the plugin are skipped too.
RepairInstalled_SkipsAll ==
  /\ At("installed")
  /\ \/ trust["installed"] # "absent" /\ Repair("installed")
     \/ trust["installed"] = "absent" /\ UNCHANGED trust /\ GotoAfter("pluginCopy") /\ UNCHANGED <<faults, crashes>>
  /\ UNCHANGED seal

\* LifecycleHook: the installed helper, or the note that there is none ...
RepairInstalled ==
  /\ At("installed")
  /\ \/ trust["installed"] # "absent" /\ Repair("installed")
     \/ trust["installed"] = "absent" /\ UNCHANGED trust /\ Go
  /\ UNCHANGED seal

\* ... patchComputerUseCache ...
RepairCached ==
  /\ At("cached")
  /\ \/ trust["cached"] # "absent" /\ Repair("cached")
     \/ trust["cached"] = "absent" /\ UNCHANGED trust /\ Go
  /\ UNCHANGED seal

\* ... patchComputerUseAuthPlugin: a copy of the plugin, or of the bundled helper's if
\* there is none, is changed and signed ...
StageAuthPlugin ==
  /\ At("plugin")
  /\ IF trust["plugin"] = "headless" THEN Refuse ELSE Go \/ Stop
  /\ UNCHANGED <<trust, seal>>

\* ... and rsync'd over it.
InstallAuthPlugin ==
  /\ At("pluginCopy")
  /\ \/ Trusts("plugin", "local") /\ Go
     \/ Trusts("plugin", IF trust["plugin"] = "absent" THEN "headless" ELSE "mixed") /\ Stop
     \/ UNCHANGED trust /\ Stop
  /\ UNCHANGED seal

\* VerifyBundledComputerUse: no upstream team and a local one in its binaries, outside
\* their signatures, and the signatures themselves.
HelperVerified == trust["bundled"] = "local" /\ seal["helper"] = "local"

VerifyBundledComputerUse ==
  /\ At("check")
  /\ IF HelperVerified THEN Go \/ Stop ELSE Refuse
  /\ UNCHANGED <<trust, seal>>

ComputerUseNext ==
  \/ MutateBundledComputerUse \/ RepairInstalled \/ RepairCached
  \/ StageAuthPlugin \/ InstallAuthPlugin \/ VerifyBundledComputerUse

TrustTypeOK == trust \in [Copies -> {"absent", "upstream", "mixed", "local", "headless"}]
=============================================================================
