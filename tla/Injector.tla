------------------------------ MODULE Injector ------------------------------
(* internal/devsign: installInjector, the steps of a patch that put the proxy  *)
(* injector outside the bundle and point the app at it. The app may be started *)
(* at any time after, with whatever an interrupted patch has left.             *)
EXTENDS PatchRun

VARIABLES
  policyFile, \* the policy the injector reads: none, torn, whole
  dylib,      \* the injector: none, tested
  env         \* LSEnvironment of Info.plist: the vendor's, partial, set

injector == <<policyFile, dylib, env>>

InjectorInit == policyFile = "none" /\ dylib = "none" /\ env = "vendor"

\* writeInjectorPolicy: in place of the policy a running app may be reading.
WriteInjectorPolicy ==
  /\ At("policy")
  /\ \/ policyFile' = "whole" /\ Go
     \/ policyFile' \in {policyFile, "torn"} /\ Stop
  /\ UNCHANGED <<dylib, env, seal>>

\* stageInjectorDylib, signInjector: on a temporary file, which the next patch
\* overwrites.
StageInjector ==
  /\ At("dylib")
  /\ Go \/ Stop
  /\ UNCHANGED <<injector, seal>>

\* verifyInjector: the smoke test of that file, with the policy just written.
SmokeTestInjector ==
  /\ At("smoke")
  /\ IF policyFile = "whole" THEN Go \/ Stop ELSE Refuse
  /\ UNCHANGED <<injector, seal>>

\* The rename into place, and removeAppLocalInjector.
InstallInjector ==
  /\ At("install")
  /\ \/ dylib' = "tested" /\ (Go \/ Stop)
     \/ UNCHANGED dylib /\ Stop
  /\ UNCHANGED <<policyFile, env, seal>>

\* setInjectorEnvironment: delete the dictionary, add it again key by key.
SetInjectorEnvironment ==
  /\ At("env")
  /\ \/ env' = "set" /\ seal' = Touch(seal, "app") /\ Go
     \/ env' = "partial" /\ seal' = Touch(seal, "app") /\ Stop
     \/ UNCHANGED <<env, seal>> /\ Stop
  /\ UNCHANGED <<policyFile, dylib>>

InjectorNext ==
  \/ WriteInjectorPolicy \/ StageInjector \/ SmokeTestInjector \/ InstallInjector
  \/ SetInjectorEnvironment

InjectorTypeOK ==
  /\ policyFile \in {"none", "torn", "whole"}
  /\ dylib \in {"none", "tested"}
  /\ env \in {"vendor", "partial", "set"}

\* The environment of the app never names an injector that did not pass its smoke
\* test, or a policy that was never written, however a patch was interrupted: the
\* app would not start, or run without its proxy.
EnvironmentFindsInjector == env # "vendor" => dylib = "tested" /\ policyFile # "none"
=============================================================================
