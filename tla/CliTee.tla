-------------------------------- MODULE CliTee --------------------------------
(* internal/bundledclitee and internal/claudetee: the post-patch hook that puts *)
(* a tee in the place of the CLI an app has downloaded, with the roll-back of   *)
(* an install that fails.                                                       *)
EXTENDS PatchRun

VARIABLE cli
\* shim: the file the app starts, none, the vendor's, torn or the tee; real: whether
\* the vendor's is beside it as .real; signed: whether the pair is signed.

NoCli == [shim |-> "none", real |-> FALSE, signed |-> FALSE]
VendorCli == [shim |-> "vendor", real |-> FALSE, signed |-> TRUE]

\* Mutant: an install that fails leaves things as they are.
Rollback_Not == Fail /\ UNCHANGED cli

\* rollbackInstall: remove the shim, rename .real back. The rename may fail too.
Rollback ==
  \/ Fail /\ cli' = [VendorCli EXCEPT !.signed = cli.signed]
  \/ /\ faults + 2 <= MaxFaults
     /\ faults' = faults + 2 /\ UNCHANGED crashes /\ Ended("failed")
     /\ cli' = [cli EXCEPT !.shim = "none"]

\* The rest of the patch goes on without the tee.
SkipTee == GotoAfter("teeSign") /\ UNCHANGED <<faults, crashes, cli>>

\* PostPatchHook: nothing to wrap, or wrapped before.
SkipInstall ==
  /\ At("teeMove")
  /\ cli.shim = "none" \/ cli.real
  /\ SkipTee
  /\ UNCHANGED seal

\* performInstall: stop the processes of the CLI; those that stay defer the install ...
DeferInstall ==
  /\ At("teeMove")
  /\ cli.shim # "none" /\ ~cli.real
  /\ SkipTee
  /\ UNCHANGED seal

\* ... rename the CLI to .real ...
MoveCli ==
  /\ At("teeMove")
  /\ cli.shim # "none" /\ ~cli.real
  /\ \/ cli' = [cli EXCEPT !.shim = "none", !.real = TRUE] /\ Go
     \/ UNCHANGED cli /\ Stop
  /\ UNCHANGED seal

\* ... copy the tee into its place ...
WriteTee ==
  /\ At("teeCopy")
  /\ \/ cli' = [cli EXCEPT !.shim = "tee", !.signed = FALSE] /\ Go
     \/ Rollback
     \/ Die /\ \E f \in {"none", "torn"} : cli' = [cli EXCEPT !.shim = f]
  /\ UNCHANGED seal

\* ... and sign .real, the tee and the bundle around them.
SignTee ==
  /\ At("teeSign")
  /\ \/ cli' = [cli EXCEPT !.signed = TRUE] /\ Go
     \/ Rollback
     \/ Die /\ UNCHANGED cli
  /\ UNCHANGED seal

CliTeeNext == SkipInstall \/ DeferInstall \/ MoveCli \/ WriteTee \/ SignTee

CliTypeOK == cli \in [shim : {"none", "vendor", "torn", "tee"}, real : BOOLEAN, signed : BOOLEAN]

\* The comment of Install: the install never loses "the real binary", and an install
\* that fails puts it back. As long as no process died and no roll-back failed, the
\* app finds the vendor's CLI or a signed tee with the vendor's CLI behind it.
CliComesBack ==
  step \notin {"teeCopy", "teeSign"} /\ crashes = 0 /\ faults < 2 =>
    \/ cli = NoCli
    \/ cli.shim = "vendor"
    \/ cli.shim = "tee" /\ cli.real /\ cli.signed
=============================================================================
