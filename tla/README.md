# desktop-via-clyde in TLA+

desktop-via-clyde patches, upgrades and resets macOS desktop apps, and keeps them
and a few CLIs up to date with a daemon. This directory holds TLA+ models of its
core, TLC configurations that check them on small instances, and TLAPS proofs of
what they guarantee on all. Everything is translated from the Go source under
`internal/` (paths below are relative to it). `PROJECT.json` lists the runs, the
theorems, the hazards of the code with the properties that watch them, and the
source lines of every definition.

Run a check with `tlc -config MCBroadcaster.cfg MCBroadcaster.tla`, a proof with
`tlapm BroadcasterProofs.tla`.

## 1. The system

### Parts

| part | where | state | operations | modules |
|---|---|---|---|---|
| run broadcaster | `daemon/broadcaster.go` | events of one run, `done`, a mutex, a condition | `emit`, `finish`, `stream(ctx, send)` | `EventLog`, `Broadcaster` |
| executor | `daemon/executor.go` | `runs`: one active run per (operation, target) | `startOrAttach`, `startOrAttachCancelable`, `runJob`, `activeMatching` | `TargetLease`, `Executor` |
| jobs and RPCs | `daemon/operationjob.go`, `operations_rpc.go`, `updater_rpc.go`, `clioutput/session.go` | the session and run log of a job; the streams of an RPC | set-up, `operations.Run`, `finishRun`; `streamOperation`, `SubscribeActive` | `Executor` |
| daemon process | `daemon/run.go`, `server.go`, `selfupdate.go` | the socket, `signalCtx`, the gRPC server | serve, drain, exit, relaunch by launchd | `Daemon` |
| client | `daemon/client.go` | one operation | probe, stream, run in-process | `Daemon` |
| tick loop | `daemon/tick.go`, `loadavg.go` | `updaterState`, the pause, a load monitor per CLI upgrade | `loop`, `sweep`, `sweepCLIs`, `monitorCLIUpgradeLoad` | `Ticker` (its calls also in `Daemon`) |
| bundle swap | `bundlemutate/` | the app's bundle, `.dvc-old`, a staging root | `Mutate`, `StagedSwap`, `CommitSwap` and its roll-backs | `BundleSwap` |
| app guard | `appguard/` | processes of an app | `Running`, `EnsureClosed`: quit, TERM, KILL with a wait after each | `AppGuard` |
| upgrade | `upgrade/` | a download and its staging directory | `Run`: feed, download, minisign, extraction, staged swap; `handleCurrentVersion` | `Upgrade` |
| hard reset | `hardreset/` | privacy grants, artifacts, a record in `state.json` | `Run`: an ordered plan | `HardReset`; its record also in `StateFile` |
| state file | `state/` with its users in `patch/`, `hardreset/` | `state.json`, `stateMu` | `Load`, `Update` | `StateStore`, `StateFile` |
| patch pipeline | `patch/`, `devsign/`, `signing/`, `bundleidentity/` | the files of a bundle and their seals, launch policy, record, keychain items | `Patch`, `PrepareForSwap`, `FinalizeAfterSwap`, `KeychainMigrate`, hooks | `PatchRun`, `PatchPipeline`; two steps in `BundleSwap` |
| injector | `devsign/` | policy, dylib, `LSEnvironment` | `installInjector` | `Injector` |
| computer-use extension | `computeruseext/` | whom four copies of a helper and a login plugin trust | repairs and their verification, as hooks of a patch | `ComputerUse` |
| claude tee | `claudetee/`, `bundledclitee/` | a downloaded CLI and its `.real` | rename, install, sign, roll back | `CliTee` |
| stdio tee | `stdioteeshim/` | three pumps, a child, its pipes | copy, log, forward signals, exit, drain with a timeout | `StdioTee` |
| codex install | `codexcli/` | source, build tree, release, two links, `flock` | lock, reuse or build, package, replace, switch | `CodexInstall` |
| development assets | `appleportal/development.go`, `devpreflight/` | three resources of a team, certificates, four files | `GenerateDevelopmentAssets` | `AppleAssets` |
| batch | `batchops/` | a semaphore, a result per target | run N at a time, recover, cancel | not modelled |

Not modelled: command-line parsing and help (`clispec`, `operations`, `catalog`,
`cmd/`), static tables (`config`, `targets`, `spec`, `extensions`), the status
report, the launchd install, generated protobuf code, and the shim and injector that
live inside patched apps: they keep no state that outlives a call, or are not Go code
of this repository's process. `batchops` runs independent targets under a semaphore
and joins their errors; each of them is an operation modelled here, and what they share
is `state.json` (`StateFile`).

### How they interact

A CLI probes the daemon's socket (`client.go`). With a daemon it opens a
streaming RPC, whose handler asks the executor to start a run or to attach to an
equal one; without, it runs the operation itself. A run is a goroutine that
executes a job and emits events into its broadcaster, which replays them to each
subscriber from the first. The tick loop asks the executor in the same way, and
its load monitor can cancel the upgrade of a CLI. An upgrade checks a
feed, downloads, verifies and extracts, then stages a patched bundle and swaps it in
(`bundlemutate`), asking the app guard before it stages and again before it commits;
a bundle that is current is patched where it is. A patch runs hooks of the extensions
(injector, computer use, CLI tee), seals the bundle and records its result in
`state.json`; it generates missing signing assets first. A hard reset takes all of
that away again. On a signal the daemon stops accepting, waits for the streams in
progress, and exits.

### What is hard

* concurrency: the broadcaster's condition variable with a callback of the context
  (`broadcaster.go:53-60, 85`); requests, jobs and removal at the executor's
  registry (`executor.go:92-189`); a monitor that cancels an upgrade that is just
  ending (`tick.go:279-332`); one state file under several jobs (`state.go:59`);
* ordering: removal from the registry before subscribers are released
  (`executor.go:171-179`); decision sent before the context is cancelled
  (`tick.go:324-328`); the run log before the subscribers (`session.go`);
* failure: a panic or a failed set-up of a job; every step of a swap and of its
  roll-back; a patch in place, which has none; a crash anywhere in a swap, a patch, an
  install, a reset or a generation of assets, and the retry from what it left;
* staleness: a probe that is no longer true, an app opened while its upgrade is
  prepared, a requirement read long before it is written back, a release or a
  certificate of an earlier run that is reused;
* blocking: pumps between a parent that stalls and a child that waits.

### What makes each part correct

* broadcaster: every subscriber gets the whole run, in order, and returns; none holds
  up another or the run;
* executor: a target has one run; a refusal is justified; a target is released however
  its job ends; a failure reaches every caller; nobody's leaving stops a run that others
  depend on;
* daemon and client: an orderly stop cuts no stream off; it ends, and callers return, as
  soon as the operations that callers stream have;
* tick loop: what is deferred is retried soon; a CLI upgrade is stopped only for the load or a
  stop, and is then a deferral; the loop stops;
* bundle swap: the user's app is never lost; a failure changes nothing; success means
  the downloaded bundle, whole, patched and sealed; the app is closed when its bundle is replaced;
* upgrade: nothing the vendor did not sign is installed from a feed that is signed; a
  success is finished;
* hard reset: a success has forgotten the app, after however many that failed;
* state file: no update is lost; a vendor's requirement, once recorded, is kept;
* patch pipeline: the vendor's executable is never lost; a success is sealed after its last
  change and has finished what its plan installs; a patch can be repeated;
* extensions: the app never points to an injector that was not tested; all copies of the
  helper trust the local team; the CLI comes back when its tee cannot be installed;
* codex install: success is what was built from the commit, base and mode that were
  resolved; the old release goes only for a ready one; a dead holder's lock is released;
* development assets: no second certificate beside a usable one; what is on disk fits together;
* stdio tee: all output is forwarded before the exit code is (it is not, see section 3);
  nobody waits for ever;
* batch: at most N at a time; every target gets one result.

## 2. Modules

Each code module is one TLA+ module with one action per critical section or
per system call, and comes with its mutants: operators named after an action and
a fault (`Subscribe_TailOnly`), which stand for plausible bugs. For every property
of every run there is a mutant under which TLC finds it violated.

**EventLog, Broadcaster.** `mu`, `events`, `done` are the fields of the struct;
`sleepers` is the notify list of `cond`. `pc` follows a subscriber through
`stream`: subscribe, lock, `scan` (mu held), `check` and `send` (mu released),
`towait` and `asleep`. `HookWakes` is the `AfterFunc` callback that takes `mu` and
broadcasts. EventLog is what it promises: an append-only log, closed once, read
in order; `Broadcaster!ImplementsLog` refines it.

**TargetLease, Executor.** `runs` is the registry, keyed by operation and target;
`phase` follows a run's goroutine: started, working, returned, removed from the
registry, finished. A request attaches, is refused, or starts a run, in one
critical section. A job can fail in its set-up, end well or badly, be stopped by
its context (if cancelable), or panic; `Emits` lets the run log refuse the
terminal event. Calls stream at the grain of EventLog; of a run's events only the
terminal one is kept, progress events do not influence anything here, and
Broadcaster shows that a subscriber gets all of them in order. A skipped operation
counts as "ok". TargetLease is the promise: one holder per target, that works only
while it holds it.

**Daemon** extends Executor with the process: serving, draining, down; with CLI
processes, which probe, stream, or run locally; and with calls of the tick loop. When
the process ends its registry and goroutines are gone and streams break. `Stallers` are the
callers that may stop reading their stream. A stop cancels the context of the tick loop's
calls, those a sweep in progress has yet to make included: the sweep goes on while the
daemon drains, as `sweep` looks at no context between its targets.

**Ticker** is the tick loop: a sweep over apps, then CLIs, in any order within
each kind; what `checkUpdate`, `appRunning` and `checkCLILoad` say is a free choice.
The executor is what it looks like from here: one run of a target, started by this
loop or by a client, that ends when it likes. `monitor`, `sent` and `cancelled` are
the goroutine, the buffered channel `deferredCh` and `upgradeCtx` of each watched
CLI. `now` in a record says that `checkedAtUnix` is of this sweep.

**AppGuard, BundleSwap, Upgrade, HardReset** extend each other in this order, from
the inside out. AppGuard is `bundlemutate.Mutate`'s check for both policies, over a set
of processes that the user and the app change between any two steps; a wait of
`waitForExit` is the one list that ends it, an empty one or the one at the deadline.
BundleSwap is the staged upgrade over three paths: the bundle, `.dvc-old` and the
staging root. A bundle has a version, may be the debris of an interrupted removal, has
`.real` or not, and is sealed once Verify accepted it. An archive holds a bundle of some
version, which nothing compares with the version of the feed, and Stage stages that bundle.
Upgrade puts the feed, the
download, the signature (an archive may be altered, and a signature is what our key
signed in it), the extraction and the in-place patch before and beside it, for a
standard, a development-signed and a Tauri target, and lets the process die anywhere.
HardReset alternates resets with upgrades: `left` is what either left outside the
bundle, `grants` the rows of the privacy databases, `tracked` says that a reset has
seen all ids since the last upgrade and the last run of the app.

**PatchRun, Injector, ComputerUse, CliTee, PatchPipeline.** A patch is a sequence of
steps, `Pipeline`, which depends on the plan (standard or development) and the
extensions of the target; PatchRun holds that sequence, what a step can do (go on, fail,
be refused, be cut short, die) and `seal`, the signer of each piece of code, which a
changed file makes stale (`Touch`) and `codesign` renews. The other modules are the steps
of one component each, PatchPipeline the rest of them and their composition, with what
happens between patches: the vendor's updater, the app installing its helper or CLI, an
operator changing files or trust. A patch works in place or on a staged copy alike;
the swap around a staged one is BundleSwap.

**CodexInstall** is two processes at one package home: `lock` is the `flock`, `source`
the clone, `work` the stamped build tree with the order of its manifest's mtime and the
last build's (`newer`), `package`, `stage` and `release` the three directories a build goes
through, `current` and `bin` the links. A package has the version it says it is (`label`),
which `overwriteCodexPackageVersion` writes unseen, and the sources it was really built from
(`built`); the code compares labels only, and the properties speak of both.

**AppleAssets** numbers certificates, and a password by the certificate it was made
for. A request to the portal can fail before or after it took effect, a file can be lost
(the shipped policy keeps them under `/tmp`), a certificate revoked. `minted` counts the
certificates ever created, `serial` is the one on record.

**StdioTee** counts chunks in the three pipes. `writable` and `readable` say whether any
process holds an end open, so a grandchild can keep them from ending; the parent can
stall or close each stream; a log write can fail without a trace in the state, so
`Logged` is the same step with and without it.

**StateStore, StateFile.** Workers patch and reset targets: read the recorded
requirement without the lock (`resolveOriginalDRForPatch`), later lock, load,
save (`Update`). `Processes` and `Home` say which process a worker belongs to;
`stateMu` is per process. StateStore is a table whose records are set atomically.

**BroadcasterProofs, DaemonProofs** (about the executor, alone and in its process)**,
TickerProofs, StateFileProofs, HardResetProofs** (about upgrades and resets together)**,
PatchPipelineProofs** (about all modules of a patch)**, CodexInstallProofs,
AppleAssetsProofs** hold the theorems. MC modules only choose instances.

## 3. Runs

| run | shows | instance |
|---|---|---|
| `broadcaster` | no lost wake-up, every stream returns, refinement of EventLog | 2 subscribers, one of which may stall; 2 events |
| `executor` | refinement of TargetLease (one run per target), no stale registry, no shared run stopped by somebody else, failures reach every caller, refusals are justified | 2 operations, 2 targets, 2 requests and a SubscribeActive, 2 runs |
| `daemon` | an orderly stop cuts no stream off; draining is held up only by operations that callers stream and by callers that stopped reading; whoever reads, or is cancelled, returns | 1 operation, a CLI, a watcher that may stall and a tick call, 1 run, 1 exit or crash |
| `ticker` | the pause fits what the sweep recorded; a stop for the load is a deferral; the loop ends on a stop; no monitor is left behind | 1 app, a watched and an unwatched CLI, unboundedly many sweeps |
| `bundle_swap` | failures restore, success installs, the commit follows a fresh check, the user's app is never lost, only vendor's bundles from a signed feed, a reset forgets the app | 3 upgrades or resets, 1 failure, 2 crashes, 2 versions, 2 processes, all three kinds of target |
| `state_file` | a recorded requirement is kept, refinement of StateStore (no lost update) | 2 workers of 1 process, 2 targets, unboundedly many operations |
| `codex_install` | success installs its build, an old release goes for a ready one, a base bump advances the mtime, waiters get on | 2 processes, 3 installs, 2 commits, 2 tags, both build modes, 1 failure, 1 kill |
| `dev_assets` | assets fit together, no certificate beside one on record | 3 generations, 3 certificates, 2 failures, 1 kill, 2 losses |
| `patch` | the vendor's executable is kept, only listed states refuse, success has finished its plan, helpers trust the local team, the environment finds its injector, the CLI comes back, the keychain comes last | 3 patches or repairs, each policy, 2 failures, 1 kill, 2 changes in between |
| `stdio_tee` | the helper ends with its child, input ends, output flows | pipes of 1 chunk, 1 signal, unboundedly many chunks |

Why these bounds. Two subscribers are one that can disturb and one that can be
disturbed; two events let one be sent while another arrives. Two requests, a
watcher and two runs give an attach, either conflict, two runs at once under one
watcher, and a second run of a target after the first. One exit puts the daemon in each
of its states with calls at every stage. Three attempts with two crashes let a crash
hit a commit, a reset or a removal and then the recovery from it, with an attempt left
to judge. Three installs are one to replace, one to reuse and one to wait. Three
patches are one that breaks, one of the other strategy, one that repairs. A pipe of one
chunk is full as soon as it is not empty, which is the state that blocks. Ticker,
StateFile and StdioTee have no bound on time: their state spaces close on themselves.
The constants named `Max...`, `Capacity` and the sets `RunIds`, `Calls` and `Procs` are the
only bounds of the models. Symmetry is used for safety only (`executor`, `bundle_swap`,
`state_file`), over sets no definition distinguishes.

`CHECK_DEADLOCK FALSE` stands where a model really stops: all events emitted and read,
all calls made, all attempts used up, the helper gone. Ticker and StateFile never stop, and
TLC checks that.

### Fairness

* Broadcaster: a goroutine that can run does (weak fairness of its steps and of
  the callback). A `send` returns if the peer reads or the stream is cancelled,
  which is gRPC's promise. A staller's send, subscribing, cancelling, emitting and
  finishing have none: a job may hang for ever.
* Daemon: the deferred clean-up of a job that has returned, streams, and the end of
  Run. The body of a job has none, since nothing gives an operation a deadline, and neither
  has a `Send` to a peer that stopped reading, which returns when its context ends or the
  connection breaks (`StreamReturns`). `DrainEnds` and `CallsReturn` therefore speak of runs
  whose jobs have ended, under callers that read or were cancelled; a caller that stops
  reading without leaving does hold up a stop of the daemon for ever.
* Ticker: the loop's steps, that is, its calls other than jobs return; they take its context
  or have timeouts. Jobs have none. A monitor decides in bounded time
  (`loadAverageTimeout`), and a `select` that finds `ctx.Done` or `doneCh` ready
  again and again takes it at some time (strong fairness: Go's select chooses at random).

* CodexInstall: an install that holds the lock goes on (its commands run under a context
  and its build has no other way to hang that the code knows of); upstream, failures and
  kills have none.
* StdioTee: goroutines that can run do, and the timer of `waitForPumps` fires. The child
  reads its input as long as it runs; nothing makes it write or exit, nor the parent read.

### Disagreements with what the code says of itself

| run | the text | the behaviour |
|---|---|---|
| `setup_failure` | "The operation's outcome ... is carried to every subscriber through the terminal events finishRun emits" (`operationjob.go:63`) | a job that fails in its set-up, panics, or whose terminal event the run log refuses ends its stream without one, and `renderOperationStream` reports success |
| `last_output_lost` | "teePump copies bytes from src to dst ... It blocks until src returns EOF or a non-recoverable error" (`stdioteeshim.go:150`) | `waitForChildExit` calls `cmd.Wait` beside the pumps; `Wait` closes the pipes when the child has exited, and what the child wrote last is neither forwarded nor logged |

Met while modelling, without a run:

* daemon: on SIGTERM `Run` returns once no RPC streams, so a job the tick loop started dies with
  the process, between the two renames of a swap too, although "Detach cancellation so a
  bundle swap finishes" (`executor.go:182`); a caller that keeps its stream open without reading
  keeps the daemon from exiting, since `GracefulStop` has no deadline;
* client: while the daemon drains, a CLI finds the socket closed and works on the same target
  itself, outside the executor ("blocked because both would touch the same bundle",
  `executor.go:65`); batch operations never ask the daemon;
* executor: a request that attaches gets the flags of the run it attaches to, although
  "exact duplicate" compares operation and target only;
* swap: "CommitSwap atomically replaces the live bundle" (`bundlemutate.go:160`) with two
  renames: a crash between them leaves no app, and the next attempt finds `.dvc-old`
  alone and refuses; a hard reset does not remove it either, so upgrades go on being refused;
  `.dvc-old` of an interrupted attempt is removed before the new bundle is verified;
* guard: a failed `ps` reads as "not running" under the deferring policy, also for the
  check before a commit; a process started in the wait after TERM is killed unasked;
* upgrade: any version other than the installed one is installed, older ones too, and the
  version of what was extracted is not compared with the feed's: an archive of another version
  is installed and reported as a success, and upgraded again by the next sweep; feeds other than Tauri's
  carry no signature; only `.real` tells a patched bundle, so after an in-place patch that failed
  behind `stepMoveToReal` every later upgrade to that version says "nothing to do", and a
  development-signed bundle, which has none, is patched again by every upgrade; a killed
  upgrade leaves its directory under `upgrade-staging` until a hard reset;
* hard reset: rows of ids that only the bundle names stay when a reset finds the bundle gone
  or partial; a system database that cannot be read counts as one without rows; the
  guard is asked once, before everything;
* patch: a target that changes from development to standard signing, or back, keeps what
  the other strategy made (`LSEnvironment`, the shim and `.real`); launch policy and
  injector policy are written in place, so a development patch reports success over a shim
  whose launch policy a killed standard patch tore, which then refuses to start, and a
  standard patch over an `LSEnvironment` whose injector policy a failed development patch
  tore (`SuccessFinishesItsPlan` leaves both out); preserved nested code is lost when
  `rsync` fails behind `RemoveAll` (`patch.go:444-447`) and so is a keychain item between
  `delete` and `add` (`keychain.go:96-109`), for good; a nested `.app` is signed with
  entitlements of its host;
* CLI tee: a process that dies between the rename of the CLI and the copy of the tee leaves
  no CLI, which later patches take for one that was not downloaded; a hard reset repairs it;
* computer use: a login plugin whose copy with `sudo` was interrupted cannot be repaired by
  a patch (`OnlyTheseRefuse`, "headless");
* assets: after a lost file or a revoked certificate a new certificate is minted, but the
  profile is found by its name and lists the old one, so a generation that reports success
  leaves a profile that does not authorize the key (`development.go:325-337`), against
  "mints (or refreshes)"; a generation that fails in `openssl` has replaced the password of
  the key that is still there;
* codex: the version of a package is written into it and then compared with what was written,
  so only the order of the steps under the lock ties a release to its sources; a release is
  reused for its manifest and binary alone, so one that a removal left
  half-way can be reused without its other files; after a build that failed or was killed a
  base bump may keep the manifest's mtime;
* tee: a signal that arrives before `signal.Notify` kills the helper and leaves its child
  alone; a parent that closes its end kills it by SIGPIPE; with a parent that keeps stdin
  open every exit takes the half second of `waitForPumps`;
* state: one stale record of the local team makes every update of `state.json` fail until that
  target is reset or patched; updates of a CLI in local mode and of the daemon can undo each
  other, `stateMu` is per process;
* tick loop: a conflict is recorded as "upgrading"; an upgrade that completes while its
  monitor is deciding can be recorded as deferred, or not at all; an aborted CLI upgrade
  leaves the previous sweep's outcome in the status; after a stop, the sweep in progress
  goes on and starts upgrades under a context that is already cancelled: one of a CLI is stopped
  by it, one of an app works on while the daemon drains and dies with it.

## 4. Proofs

All proofs are checked by `tlapm` with Z3, Zenon and LS4, without assumptions other
than the named ones of the modules, which TLC evaluates in every run.

**Broadcaster** (any subscribers and events): `TypeCorrect`, `LockIsShort`,
`Replay`, `NoWakeupIsLost`, `DrainIsComplete`, `Refinement` to EventLog. The
invariant adds to these how far a subscriber's `sent` is behind its `index` at each
line of `stream`, that nobody in a critical section sees an event appended, and that the
callback's broadcast is still to come while a cancelled subscriber waits.

**Executor** (in DaemonProofs; any operations, targets, calls, runs): `TypeCorrect`,
`MutualExclusion`, `RefusalsAreJustified`, `Refinement` to TargetLease,
`NoStaleRegistry`, `NobodyElseAborts`, `FailuresAreReported`. `OneRunPerTarget` speaks
of phases and is not inductive: it follows from the registry, whose entries are exactly
the live runs, each under its own key (`RegisteredIsLive`, `LiveIsRegistered`), and which
has one key per target (`OneKeyPerTarget`), which is what the scan for conflicts preserves.
The streaming theorems need that a run emits nothing after it has returned and that a
caller has noted every failure among the events it has seen; `NobodyElseAborts` that a call
follows only runs that are cancelable exactly if its request is (`AskedForIt`), whoever
started them, and that only such a run is ever aborted (`AbortedIsCancelable`).

**Ticker** (any apps and CLIs): `TypeCorrect`, `PauseFitsSweep`,
`LoadStopsAreDeferrals`. The invariant says that `deferred` and the records of this sweep
agree, that targets still to come have no record of this sweep, and that the monitor's
decision is in the channel before the context is cancelled (`SentFirst`).

**StateFile**: `TypeCorrect` and `NothingLocalSaved` for any processes;
`RequirementsSurvive` and `Refinement` to StateStore under `OneProcess`: whoever is about
to save has loaded what the file still says (`FreshCopy`), jobs in progress have
different targets (`Exclusive`), and what a patch has resolved agrees with what is on
record (`Agrees`).

**Daemon** (any callers, runs and exits): `NothingOutlivesIt` and
`OrderlyStopsCutNothing`. The run properties are nearly inductive: the invariant adds that
a call without a stream follows no run (`NotYet`), and that a process that is down has
neither streams nor a registry (`Ends`). `ExecutorSurvivesExits`, `RefusalsSurviveExits` and
`LeaseSurvivesExits` carry the theorems of the executor over to the composition: to the
executor a step of the daemon is one of its own, the end of its process, or a signal that
cancels contexts (`ExecutorSees`), and the last two keep its invariants, whose types allow
for runs that went with their process (`ExecutorTypes`). The lease starts afresh with every
process (`LeasePerLife`). These theorems are about one process at a time: an operation that a
CLI runs itself is outside of the executor.

**PatchPipeline**, and with it PatchRun, Injector, ComputerUse and CliTee (any number of
patches, changes, failures and kills): `TypeCorrect`, `VendorBinaryStays`,
`RefusalsAreNamed`, `SuccessIsFinished` (of what the run's own plan and policy install),
`HelpersAreLocal`, `InjectorIsFound`, `CliIsRestored`, `KeychainIsLast`. What a success
means is spread over all steps of a pipeline, some of which a plan or a policy leaves out,
so none of these properties is inductive. `Done` is the set of the steps behind a run, and
the invariant says what each of them has left that no later step takes back, part by part:
files of the bundle (`BundleInv`), injector (`InjectorInv`), helpers (`HelpersInv`), seals
(`SealInv`), CLI and tee (`TeeInv`). Beside it stands what no step of any plan undoes
(`CodeInv`): without `.real` the executable is the vendor's, and nested code is never left
stale. `Places` gives the place of every step in either pipeline, `GoesOn` and `StepTaken`
say that a run moves to the next step that applies and puts exactly what it passes into
`Done`, and `ChangedBeforeSeal` that every change to signed code comes before the seal
that covers it. There is one lemma per action; at the end of a run all steps that apply
are done (`AllDone`).

**HardReset**, and with it Upgrade, BundleSwap and AppGuard (any processes, versions, attempts,
failures and crashes; versions are not called like the two marks for no bundle and a
partial one, `VersionsAssumption`): `AppIsNeverLost`, `FailuresRestore`, `SuccessIsInstalled`,
`CommitsAreChecked`, `VendorSigned`, `ResetsForget`. No single one of them is inductive. The
invariant says for every step of an upgrade what the staged, the live and the old bundle
are (`Prepared`, `Restores`, `OldGone`), on which steps it is failing (`Failing`), that a whole
copy of the app is live or old (`Safe`, under the conditions the property names, which
only ever cease to hold), and for every step of a reset what is already gone
(`Cleared`, `Tracked`).

**CodexInstall** (any processes, modes, commits, tags, installs, failures and kills):
`OneInstallAtATime`, `SuccessIsItsBuild`, `BumpsAreSeen`, `SuccessorsAreReady`. The
invariant ties the lock to whoever is past it (`Exclusive`), says what that process has
made by each step (`AtStep`: which sources the tree, the entrypoint and the package are
really of), that a release which could be reused was built from what it says it is
(`Labelled`), and, as long as nothing failed or died, that a release is whole or gone
(`Whole`) and that the stamped manifest names the base of the last build (`Stamped`). One
lemma (`Others`) shows that a step of the holder disturbs no one. The latest stable tag
exists because the tags are a non-empty set below a bound.

**AppleAssets** (any generations, certificates, failures, crashes and losses): `SuccessFits`
and `NoSecondCertificate`. The invariant says which files a generation has
written by each step (`Fits`) and that, while nothing was lost, the first serial on record
ends the minting, for its certificate resolves and its key opens (`NothingLost`).

Model-checked only: liveness (`StreamsReturn`, `DrainEnds`, `CallsReturn`, `StopEndsLoop`,
`MonitorsEnd`, `WaitersGetOn`, `ShimExits`, `InputEnds`, `OutputFlows`), which is out of the
prover's reach; with it StdioTee, whose properties are all of that kind; and the two
disagreements. Every invariant and every action property that a run checks, other than those
two, is a theorem.

## 5. What is left out

* Executor: conversion of events, correlation ids, the text of GetUpdaterStatus.
* Daemon: the exit of `Run` on a serve error, GetStatus, the removal of a stale
  socket at start-up. The self-update scheduler is one more source of a stop.
* Ticker: the arithmetic of load and working hours; versions in the records.
* BundleSwap, Upgrade: dry runs, the choice of the staging volume, the formats of feeds and
  archives, two upgrades of one app at once (Executor is about that). Inside the swap,
  patching is what it does to `.real` and to the seal; PatchPipeline has its steps.
* HardReset: dry runs; which database a failed `sqlite3` belongs to; two kinds of target
  stand for all combinations of extensions.
* PatchPipeline: the contents of entitlements and of signatures, beyond who signed;
  `DryRun`; a staged patch and an in-place one differ only in where they work.
* CodexInstall: cargo, git, python and `codesign` themselves; several package homes.
* AppleAssets: `DevSigningDir()`, where a patch generates missing files, and the paths of
  the policy, which it looks at to see what is missing, are taken for the same files; JWT
  and the wire format of the portal, pages of results, two generations at once in one
  directory, the Developer ID provisioning command.
* StdioTee: the bytes; several signals at once beyond the bound of its queue.
* StateFile: fields of a record other than version and requirement. What the
  state file holds at first is arbitrary, so it can predate the local team.
* Batch, and the parts listed below the table in section 1.

## 6. Plan

1. `Batch`: N workers over the executor's operations, panics, cancellation while waiting
   for the semaphore, one result each.
2. `DaemonSocket`: `listenUnix` and the stale socket, two daemons, the serve-error path
   of `Run`.
3. The pure algorithms (working hours, version comparison, signing order) against
   reference definitions.
4. Proofs: the types of StdioTee.
