---------------------------- MODULE CodexInstall ----------------------------
(* internal/codexcli: processes that build the Codex CLI from a shared         *)
(* checkout and install it as one shared release, one at a time under a file   *)
(* lock, while upstream moves on, steps fail and processes are killed.         *)
EXTENDS Naturals, FiniteSets

CONSTANTS
  Installers,  \* the processes that may run Install
  NoOwner,     \* the install lock is free
  Modes,       \* build modes
  MaxHead,     \* bound: commits on upstream's main
  MaxTag,      \* bound: stable release tags
  MaxRuns,     \* bound: installs started
  MaxFaults,   \* bound: commands and file operations that fail
  MaxCrashes   \* bound: processes killed in the middle of an install

ASSUME CodexInstallAssumption ==
  /\ NoOwner \notin Installers
  /\ MaxHead \in Nat \ {0} /\ MaxTag \in Nat \ {0}
  /\ MaxRuns \in Nat /\ MaxFaults \in Nat /\ MaxCrashes \in Nat
  /\ "none" \notin Modes

VARIABLES
  head, tags,     \* upstream: the commit on main, the rust-v tags
  lock,           \* the holder of .install.lock
  source,         \* the checkout: none, or the commit it is at
  work,           \* the stamped copy of the source under build/work
  compiled,       \* base version of the last completed cargo build
  entry, package, \* the built entrypoint and the package made from it
  stage, release, \* .staging.latest-main and latest-main
  current, bin,   \* the two links on the way from the command to the release
  pc, id, forced, previous, outcome,  \* each installer's step and locals
  runs, faults, crashes

upstream == <<head, tags>>
build == <<source, work, compiled, entry, package>>
installed == <<stage, release, current, bin>>
locals == <<id, forced, previous>>
vars == <<upstream, lock, build, installed, pc, locals, outcome, runs, faults, crashes>>

NoIdentity == [head |-> 0, base |-> 0, mode |-> "none"]
Identities == {NoIdentity} \union [head : 1..MaxHead, base : 1..MaxTag, mode : Modes]

\* A package: the build its metadata names, the build its entrypoint is of, whether that
\* is signed, whether the parts the reuse check looks at are there (metadata, signed
\* entrypoint), and whether all is.
None == [label |-> NoIdentity, built |-> NoIdentity,
         signed |-> FALSE, core |-> FALSE, whole |-> FALSE]
Packages ==
  [label : Identities, built : Identities, signed : BOOLEAN, core : BOOLEAN, whole : BOOLEAN]

NoWork == [head |-> 0, base |-> 0, newer |-> FALSE]
NoEntry == [built |-> NoIdentity, signed |-> FALSE]

Building == {"update", "identity", "reuse", "sync", "stamp", "tools", "compile", "sign",
             "package", "version"}
Installing == {"stage", "drop", "promote", "uncurrent", "current", "unbin", "bin", "check"}
UnderLock == Building \union Installing \union {"unlock"}

Init ==
  /\ head = 1 /\ tags = {1}
  /\ lock = NoOwner
  /\ source = 0 /\ work = NoWork /\ compiled = 0
  /\ entry = NoEntry /\ package = None
  /\ stage = None /\ release = None
  /\ current = FALSE /\ bin = FALSE
  /\ pc = [i \in Installers |-> "idle"]
  /\ id = [i \in Installers |-> NoIdentity]
  /\ forced = [i \in Installers |-> FALSE]
  /\ previous = [i \in Installers |-> 0]
  /\ outcome = [i \in Installers |-> "none"]
  /\ runs = 0 /\ faults = 0 /\ crashes = 0

-----------------------------------------------------------------------------
\* Upstream pushes a commit, or tags a stable release, perhaps of an older line.
Push == head < MaxHead /\ head' = head + 1 /\ UNCHANGED tags
Tag == \E t \in (1..MaxTag) \ tags : tags' = tags \union {t} /\ UNCHANGED head

Upstream ==
  /\ Push \/ Tag
  /\ UNCHANGED <<lock, build, installed, pc, locals, outcome, runs, faults, crashes>>

\* selectLatestStableRustVersion
LatestStable == CHOOSE t \in tags : \A u \in tags : u <= t

Goto(i, step) == pc' = [pc EXCEPT ![i] = step] /\ UNCHANGED <<outcome, faults>>

\* A return: the deferred release of the lock is still to come.
Succeed(i) == pc' = [pc EXCEPT ![i] = "unlock"] /\ outcome' = [outcome EXCEPT ![i] = "ok"] /\ UNCHANGED faults
Fault(i) ==
  /\ faults < MaxFaults
  /\ faults' = faults + 1
  /\ pc' = [pc EXCEPT ![i] = "unlock"]
  /\ outcome' = [outcome EXCEPT ![i] = "error"]

\* The process has returned: its locals are gone.
Gone(i) ==
  /\ pc' = [pc EXCEPT ![i] = "idle"]
  /\ id' = [id EXCEPT ![i] = NoIdentity]
  /\ forced' = [forced EXCEPT ![i] = FALSE]
  /\ previous' = [previous EXCEPT ![i] = 0]
  /\ outcome' = [outcome EXCEPT ![i] = "none"]

\* What is left of a build is not read by a later install: each writes its own.
Forget == entry' = NoEntry /\ package' = None /\ stage' = None

\* What no step of the holder of the lock changes.
Static == UNCHANGED <<upstream, lock, runs, crashes>>

\* Install with valid options, up to acquireCodexInstallLock.
Begin(i, m, f) ==
  /\ pc[i] = "idle"
  /\ runs < MaxRuns
  /\ runs' = runs + 1
  /\ pc' = [pc EXCEPT ![i] = "lock"]
  /\ id' = [id EXCEPT ![i] = [NoIdentity EXCEPT !.mode = m]]
  /\ forced' = [forced EXCEPT ![i] = f]
  /\ outcome' = [outcome EXCEPT ![i] = "none"]
  /\ UNCHANGED <<upstream, lock, build, installed, previous, faults, crashes>>

\* Mutant: an install does not wait for the one that is going on.
Lock_Shared(i) ==
  /\ pc[i] = "lock"
  /\ lock' = i /\ Goto(i, "update")
  /\ UNCHANGED <<locals, upstream, build, installed, runs, crashes>>

\* One round of the poll: the lock is free and taken, or flock fails outright. A
\* round that finds it held sleeps and changes nothing.
Lock(i) ==
  /\ pc[i] = "lock"
  /\ \/ lock = NoOwner /\ lock' = i /\ Goto(i, "update")
        /\ UNCHANGED locals
     \/ faults < MaxFaults /\ faults' = faults + 1 /\ Gone(i) /\ UNCHANGED lock
  /\ UNCHANGED <<upstream, build, installed, runs, crashes>>

\* ctx is done while the installer waits.
GiveUp(i) ==
  /\ pc[i] = "lock"
  /\ lock # NoOwner
  /\ Gone(i)
  /\ UNCHANGED <<upstream, lock, build, installed, runs, faults, crashes>>

\* cloneOrUpdateSource: clone if there is nothing, fetch, check out what was fetched.
Update(i) ==
  /\ pc[i] = "update"
  /\ \/ source' = head /\ Goto(i, "identity")
     \/ Fault(i) /\ source' \in {source} \union (IF source = 0 THEN {head} ELSE {})
  /\ UNCHANGED <<work, compiled, entry, package, installed, locals>> /\ Static

\* resolveCodexBuildIdentity: the commit and tree of the checkout, the stable version
\* from upstream's tags as they are now, and the mode.
Identity(i) ==
  /\ pc[i] = "identity"
  /\ \/ /\ id' = [id EXCEPT ![i].head = source, ![i].base = LatestStable]
        /\ Goto(i, "reuse")
     \/ Fault(i) /\ UNCHANGED id
  /\ UNCHANGED <<build, installed, forced, previous>> /\ Static

\* verifyReleaseCandidate goes by what the release says it is.
Reusable(i) == release.core /\ release.signed /\ release.label = id[i]

\* Mutant: the version of the installed release is not compared.
Reuse_AnyVersion(i) ==
  /\ pc[i] = "reuse"
  /\ Goto(i, IF ~forced[i] /\ release.core THEN "uncurrent" ELSE "sync")
  /\ UNCHANGED <<build, installed, locals>> /\ Static

\* maybeReuseInstalledRelease: relink a release of this very version, or build.
Reuse(i) ==
  /\ pc[i] = "reuse"
  /\ \/ Goto(i, IF ~forced[i] /\ Reusable(i) THEN "uncurrent" ELSE "sync")
     \/ ~forced[i] /\ Fault(i)
  /\ UNCHANGED <<build, installed, locals>> /\ Static

\* Mutant: a copy that is stamped with the base version already is not mirrored again.
Sync_SameBase(i) ==
  /\ pc[i] = "sync"
  /\ previous' = [previous EXCEPT ![i] = work.base]
  /\ work' = (IF work.base = id[i].base THEN work ELSE [head |-> source, base |-> 0, newer |-> FALSE])
  /\ Goto(i, "stamp")
  /\ UNCHANGED <<source, compiled, entry, package, installed, id, forced>> /\ Static

\* prepareStampedBuildSource: note the base version stamped by the build before,
\* mirror the source over it; the mirrored manifest has the source's mtime ...
Sync(i) ==
  /\ pc[i] = "sync"
  /\ previous' = [previous EXCEPT ![i] = work.base]
  /\ \/ work' = [head |-> source, base |-> 0, newer |-> FALSE] /\ Goto(i, "stamp")
     \/ Fault(i) /\ work' \in {work, [head |-> source, base |-> 0, newer |-> FALSE]}
  /\ UNCHANGED <<source, compiled, entry, package, installed, id, forced>> /\ Static

\* Mutant: the mtime of the workspace manifest is kept whatever changed.
Stamp_KeepsMtime(i) ==
  /\ pc[i] = "stamp"
  /\ work' = [work EXCEPT !.base = id[i].base] /\ Goto(i, "tools")
  /\ UNCHANGED <<source, compiled, entry, package, installed, locals>> /\ Static

\* ... stampCodexBuildSource: write the base version, and put the mtime back when the
\* base is the one noted before the mirroring.
Stamp(i) ==
  /\ pc[i] = "stamp"
  /\ \/ /\ work' = [work EXCEPT !.base = id[i].base, !.newer = previous[i] # id[i].base]
        /\ Goto(i, "tools")
     \/ Fault(i) /\ UNCHANGED work
  /\ previous' = [previous EXCEPT ![i] = 0]
  /\ UNCHANGED <<source, compiled, entry, package, installed, id, forced>> /\ Static

\* ensureRustToolchain and cargoBuildEnv: rustup, python and upstream's own scripts
\* must be there and agree; nothing of the install depends on what they answer.
Tools(i) ==
  /\ pc[i] = "tools"
  /\ Goto(i, "compile") \/ Fault(i)
  /\ UNCHANGED <<build, installed, locals>> /\ Static

\* buildEntrypoint: cargo, from the stamped copy, whatever that is.
Compile(i) ==
  /\ pc[i] = "compile"
  /\ \/ /\ compiled' = id[i].base
        /\ work' = [work EXCEPT !.newer = FALSE]
        /\ entry' = [built |-> [id[i] EXCEPT !.head = work.head, !.base = work.base],
                     signed |-> FALSE]
        /\ Goto(i, "sign")
     \/ Fault(i) /\ UNCHANGED <<compiled, work, entry>>
  /\ UNCHANGED <<source, package, installed, locals>> /\ Static

\* signBinary
Sign(i) ==
  /\ pc[i] = "sign"
  /\ \/ entry' = [entry EXCEPT !.signed = TRUE] /\ Goto(i, "package")
     \/ Fault(i) /\ UNCHANGED entry
  /\ UNCHANGED <<source, work, compiled, package, installed, locals>> /\ Static

\* buildPackage: upstream's script names the package after the base version only ...
Package(i) ==
  /\ pc[i] = "package"
  /\ \/ /\ package' = [label |-> NoIdentity, built |-> entry.built, signed |-> entry.signed,
                       core |-> TRUE, whole |-> TRUE]
        /\ Goto(i, "version")
     \/ Fault(i) /\ package' = None
  /\ UNCHANGED <<source, work, compiled, entry, installed, locals>> /\ Static

\* ... overwriteCodexPackageVersion names it after the build that was resolved, whatever
\* it was built from, and readStampedPackageMetadata reads that name back.
Version(i) ==
  /\ pc[i] = "version"
  /\ \/ package' = [package EXCEPT !.label = id[i]] /\ Goto(i, "stage")
     \/ Fault(i) /\ package' \in {package, [package EXCEPT !.core = FALSE, !.whole = FALSE]}
  /\ UNCHANGED <<source, work, compiled, entry, installed, locals>> /\ Static

\* Mutant: the old release goes before the new one is staged.
Stage_DropsFirst(i) ==
  /\ pc[i] = "stage"
  /\ release' = None
  /\ stage' = package /\ Goto(i, "promote")
  /\ UNCHANGED <<build, current, bin, locals>> /\ Static

\* installPackage: a fresh staging directory with a copy of the package ...
Stage(i) ==
  /\ pc[i] = "stage"
  /\ \/ stage' = package /\ Goto(i, "drop")
     \/ Fault(i) /\ stage' \in {stage, None, [package EXCEPT !.core = FALSE, !.whole = FALSE]}
  /\ UNCHANGED <<build, release, current, bin, locals>> /\ Static

\* What a removal that stops half-way can leave of a package.
HalfRemoved(p) ==
  IF p = None THEN {None}
  ELSE {p, None, [p EXCEPT !.whole = FALSE], [p EXCEPT !.core = FALSE, !.whole = FALSE]}

\* ... then the old release is removed ...
Drop(i) ==
  /\ pc[i] = "drop"
  /\ \/ release' = None /\ Goto(i, "promote")
     \/ Fault(i) /\ release' \in HalfRemoved(release)
  /\ UNCHANGED <<build, stage, current, bin, locals>> /\ Static

\* ... and the staged one renamed into its place.
Promote(i) ==
  /\ pc[i] = "promote"
  /\ \/ release' = stage /\ stage' = None /\ Goto(i, "uncurrent")
     \/ Fault(i) /\ UNCHANGED <<release, stage>>
  /\ UNCHANGED <<build, current, bin, locals>> /\ Static

\* replaceSymlink: the link is removed, then the prepared one renamed into its place.
Unlink(i, here, link) ==
  /\ pc[i] = here
  /\ \/ link' = FALSE /\ Goto(i, IF here = "unbin" THEN "bin" ELSE "current")
     \/ Fault(i) /\ UNCHANGED link
  /\ UNCHANGED <<build, stage, release, locals>> /\ Static

Relink(i, here, link) ==
  /\ pc[i] = here
  /\ \/ link' = TRUE /\ Goto(i, IF here = "bin" THEN "check" ELSE "unbin")
     \/ Fault(i) /\ UNCHANGED link
  /\ UNCHANGED <<build, stage, release, locals>> /\ Static

RemoveCurrent(i) == Unlink(i, "uncurrent", current) /\ UNCHANGED bin
LinkCurrent(i) == Relink(i, "current", current) /\ UNCHANGED bin
RemoveBin(i) == Unlink(i, "unbin", bin) /\ UNCHANGED current
LinkBin(i) == Relink(i, "bin", bin) /\ UNCHANGED current

\* verifyInstalledCommand runs codesign and the command itself.
Usable == bin /\ current /\ release.core /\ release.signed

Check(i) ==
  /\ pc[i] = "check"
  /\ \/ Usable /\ Succeed(i)
     \/ Fault(i)
  /\ UNCHANGED <<build, installed, locals>> /\ Static

\* installLock.release; a failed unlock is logged and the close releases the lock.
Unlock(i) ==
  /\ pc[i] = "unlock"
  /\ lock' = NoOwner
  /\ Gone(i) /\ Forget
  /\ UNCHANGED <<upstream, source, work, compiled, release, current, bin, runs, faults, crashes>>

Install(i) ==
  \/ Lock(i) \/ Update(i) \/ Identity(i) \/ Reuse(i) \/ Sync(i) \/ Stamp(i) \/ Tools(i)
  \/ Compile(i) \/ Sign(i) \/ Package(i) \/ Version(i) \/ Stage(i) \/ Drop(i) \/ Promote(i)
  \/ RemoveCurrent(i) \/ LinkCurrent(i) \/ RemoveBin(i) \/ LinkBin(i)
  \/ Check(i) \/ Unlock(i)

\* Mutant: a lock file that a dead process leaves behind.
Crash_KeepsLock(i) ==
  /\ pc[i] \in UnderLock
  /\ crashes < MaxCrashes
  /\ crashes' = crashes + 1
  /\ Gone(i) /\ Forget
  /\ UNCHANGED <<upstream, lock, source, work, compiled, release, current, bin, runs, faults>>

\* The process is killed; the system drops its lock with its file descriptor.
Crash(i) ==
  /\ pc[i] \in UnderLock
  /\ crashes < MaxCrashes
  /\ crashes' = crashes + 1
  /\ Gone(i) /\ Forget
  /\ lock' = NoOwner
  /\ release' \in IF pc[i] = "drop" THEN HalfRemoved(release) ELSE {release}
  /\ UNCHANGED <<upstream, source, work, compiled, current, bin, runs, faults>>

Next ==
  \/ Upstream
  \/ \E i \in Installers :
       \/ \E m \in Modes, f \in BOOLEAN : Begin(i, m, f)
       \/ Install(i) \/ GiveUp(i) \/ Crash(i)

Spec == Init /\ [][Next]_vars
FairSpec == Spec /\ \A i \in Installers : WF_vars(Install(i))

-----------------------------------------------------------------------------
\* Types, and the lock belongs to exactly the process that is past acquiring it.
TypeOK ==
  /\ head \in 1..MaxHead /\ tags \subseteq 1..MaxTag
  /\ lock \in Installers \union {NoOwner}
  /\ source \in 0..MaxHead /\ compiled \in 0..MaxTag
  /\ work \in [head : 0..MaxHead, base : 0..MaxTag, newer : BOOLEAN]
  /\ entry.built \in Identities
  /\ {package, stage, release} \subseteq Packages
  /\ {current, bin} \subseteq BOOLEAN
  /\ outcome \in [Installers -> {"none", "ok", "error"}]
  /\ \A i \in Installers : pc[i] \in UnderLock \union {"idle", "lock"}
  /\ \A i \in Installers : lock = i <=> pc[i] \in UnderLock

\* "install complete": an install that reports success leaves the command resolving to
\* a signed release that is built from exactly the commit, base version and build mode
\* it resolved, and that says so, whoever installed, failed or died before it, whatever
\* upstream does meanwhile and whoever waits beside it. Nothing compares what was built
\* with that name: it is the order of the steps and the lock around them that make a
\* release what it says, and the reuse check goes by the name alone. (It does not look
\* at the other files of the package either: a release that a removal left half-way can
\* be reused without them.)
SuccessInstallsItsBuild ==
  \A i \in Installers : pc[i] = "unlock" /\ outcome[i] = "ok" =>
    /\ Usable
    /\ release.built = id[i] /\ release.label = id[i]
    /\ faults + crashes = 0 => release.whole

\* The installed release is only ever taken away once a complete, signed package of
\* the new version stands ready beside it (installPackage's staging directory).
ReplacedByReady ==
  [][release.whole /\ ~release'.whole => stage.whole /\ stage.signed]_vars

\* "On a base bump the mtime advances": whenever cargo is about to run for another base
\* version than the last completed build had, the manifest is newer than that build,
\* unless a build in between failed or was killed.
BumpAdvancesMtime ==
  \A i \in Installers : pc[i] = "compile" /\ faults + crashes = 0 /\ compiled # id[i].base =>
    work.newer

\* A process that waits for the install lock gets it, gives up or fails: whoever holds
\* it returns or dies, and either frees it.
WaitersGetOn == \A i \in Installers : pc[i] = "lock" ~> pc[i] # "lock"
=============================================================================
