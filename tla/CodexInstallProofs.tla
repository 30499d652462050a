------------------------- MODULE CodexInstallProofs -------------------------
(* What installs of the Codex CLI guarantee for any processes, build modes,    *)
(* commits and tags, and any numbers of installs, failures and kills.          *)
EXTENDS CodexInstall, TLAPS, WellFoundedInduction

FullIdentities == [head : 1..MaxHead, base : 1..MaxTag, mode : Modes]

UpstreamTypes == head \in 1..MaxHead /\ tags \subseteq 1..MaxTag /\ tags # {}

BuildTypes ==
  /\ source \in 0..MaxHead /\ compiled \in 0..MaxTag
  /\ work \in [head : 0..MaxHead, base : 0..MaxTag, newer : BOOLEAN]
  /\ entry \in [built : Identities, signed : BOOLEAN]
  /\ package \in Packages /\ stage \in Packages /\ release \in Packages
  /\ current \in BOOLEAN /\ bin \in BOOLEAN

LocalTypes ==
  /\ pc \in [Installers -> UnderLock \union {"idle", "lock"}]
  /\ id \in [Installers -> [head : 0..MaxHead, base : 0..MaxTag, mode : Modes \union {"none"}]]
  /\ forced \in [Installers -> BOOLEAN]
  /\ previous \in [Installers -> 0..MaxTag]
  /\ outcome \in [Installers -> {"none", "ok", "error"}]
  /\ faults \in Nat /\ crashes \in Nat

\* The lock belongs to exactly the process that is past acquiring it.
Exclusive ==
  /\ lock \in Installers \union {NoOwner}
  /\ \A i \in Installers : lock = i <=> pc[i] \in UnderLock

Ready(p, i) == p.label = id[i] /\ p.built = id[i] /\ p.signed /\ p.core /\ p.whole

\* What the holder of the lock has done by each step.
AtStep(i) ==
  /\ pc[i] \in {"lock", "update", "identity"} => id[i].mode \in Modes
  /\ pc[i] \in UnderLock \ {"update", "unlock"} => source >= 1
  /\ pc[i] \in UnderLock \ {"update", "identity", "unlock"} => id[i] \in FullIdentities
  /\ pc[i] \in {"reuse", "sync"} => source = id[i].head
  /\ pc[i] \in {"stamp", "tools", "compile"} => work.head = id[i].head
  /\ pc[i] \in {"tools", "compile"} => work.base = id[i].base
  /\ pc[i] \in {"sign", "package"} => entry.built = id[i]
  /\ pc[i] = "package" => entry.signed
  /\ pc[i] = "version" => package.built = id[i] /\ package.signed /\ package.core /\ package.whole
  /\ pc[i] = "stage" => Ready(package, i)
  /\ pc[i] \in {"drop", "promote"} => Ready(stage, i)
  /\ pc[i] \in {"uncurrent", "current", "unbin", "bin", "check"} => Reusable(i)
  /\ pc[i] \in {"unbin", "bin", "check"} => current
  /\ pc[i] = "check" => bin
  /\ outcome[i] = "ok" => pc[i] = "unlock" /\ Usable /\ release.label = id[i] /\ release.built = id[i]

Undisturbed == faults = 0 /\ crashes = 0

\* A release that could be reused is built from what it says it is, and without failures
\* and kills it is whole or gone.
Labelled == release.core => release.built = release.label
Whole == Labelled /\ (Undisturbed => (release.core => release.whole))

\* Without failures and kills the manifest knows the base of the last completed build, or
\* the installer that is building does.
Stamped ==
  Undisturbed =>
    /\ \A i \in Installers :
         /\ pc[i] = "stamp" => previous[i] = compiled
         /\ pc[i] \in {"tools", "compile"} => (compiled # id[i].base => work.newer)
    /\ (\A i \in Installers : pc[i] \notin {"stamp", "tools", "compile"}) => work.base = compiled

Types == UpstreamTypes /\ BuildTypes /\ LocalTypes
Inv ==
  /\ Types /\ Exclusive
  /\ \A i \in Installers : AtStep(i)
  /\ Whole /\ Stamped

-----------------------------------------------------------------------------

LEMMA Limits ==
  /\ MaxHead \in Nat /\ MaxHead >= 1 /\ MaxTag \in Nat /\ MaxTag >= 1
  /\ MaxRuns \in Nat /\ MaxFaults \in Nat /\ MaxCrashes \in Nat
BY CodexInstallAssumption

\* selectLatestStableRustVersion has an answer among the tags, whatever they are.
LEMMA LatestStableIsATag ==
  ASSUME UpstreamTypes
  PROVE  LatestStable \in tags /\ LatestStable \in 1..MaxTag
<1> DEFINE T == {MaxTag - t : t \in tags}
<1>1. T \subseteq Nat /\ T # {}
  <2>1. \A t \in tags : MaxTag - t \in Nat
    BY Limits DEF UpstreamTypes
  <2>2. PICK t \in tags : TRUE
    BY DEF UpstreamTypes
  <2>3. MaxTag - t \in T
    OBVIOUS
  <2> QED
    BY <2>1, <2>3
<1>2. PICK x \in T : \A y \in T : ~(<<y, x>> \in OpToRel(<, Nat))
  BY <1>1, NatLessThanWellFounded, WFMin
<1>3. \A y \in T : ~(y < x)
  <2> SUFFICES ASSUME NEW y \in T, y < x PROVE FALSE
    OBVIOUS
  <2>1. x \in Nat /\ y \in Nat
    BY <1>1
  <2>2. <<y, x>> \in OpToRel(<, Nat)
    BY <2>1 DEF OpToRel
  <2> QED
    BY <1>2, <2>2
<1>4. PICK t \in tags : x = MaxTag - t
  OBVIOUS
<1>5. \A u \in tags : u <= t
  <2> SUFFICES ASSUME NEW u \in tags PROVE u <= t
    OBVIOUS
  <2>1. MaxTag - u \in T
    OBVIOUS
  <2>2. ~(MaxTag - u < MaxTag - t)
    BY <1>3, <1>4, <2>1
  <2> QED
    BY <2>2, Limits DEF UpstreamTypes
<1>6. LatestStable \in tags
  BY <1>5 DEF LatestStable
<1> QED
  BY <1>6 DEF UpstreamTypes

LEMMA IdentityFacts ==
  /\ NoIdentity \in Identities /\ FullIdentities \subseteq Identities
  /\ NoIdentity \in [head : 0..MaxHead, base : 0..MaxTag, mode : Modes \union {"none"}]
  /\ FullIdentities \subseteq [head : 0..MaxHead, base : 0..MaxTag, mode : Modes \union {"none"}]
<1>1. 1..MaxHead \subseteq 0..MaxHead /\ 0 \in 0..MaxHead
  BY Limits
<1>2. 1..MaxTag \subseteq 0..MaxTag /\ 0 \in 0..MaxTag
  BY Limits
<1> QED
  BY <1>1, <1>2 DEF NoIdentity, Identities, FullIdentities

LEMMA NoneFacts == None \in Packages /\ ~None.core /\ ~None.whole /\ ~None.signed
BY IdentityFacts DEF None, Packages

LEMMA DamagedFacts ==
  ASSUME NEW p \in Packages
  PROVE  /\ [p EXCEPT !.whole = FALSE] \in Packages
         /\ [p EXCEPT !.core = FALSE, !.whole = FALSE] \in Packages
         /\ HalfRemoved(p) \subseteq Packages
<1>1. [p EXCEPT !.whole = FALSE] \in Packages /\ [p EXCEPT !.core = FALSE, !.whole = FALSE] \in Packages
  BY DEF Packages
<1> QED
  BY <1>1, NoneFacts DEF HalfRemoved

LEMMA RemovalKeepsLabel ==
  ASSUME Labelled, release \in Packages, release' = release \/ release' \in HalfRemoved(release)
  PROVE  Labelled'
BY NoneFacts DEF HalfRemoved, Labelled, Packages

LEMMA InitInv == Init => Inv
<1> SUFFICES ASSUME Init PROVE Inv
  OBVIOUS
<1>1. UpstreamTypes
  BY Limits DEF Init, UpstreamTypes
<1>2. BuildTypes
  <2>1. source \in 0..MaxHead /\ compiled \in 0..MaxTag
    BY Limits DEF Init
  <2>2. work \in [head : 0..MaxHead, base : 0..MaxTag, newer : BOOLEAN]
    BY Limits DEF Init, NoWork
  <2>3. entry \in [built : Identities, signed : BOOLEAN]
    BY IdentityFacts DEF Init, NoEntry
  <2>4. package \in Packages /\ stage \in Packages /\ release \in Packages
    BY NoneFacts DEF Init
  <2> QED
    BY <2>1, <2>2, <2>3, <2>4 DEF Init, BuildTypes
<1>3. LocalTypes
  <2>1. previous \in [Installers -> 0..MaxTag]
    BY Limits DEF Init
  <2> QED
    BY <2>1, IdentityFacts DEF Init, LocalTypes
<1>4. Exclusive
  BY CodexInstallAssumption DEF Init, Exclusive, UnderLock, Building, Installing
<1>5. \A i \in Installers : AtStep(i)
  BY DEF Init, AtStep, UnderLock, Building, Installing
<1>6. Whole
  BY NoneFacts DEF Init, Whole, Labelled
<1>7. Stamped
  BY DEF Init, Stamped, NoWork
<1> QED
  BY <1>1, <1>2, <1>3, <1>4, <1>5, <1>6, <1>7 DEF Inv, Types

-----------------------------------------------------------------------------
\* Whoever holds the lock is alone past it; the others are as they were.
LEMMA Others ==
  ASSUME Exclusive, LocalTypes, \A j \in Installers : AtStep(j),
         NEW i \in Installers, pc[i] \in UnderLock,
         NEW j \in Installers, j # i,
         pc'[j] = pc[j], id'[j] = id[j], outcome'[j] = outcome[j]
  PROVE  AtStep(j)' /\ pc[j] \notin UnderLock
<1>1. pc[j] \notin UnderLock
  BY DEF Exclusive
<1>2. pc'[j] \notin UnderLock /\ pc'[j] # "identity" /\ pc'[j] # "update"
  BY <1>1 DEF UnderLock, Building
<1>3. outcome[j] # "ok"
  BY <1>1 DEF AtStep, UnderLock
<1>4. pc'[j] = "lock" => id'[j].mode \in Modes
  BY DEF AtStep
<1> QED
  BY <1>1, <1>2, <1>3, <1>4 DEF AtStep, UnderLock, Building, Installing

\* A step of the holder that goes on to another step under the lock.
LEMMA StepKeeps ==
  ASSUME Inv, NEW i \in Installers, pc[i] \in UnderLock,
         NEW s \in UnderLock, pc' = [pc EXCEPT ![i] = s], Static, faults' = faults,
         outcome' \in [Installers -> {"none", "ok", "error"}],
         forced' = forced,
         id' \in [Installers -> [head : 0..MaxHead, base : 0..MaxTag, mode : Modes \union {"none"}]],
         previous' \in [Installers -> 0..MaxTag],
         \A j \in Installers : j # i => id'[j] = id[j] /\ outcome'[j] = outcome[j],
         BuildTypes', AtStep(i)', Whole', Stamped'
  PROVE  Inv'
<1>1. UpstreamTypes'
  BY DEF Inv, Types, Static, upstream, UpstreamTypes
<1>2. LocalTypes'
  BY DEF Inv, Types, Static, LocalTypes
<1>3. \A j \in Installers : pc'[j] = IF j = i THEN s ELSE pc[j]
  BY DEF Inv, Types, LocalTypes
<1>4. Exclusive'
  BY <1>3 DEF Inv, Exclusive, Static
<1>5. ASSUME NEW j \in Installers PROVE AtStep(j)'
  <2>1. CASE j = i
    BY <2>1
  <2>2. CASE j # i
    BY <2>2, <1>3, Others DEF Inv, Types
  <2> QED
    BY <2>1, <2>2
<1> QED
  BY <1>1, <1>2, <1>4, <1>5 DEF Inv, Types

\* A step of the holder that fails.
LEMMA FaultKeeps ==
  ASSUME Inv, NEW i \in Installers, pc[i] \in UnderLock, Fault(i), Static,
         id' = id, forced' = forced, previous' \in [Installers -> 0..MaxTag], BuildTypes',
         release' = release \/ release' \in HalfRemoved(release)
  PROVE  Inv'
<1>1. UpstreamTypes'
  BY DEF Inv, Types, Static, upstream, UpstreamTypes
<1>2. /\ faults' \in Nat /\ ~Undisturbed'
      /\ outcome' \in [Installers -> {"none", "ok", "error"}] /\ outcome'[i] = "error"
      /\ \A j \in Installers : j # i => outcome'[j] = outcome[j]
  BY DEF Inv, Types, LocalTypes, Fault, Static, Undisturbed
<1>3. pc' \in [Installers -> UnderLock \union {"idle", "lock"}]
  BY DEF Inv, Types, LocalTypes, Fault, UnderLock
<1>4. LocalTypes'
  BY <1>2, <1>3 DEF Inv, Types, LocalTypes, Static
<1>5. \A j \in Installers : pc'[j] = IF j = i THEN "unlock" ELSE pc[j]
  BY DEF Inv, Types, LocalTypes, Fault
<1>6. Exclusive'
  BY <1>5 DEF Inv, Exclusive, Static, UnderLock
<1>7. ASSUME NEW j \in Installers PROVE AtStep(j)'
  <2>1. CASE j = i
    BY <2>1, <1>2, <1>5 DEF AtStep, UnderLock, Building, Installing
  <2>2. CASE j # i
    BY <2>2, <1>2, <1>5, Others DEF Inv, Types
  <2> QED
    BY <2>1, <2>2
<1>8. Whole' /\ Stamped'
  BY <1>2, RemovalKeepsLabel DEF Inv, Types, BuildTypes, Whole, Stamped
<1> QED
  BY <1>1, <1>4, <1>6, <1>7, <1>8 DEF Inv, Types

\* What holds as long as the working copy, the release and their users stay.
LEMMA StampedStays ==
  ASSUME Inv, NEW i \in Installers, pc[i] \in UnderLock \ {"stamp", "tools", "compile"},
         NEW s \in UnderLock \ {"stamp", "tools", "compile"},
         pc' = [pc EXCEPT ![i] = s], UNCHANGED <<work, compiled, faults, crashes>>
  PROVE  Stamped'
<1>1. \A j \in Installers : pc[j] \notin {"stamp", "tools", "compile"}
  <2> TAKE j \in Installers
  <2>1. CASE j = i
    BY <2>1
  <2>2. CASE j # i
    BY <2>2 DEF Inv, Exclusive, UnderLock, Building
  <2> QED
    BY <2>1, <2>2
<1>2. \A j \in Installers : pc'[j] \notin {"stamp", "tools", "compile"}
  BY <1>1 DEF Inv, Types, LocalTypes
<1> QED
  BY <1>1, <1>2 DEF Inv, Stamped, Undisturbed

LEMMA WholeStays ==
  ASSUME Inv, UNCHANGED <<faults, crashes, release>>
  PROVE  Whole'
BY DEF Inv, Whole, Labelled, Undisturbed

-----------------------------------------------------------------------------
LEMMA UpdatePart ==
  ASSUME Inv, NEW i \in Installers, Update(i)
  PROVE  Inv'
<1>1. pc[i] = "update" /\ pc[i] \in UnderLock /\ Static
  BY DEF Update, UnderLock, Building, Installing
<1>2. CASE Goto(i, "identity") /\ source' = head
  <2>1. /\ pc' = [pc EXCEPT ![i] = "identity"] /\ UNCHANGED <<outcome, faults>>
        /\ pc'[i] = "identity" /\ "identity" \in UnderLock
    BY <1>2 DEF Goto, Inv, Types, LocalTypes, UnderLock, Building, Installing
  <2>2. BuildTypes'
    BY <1>2 DEF Update, installed, Inv, Types, BuildTypes, UpstreamTypes
  <2>3. AtStep(i)'
    BY <1>1, <1>2, <2>1
       DEF Update, UpstreamTypes, Inv, AtStep, Types, LocalTypes, BuildTypes, Ready, Reusable,
           UnderLock, Building, Installing, build, installed, locals
  <2>4. Whole'
    BY <1>1, <2>1, WholeStays DEF Update, Static, installed
  <2>5. Stamped'
    BY <1>1, <2>1, StampedStays DEF Update, Static, build, UnderLock, Building, Installing
  <2>6. id' \in [Installers -> [head : 0..MaxHead, base : 0..MaxTag, mode : Modes \union {"none"}]]
    BY DEF Update, locals, Inv, Types, LocalTypes
  <2>7. previous' \in [Installers -> 0..MaxTag]
    BY DEF Update, locals, Inv, Types, LocalTypes
  <2>8. forced' = forced /\ outcome' \in [Installers -> {"none", "ok", "error"}]
    BY <2>1 DEF Update, locals, Inv, Types, LocalTypes
  <2>9. \A j \in Installers : j # i => id'[j] = id[j] /\ outcome'[j] = outcome[j]
    BY <1>2, <2>1 DEF Update, locals, Inv, Types, LocalTypes
  <2> QED
    BY <1>1, <2>1, <2>2, <2>3, <2>4, <2>5, <2>6, <2>7, <2>8, <2>9, StepKeeps
<1>3. CASE Fault(i) /\ source' \in {source, head}
  <2>1. BuildTypes'
    BY <1>3 DEF Update, installed, Inv, Types, BuildTypes, UpstreamTypes
  <2>2. id' = id /\ forced' = forced /\ previous' \in [Installers -> 0..MaxTag]
    BY <1>3 DEF Update, locals, Inv, Types, LocalTypes
  <2>release. release' = release \/ release' \in HalfRemoved(release)
    BY <1>1, <1>3 DEF Update, installed
  <2> QED
    BY <1>1, <1>3, <2>1, <2>2, <2>release, FaultKeeps
<1> QED
  BY <1>2, <1>3 DEF Update

LEMMA IdentityPart ==
  ASSUME Inv, NEW i \in Installers, Identity(i)
  PROVE  Inv'
<1>1. pc[i] = "identity" /\ pc[i] \in UnderLock /\ Static
  BY DEF Identity, UnderLock, Building, Installing
<1>2. CASE Goto(i, "reuse") /\ id' = [id EXCEPT ![i].head = source, ![i].base = LatestStable]
  <2>1. /\ pc' = [pc EXCEPT ![i] = "reuse"] /\ UNCHANGED <<outcome, faults>>
        /\ pc'[i] = "reuse" /\ "reuse" \in UnderLock
    BY <1>2 DEF Goto, Inv, Types, LocalTypes, UnderLock, Building, Installing
  <2>2. BuildTypes'
    BY DEF Identity, build, installed, Inv, Types, BuildTypes
  <2>3. AtStep(i)'
    <3>1. LatestStable \in 1..MaxTag /\ source \in 1..MaxHead
      BY <1>1, LatestStableIsATag DEF Inv, Types, BuildTypes, AtStep, UnderLock, Building
    <3>2. /\ id[i] \in [head : 0..MaxHead, base : 0..MaxTag, mode : Modes \union {"none"}]
          /\ id[i].mode \in Modes
      BY <1>1 DEF Inv, Types, LocalTypes, AtStep
    <3>3. id'[i] = [id[i] EXCEPT !.head = source, !.base = LatestStable]
      BY <1>2 DEF Inv, Types, LocalTypes
    <3>4. id'[i] \in FullIdentities /\ id'[i].head = source /\ source' = source
      BY <3>1, <3>2, <3>3 DEF FullIdentities, Identity, build
    <3> QED
      BY <1>1, <2>1, <3>1, <3>4
         DEF Identity, Inv, AtStep, Types, LocalTypes, BuildTypes, Ready, Reusable, UnderLock,
             Building, Installing, build, installed, locals
  <2>4. Whole'
    BY <1>1, <2>1, WholeStays DEF Identity, Static, installed
  <2>5. Stamped'
    BY <1>1, <2>1, StampedStays DEF Identity, Static, build, UnderLock, Building, Installing
  <2>6. id' \in [Installers -> [head : 0..MaxHead, base : 0..MaxTag, mode : Modes \union {"none"}]]
    <3>1. LatestStable \in 1..MaxTag /\ source \in 0..MaxHead
      BY LatestStableIsATag DEF Inv, Types, BuildTypes
    <3>0. /\ id[i] \in [head : 0..MaxHead, base : 0..MaxTag, mode : Modes \union {"none"}]
          /\ LatestStable \in 0..MaxTag
      BY <3>1, Limits DEF Inv, Types, LocalTypes
    <3>2. [id[i] EXCEPT !.head = source, !.base = LatestStable] \in
            [head : 0..MaxHead, base : 0..MaxTag, mode : Modes \union {"none"}]
      BY <3>0, <3>1
    <3>3. id' = [id EXCEPT ![i] = [id[i] EXCEPT !.head = source, !.base = LatestStable]]
      BY <1>2
    <3> QED
      BY <3>2, <3>3 DEF Inv, Types, LocalTypes
  <2>7. previous' \in [Installers -> 0..MaxTag]
    BY DEF Identity, locals, Inv, Types, LocalTypes
  <2>8. forced' = forced /\ outcome' \in [Installers -> {"none", "ok", "error"}]
    BY <2>1 DEF Identity, locals, Inv, Types, LocalTypes
  <2>9. \A j \in Installers : j # i => id'[j] = id[j] /\ outcome'[j] = outcome[j]
    BY <1>2, <2>1 DEF Identity, locals, Inv, Types, LocalTypes
  <2> QED
    BY <1>1, <2>1, <2>2, <2>3, <2>4, <2>5, <2>6, <2>7, <2>8, <2>9, StepKeeps
<1>3. CASE Fault(i) /\ UNCHANGED id
  <2>1. BuildTypes'
    BY <1>3 DEF Identity, build, installed, Inv, Types, BuildTypes
  <2>2. id' = id /\ forced' = forced /\ previous' \in [Installers -> 0..MaxTag]
    BY <1>3 DEF Identity, locals, Inv, Types, LocalTypes
  <2>release. release' = release \/ release' \in HalfRemoved(release)
    BY <1>1, <1>3 DEF Identity, installed
  <2> QED
    BY <1>1, <1>3, <2>1, <2>2, <2>release, FaultKeeps
<1> QED
  BY <1>2, <1>3 DEF Identity

LEMMA SyncPart ==
  ASSUME Inv, NEW i \in Installers, Sync(i)
  PROVE  Inv'
<1>1. pc[i] = "sync" /\ pc[i] \in UnderLock /\ Static
  BY DEF Sync, UnderLock, Building, Installing
<1>2. CASE Goto(i, "stamp") /\ work' = [head |-> source, base |-> 0, newer |-> FALSE]
  <2>1. /\ pc' = [pc EXCEPT ![i] = "stamp"] /\ UNCHANGED <<outcome, faults>>
        /\ pc'[i] = "stamp" /\ "stamp" \in UnderLock
    BY <1>2 DEF Goto, Inv, Types, LocalTypes, UnderLock, Building, Installing
  <2>2. BuildTypes'
    BY <1>2, Limits DEF Sync, installed, Inv, Types, BuildTypes
  <2>3. AtStep(i)'
    BY <1>1, <1>2, <2>1
       DEF Sync, Inv, AtStep, Types, LocalTypes, BuildTypes, Ready, Reusable, UnderLock, Building,
           Installing, build, installed, locals
  <2>4. Whole'
    BY <1>1, <2>1, WholeStays DEF Sync, Static, installed
  <2>5. Stamped'
    <3>1. \A j \in Installers : pc[j] \notin {"stamp", "tools", "compile"}
      BY <1>1 DEF Inv, Exclusive, UnderLock, Building
    <3>2. \A j \in Installers : pc'[j] = IF j = i THEN "stamp" ELSE pc[j]
      BY <2>1 DEF Inv, Types, LocalTypes
    <3>3. previous'[i] = work.base
      BY DEF Sync, Inv, Types, LocalTypes
    <3> QED
      BY <1>1, <2>1, <3>1, <3>2, <3>3 DEF Sync, Static, Inv, Stamped, Undisturbed
  <2>6. id' \in [Installers -> [head : 0..MaxHead, base : 0..MaxTag, mode : Modes \union {"none"}]]
    BY DEF Sync, locals, Inv, Types, LocalTypes
  <2>7. previous' \in [Installers -> 0..MaxTag]
    BY DEF Sync, Inv, Types, BuildTypes, LocalTypes
  <2>8. forced' = forced /\ outcome' \in [Installers -> {"none", "ok", "error"}]
    BY <2>1 DEF Sync, locals, Inv, Types, LocalTypes
  <2>9. \A j \in Installers : j # i => id'[j] = id[j] /\ outcome'[j] = outcome[j]
    BY <1>2, <2>1 DEF Sync, locals, Inv, Types, LocalTypes
  <2> QED
    BY <1>1, <2>1, <2>2, <2>3, <2>4, <2>5, <2>6, <2>7, <2>8, <2>9, StepKeeps
<1>3. CASE Fault(i) /\ work' \in {work, [head |-> source, base |-> 0, newer |-> FALSE]}
  <2>1. BuildTypes'
    <3>1. [head |-> source, base |-> 0, newer |-> FALSE] \in
            [head : 0..MaxHead, base : 0..MaxTag, newer : BOOLEAN]
      BY Limits DEF Inv, Types, BuildTypes
    <3>2. work' \in [head : 0..MaxHead, base : 0..MaxTag, newer : BOOLEAN]
      BY <1>3, <3>1 DEF Inv, Types, BuildTypes
    <3> QED
      BY <3>2 DEF Sync, installed, Inv, Types, BuildTypes
  <2>2. id' = id /\ forced' = forced /\ previous' \in [Installers -> 0..MaxTag]
    BY DEF Sync, Inv, Types, BuildTypes, LocalTypes
  <2>release. release' = release \/ release' \in HalfRemoved(release)
    BY <1>1, <1>3 DEF Sync, installed
  <2> QED
    BY <1>1, <1>3, <2>1, <2>2, <2>release, FaultKeeps
<1> QED
  BY <1>2, <1>3 DEF Sync

LEMMA StampPart ==
  ASSUME Inv, NEW i \in Installers, Stamp(i)
  PROVE  Inv'
<1>1. pc[i] = "stamp" /\ pc[i] \in UnderLock /\ Static
  BY DEF Stamp, UnderLock, Building, Installing
<1>2. CASE /\ Goto(i, "tools")
           /\ work' = [work EXCEPT !.base = id[i].base, !.newer = previous[i] # id[i].base]
  <2>1. /\ pc' = [pc EXCEPT ![i] = "tools"] /\ UNCHANGED <<outcome, faults>>
        /\ pc'[i] = "tools" /\ "tools" \in UnderLock
    BY <1>2 DEF Goto, Inv, Types, LocalTypes, UnderLock, Building, Installing
  <2>2. BuildTypes'
    <3>1. id[i].base \in 0..MaxTag /\ (previous[i] # id[i].base) \in BOOLEAN
      BY DEF Stamp, Inv, Types, LocalTypes
    <3>2. work' \in [head : 0..MaxHead, base : 0..MaxTag, newer : BOOLEAN]
      BY <1>2, <3>1 DEF Stamp, Inv, Types, BuildTypes
    <3> QED
      BY <3>2 DEF Stamp, installed, Inv, Types, BuildTypes
  <2>3. AtStep(i)'
    <3>1. work'.base = id[i].base /\ work'.head = work.head /\ id' = id
      BY <1>2 DEF Stamp, Inv, Types, BuildTypes
    <3> QED
      BY <1>1, <2>1, <3>1
         DEF Stamp, Inv, AtStep, Types, LocalTypes, BuildTypes, Ready, Reusable, UnderLock,
             Building, Installing, build, installed, locals
  <2>4. Whole'
    BY <1>1, <2>1, WholeStays DEF Stamp, Static, installed
  <2>5. Stamped'
    <3>1. work'.base = id[i].base /\ (work'.newer <=> previous[i] # id[i].base) /\ id' = id
      BY <1>2 DEF Stamp, Inv, Types, BuildTypes
    <3>2. \A j \in Installers : pc'[j] = IF j = i THEN "tools" ELSE pc[j]
      BY <2>1 DEF Inv, Types, LocalTypes
    <3>3. \A j \in Installers : j # i => pc[j] \notin {"stamp", "tools", "compile"}
      BY <1>1 DEF Inv, Exclusive, UnderLock, Building
    <3>4. Undisturbed => previous[i] = compiled
      BY <1>1 DEF Inv, Stamped
    <3> QED
      BY <1>1, <2>1, <3>1, <3>2, <3>3, <3>4 DEF Stamp, Static, Stamped, Undisturbed
  <2>6. id' \in [Installers -> [head : 0..MaxHead, base : 0..MaxTag, mode : Modes \union {"none"}]]
    BY DEF Stamp, locals, Inv, Types, LocalTypes
  <2>7. previous' \in [Installers -> 0..MaxTag]
    BY Limits DEF Stamp, Inv, Types, LocalTypes
  <2>8. forced' = forced /\ outcome' \in [Installers -> {"none", "ok", "error"}]
    BY <2>1 DEF Stamp, locals, Inv, Types, LocalTypes
  <2>9. \A j \in Installers : j # i => id'[j] = id[j] /\ outcome'[j] = outcome[j]
    BY <1>2, <2>1 DEF Stamp, locals, Inv, Types, LocalTypes
  <2> QED
    BY <1>1, <2>1, <2>2, <2>3, <2>4, <2>5, <2>6, <2>7, <2>8, <2>9, StepKeeps
<1>3. CASE Fault(i) /\ UNCHANGED work
  <2>1. BuildTypes'
    BY <1>3 DEF Stamp, build, installed, Inv, Types, BuildTypes
  <2>2. id' = id /\ forced' = forced /\ previous' \in [Installers -> 0..MaxTag]
    BY Limits DEF Stamp, Inv, Types, LocalTypes
  <2>release. release' = release \/ release' \in HalfRemoved(release)
    BY <1>1, <1>3 DEF Stamp, installed
  <2> QED
    BY <1>1, <1>3, <2>1, <2>2, <2>release, FaultKeeps
<1> QED
  BY <1>2, <1>3 DEF Stamp

LEMMA ToolsPart ==
  ASSUME Inv, NEW i \in Installers, Tools(i)
  PROVE  Inv'
<1>1. pc[i] = "tools" /\ pc[i] \in UnderLock /\ Static
  BY DEF Tools, UnderLock, Building, Installing
<1>2. CASE Goto(i, "compile")
  <2>1. /\ pc' = [pc EXCEPT ![i] = "compile"] /\ UNCHANGED <<outcome, faults>>
        /\ pc'[i] = "compile" /\ "compile" \in UnderLock
    BY <1>2 DEF Goto, Inv, Types, LocalTypes, UnderLock, Building, Installing
  <2>2. BuildTypes'
    BY DEF Tools, build, installed, Inv, Types, BuildTypes
  <2>3. AtStep(i)'
    BY <1>1, <1>2, <2>1
       DEF Tools, Inv, AtStep, Types, LocalTypes, BuildTypes, Ready, Reusable, UnderLock, Building,
           Installing, build, installed, locals
  <2>4. Whole'
    BY <1>1, <2>1, WholeStays DEF Tools, Static, installed
  <2>5. Stamped'
    <3>1. \A j \in Installers : pc'[j] = IF j = i THEN "compile" ELSE pc[j]
      BY <2>1 DEF Inv, Types, LocalTypes
    <3>2. \A j \in Installers : j # i => pc[j] \notin {"stamp", "tools", "compile"}
      BY <1>1 DEF Inv, Exclusive, UnderLock, Building
    <3> QED
      BY <1>1, <2>1, <3>1, <3>2 DEF Tools, Static, build, locals, Inv, Stamped, Undisturbed
  <2>6. id' \in [Installers -> [head : 0..MaxHead, base : 0..MaxTag, mode : Modes \union {"none"}]]
    BY DEF Tools, locals, Inv, Types, LocalTypes
  <2>7. previous' \in [Installers -> 0..MaxTag]
    BY DEF Tools, locals, Inv, Types, LocalTypes
  <2>8. forced' = forced /\ outcome' \in [Installers -> {"none", "ok", "error"}]
    BY <2>1 DEF Tools, locals, Inv, Types, LocalTypes
  <2>9. \A j \in Installers : j # i => id'[j] = id[j] /\ outcome'[j] = outcome[j]
    BY <1>2, <2>1 DEF Tools, locals, Inv, Types, LocalTypes
  <2> QED
    BY <1>1, <2>1, <2>2, <2>3, <2>4, <2>5, <2>6, <2>7, <2>8, <2>9, StepKeeps
<1>3. CASE Fault(i)
  <2>1. BuildTypes'
    BY <1>3 DEF Tools, build, installed, Inv, Types, BuildTypes
  <2>2. id' = id /\ forced' = forced /\ previous' \in [Installers -> 0..MaxTag]
    BY <1>3 DEF Tools, locals, Inv, Types, LocalTypes
  <2>release. release' = release \/ release' \in HalfRemoved(release)
    BY <1>1, <1>3 DEF Tools, installed
  <2> QED
    BY <1>1, <1>3, <2>1, <2>2, <2>release, FaultKeeps
<1> QED
  BY <1>2, <1>3 DEF Tools

LEMMA CompilePart ==
  ASSUME Inv, NEW i \in Installers, Compile(i)
  PROVE  Inv'
<1>1. pc[i] = "compile" /\ pc[i] \in UnderLock /\ Static
  BY DEF Compile, UnderLock, Building, Installing
<1>2. CASE Goto(i, "sign") /\ compiled' = id[i].base /\ work' = [work EXCEPT !.newer = FALSE]
           /\ entry' = [built |-> [id[i] EXCEPT !.head = work.head, !.base = work.base],
                        signed |-> FALSE]
  <2>1. /\ pc' = [pc EXCEPT ![i] = "sign"] /\ UNCHANGED <<outcome, faults>>
        /\ pc'[i] = "sign" /\ "sign" \in UnderLock
    BY <1>2 DEF Goto, Inv, Types, LocalTypes, UnderLock, Building, Installing
  <2>2. BuildTypes'
    <3>1. work' \in [head : 0..MaxHead, base : 0..MaxTag, newer : BOOLEAN] /\ compiled' \in 0..MaxTag
      BY <1>2 DEF Compile, Inv, Types, BuildTypes, LocalTypes
    <3>2. id[i] \in FullIdentities /\ work.head \in 1..MaxHead /\ work.base \in 1..MaxTag
      BY <1>1 DEF Compile, Inv, Types, BuildTypes, AtStep, FullIdentities, UnderLock, Building
    <3>3. [id[i] EXCEPT !.head = work.head, !.base = work.base] \in FullIdentities
      BY <3>2 DEF Compile, FullIdentities
    <3>4. entry' \in [built : Identities, signed : BOOLEAN]
      BY <1>2, <3>3, IdentityFacts
    <3> QED
      BY <3>1, <3>4 DEF Compile, Compile, installed, Inv, Types, BuildTypes
  <2>3. AtStep(i)'
    <3>1. /\ id[i] \in FullIdentities /\ work.head = id[i].head /\ work.base = id[i].base
          /\ source >= 1 /\ outcome[i] # "ok"
      BY <1>1 DEF Inv, AtStep, UnderLock, Building
    <3>2. [id[i] EXCEPT !.head = work.head, !.base = work.base] = id[i]
      BY <3>1 DEF FullIdentities
    <3>3. entry'.built = id[i] /\ id' = id /\ source' = source
      BY <1>2, <3>2 DEF Compile, locals
    <3> QED
      BY <2>1, <3>1, <3>3 DEF AtStep, UnderLock, Building, Installing
  <2>4. Whole'
    BY <1>1, <2>1, WholeStays DEF Compile, Static, installed
  <2>5. Stamped'
    <3>1. work'.base = compiled'
      BY <1>1, <1>2 DEF Inv, Types, BuildTypes, AtStep
    <3>2. \A j \in Installers : pc'[j] \notin {"stamp", "tools", "compile"}
      BY <1>1, <2>1 DEF Inv, Types, LocalTypes, Exclusive, UnderLock, Building
    <3> QED
      BY <3>1, <3>2 DEF Stamped
  <2>6. id' \in [Installers -> [head : 0..MaxHead, base : 0..MaxTag, mode : Modes \union {"none"}]]
    BY DEF Compile, locals, Inv, Types, LocalTypes
  <2>7. previous' \in [Installers -> 0..MaxTag]
    BY DEF Compile, locals, Inv, Types, LocalTypes
  <2>8. forced' = forced /\ outcome' \in [Installers -> {"none", "ok", "error"}]
    BY <2>1 DEF Compile, locals, Inv, Types, LocalTypes
  <2>9. \A j \in Installers : j # i => id'[j] = id[j] /\ outcome'[j] = outcome[j]
    BY <1>2, <2>1 DEF Compile, locals, Inv, Types, LocalTypes
  <2> QED
    BY <1>1, <2>1, <2>2, <2>3, <2>4, <2>5, <2>6, <2>7, <2>8, <2>9, StepKeeps
<1>3. CASE Fault(i) /\ UNCHANGED <<compiled, work, entry>>
  <2>1. BuildTypes'
    BY <1>3 DEF Compile, build, installed, Inv, Types, BuildTypes
  <2>2. id' = id /\ forced' = forced /\ previous' \in [Installers -> 0..MaxTag]
    BY <1>3 DEF Compile, locals, Inv, Types, LocalTypes
  <2>release. release' = release \/ release' \in HalfRemoved(release)
    BY <1>1, <1>3 DEF Compile, installed
  <2> QED
    BY <1>1, <1>3, <2>1, <2>2, <2>release, FaultKeeps
<1> QED
  BY <1>2, <1>3 DEF Compile

LEMMA SignPart ==
  ASSUME Inv, NEW i \in Installers, Sign(i)
  PROVE  Inv'
<1>1. pc[i] = "sign" /\ pc[i] \in UnderLock /\ Static
  BY DEF Sign, UnderLock, Building, Installing
<1>2. CASE Goto(i, "package") /\ entry' = [entry EXCEPT !.signed = TRUE]
  <2>1. /\ pc' = [pc EXCEPT ![i] = "package"] /\ UNCHANGED <<outcome, faults>>
        /\ pc'[i] = "package" /\ "package" \in UnderLock
    BY <1>2 DEF Goto, Inv, Types, LocalTypes, UnderLock, Building, Installing
  <2>2. BuildTypes'
    BY <1>2 DEF Sign, installed, Inv, Types, BuildTypes
  <2>3. AtStep(i)'
    BY <1>1, <1>2, <2>1
       DEF Sign, Inv, AtStep, Types, LocalTypes, BuildTypes, Ready, Reusable, UnderLock, Building,
           Installing, build, installed, locals
  <2>4. Whole'
    BY <1>1, <2>1, WholeStays DEF Sign, Static, installed
  <2>5. Stamped'
    BY <1>1, <2>1, StampedStays DEF Sign, Static, build, UnderLock, Building, Installing
  <2>6. id' \in [Installers -> [head : 0..MaxHead, base : 0..MaxTag, mode : Modes \union {"none"}]]
    BY DEF Sign, locals, Inv, Types, LocalTypes
  <2>7. previous' \in [Installers -> 0..MaxTag]
    BY DEF Sign, locals, Inv, Types, LocalTypes
  <2>8. forced' = forced /\ outcome' \in [Installers -> {"none", "ok", "error"}]
    BY <2>1 DEF Sign, locals, Inv, Types, LocalTypes
  <2>9. \A j \in Installers : j # i => id'[j] = id[j] /\ outcome'[j] = outcome[j]
    BY <1>2, <2>1 DEF Sign, locals, Inv, Types, LocalTypes
  <2> QED
    BY <1>1, <2>1, <2>2, <2>3, <2>4, <2>5, <2>6, <2>7, <2>8, <2>9, StepKeeps
<1>3. CASE Fault(i) /\ UNCHANGED entry
  <2>1. BuildTypes'
    BY <1>3 DEF Sign, build, installed, Inv, Types, BuildTypes
  <2>2. id' = id /\ forced' = forced /\ previous' \in [Installers -> 0..MaxTag]
    BY <1>3 DEF Sign, locals, Inv, Types, LocalTypes
  <2>release. release' = release \/ release' \in HalfRemoved(release)
    BY <1>1, <1>3 DEF Sign, installed
  <2> QED
    BY <1>1, <1>3, <2>1, <2>2, <2>release, FaultKeeps
<1> QED
  BY <1>2, <1>3 DEF Sign

LEMMA PackagePart ==
  ASSUME Inv, NEW i \in Installers, Package(i)
  PROVE  Inv'
<1>1. pc[i] = "package" /\ pc[i] \in UnderLock /\ Static
  BY DEF Package, UnderLock, Building, Installing
<1>2. CASE /\ Goto(i, "version")
           /\ package' = [label |-> NoIdentity, built |-> entry.built, signed |-> entry.signed,
                          core |-> TRUE, whole |-> TRUE]
  <2>1. /\ pc' = [pc EXCEPT ![i] = "version"] /\ UNCHANGED <<outcome, faults>>
        /\ pc'[i] = "version" /\ "version" \in UnderLock
    BY <1>2 DEF Goto, Inv, Types, LocalTypes, UnderLock, Building, Installing
  <2>2. BuildTypes'
    <3>1. package' \in Packages
      BY <1>2, IdentityFacts DEF Package, Packages, Inv, Types, BuildTypes
    <3> QED
      BY <3>1 DEF Package, installed, Inv, Types, BuildTypes
  <2>3. AtStep(i)'
    BY <1>1, <1>2, <2>1
       DEF Package, Inv, AtStep, Types, LocalTypes, BuildTypes, Ready, Reusable, UnderLock,
           Building, Installing, build, installed, locals
  <2>4. Whole'
    BY <1>1, <2>1, WholeStays DEF Package, Static, installed
  <2>5. Stamped'
    BY <1>1, <2>1, StampedStays DEF Package, Static, build, UnderLock, Building, Installing
  <2>6. id' \in [Installers -> [head : 0..MaxHead, base : 0..MaxTag, mode : Modes \union {"none"}]]
    BY DEF Package, locals, Inv, Types, LocalTypes
  <2>7. previous' \in [Installers -> 0..MaxTag]
    BY DEF Package, locals, Inv, Types, LocalTypes
  <2>8. forced' = forced /\ outcome' \in [Installers -> {"none", "ok", "error"}]
    BY <2>1 DEF Package, locals, Inv, Types, LocalTypes
  <2>9. \A j \in Installers : j # i => id'[j] = id[j] /\ outcome'[j] = outcome[j]
    BY <1>2, <2>1 DEF Package, locals, Inv, Types, LocalTypes
  <2> QED
    BY <1>1, <2>1, <2>2, <2>3, <2>4, <2>5, <2>6, <2>7, <2>8, <2>9, StepKeeps
<1>3. CASE Fault(i) /\ package' = None
  <2>1. BuildTypes'
    BY <1>3, NoneFacts DEF Package, installed, Inv, Types, BuildTypes
  <2>2. id' = id /\ forced' = forced /\ previous' \in [Installers -> 0..MaxTag]
    BY <1>3 DEF Package, locals, Inv, Types, LocalTypes
  <2>release. release' = release \/ release' \in HalfRemoved(release)
    BY <1>1, <1>3 DEF Package, installed
  <2> QED
    BY <1>1, <1>3, <2>1, <2>2, <2>release, FaultKeeps
<1> QED
  BY <1>2, <1>3 DEF Package

LEMMA VersionPart ==
  ASSUME Inv, NEW i \in Installers, Version(i)
  PROVE  Inv'
<1>1. pc[i] = "version" /\ pc[i] \in UnderLock /\ Static
  BY DEF Version, UnderLock, Building, Installing
<1>2. CASE Goto(i, "stage") /\ package' = [package EXCEPT !.label = id[i]]
  <2>1. /\ pc' = [pc EXCEPT ![i] = "stage"] /\ UNCHANGED <<outcome, faults>>
        /\ pc'[i] = "stage" /\ "stage" \in UnderLock
    BY <1>2 DEF Goto, Inv, Types, LocalTypes, UnderLock, Building, Installing
  <2>2. BuildTypes'
    <3>1. id[i] \in Identities
      BY <1>1, IdentityFacts DEF Inv, AtStep, UnderLock, Building
    <3>2. package' \in Packages
      BY <1>2, <3>1 DEF Version, Packages, Inv, Types, BuildTypes
    <3> QED
      BY <3>2 DEF Version, installed, Inv, Types, BuildTypes
  <2>3. AtStep(i)'
    <3>1. package'.label = id[i] /\ package'.built = id[i] /\ package'.signed /\ package'.core /\ package'.whole /\ id' = id
      BY <1>1, <1>2 DEF Version, locals, Inv, Types, BuildTypes, Packages, AtStep
    <3> QED
      BY <1>1, <2>1, <3>1
         DEF Version, Inv, AtStep, Types, LocalTypes, BuildTypes, Ready, Reusable, UnderLock,
             Building, Installing, build, installed, locals
  <2>4. Whole'
    BY <1>1, <2>1, WholeStays DEF Version, Static, installed
  <2>5. Stamped'
    BY <1>1, <2>1, StampedStays DEF Version, Static, build, UnderLock, Building, Installing
  <2>6. id' \in [Installers -> [head : 0..MaxHead, base : 0..MaxTag, mode : Modes \union {"none"}]]
    BY DEF Version, locals, Inv, Types, LocalTypes
  <2>7. previous' \in [Installers -> 0..MaxTag]
    BY DEF Version, locals, Inv, Types, LocalTypes
  <2>8. forced' = forced /\ outcome' \in [Installers -> {"none", "ok", "error"}]
    BY <2>1 DEF Version, locals, Inv, Types, LocalTypes
  <2>9. \A j \in Installers : j # i => id'[j] = id[j] /\ outcome'[j] = outcome[j]
    BY <1>2, <2>1 DEF Version, locals, Inv, Types, LocalTypes
  <2> QED
    BY <1>1, <2>1, <2>2, <2>3, <2>4, <2>5, <2>6, <2>7, <2>8, <2>9, StepKeeps
<1>3. CASE Fault(i) /\ package' \in {package, [package EXCEPT !.core = FALSE, !.whole = FALSE]}
  <2>1. BuildTypes'
    BY <1>3, DamagedFacts DEF Version, installed, Inv, Types, BuildTypes
  <2>2. id' = id /\ forced' = forced /\ previous' \in [Installers -> 0..MaxTag]
    BY <1>3 DEF Version, locals, Inv, Types, LocalTypes
  <2>release. release' = release \/ release' \in HalfRemoved(release)
    BY <1>1, <1>3 DEF Version, installed
  <2> QED
    BY <1>1, <1>3, <2>1, <2>2, <2>release, FaultKeeps
<1> QED
  BY <1>2, <1>3 DEF Version

LEMMA StagePart ==
  ASSUME Inv, NEW i \in Installers, Stage(i)
  PROVE  Inv'
<1>1. pc[i] = "stage" /\ pc[i] \in UnderLock /\ Static
  BY DEF Stage, UnderLock, Building, Installing
<1>2. CASE Goto(i, "drop") /\ stage' = package
  <2>1. /\ pc' = [pc EXCEPT ![i] = "drop"] /\ UNCHANGED <<outcome, faults>>
        /\ pc'[i] = "drop" /\ "drop" \in UnderLock
    BY <1>2 DEF Goto, Inv, Types, LocalTypes, UnderLock, Building, Installing
  <2>2. BuildTypes'
    BY <1>2 DEF Stage, build, Inv, Types, BuildTypes
  <2>3. AtStep(i)'
    BY <1>1, <1>2, <2>1
       DEF Stage, Inv, AtStep, Types, LocalTypes, BuildTypes, Ready, Reusable, UnderLock, Building,
           Installing, build, installed, locals
  <2>4. Whole'
    BY <1>1, <2>1, WholeStays DEF Stage, Static
  <2>5. Stamped'
    BY <1>1, <2>1, StampedStays DEF Stage, Static, build, UnderLock, Building, Installing
  <2>6. id' \in [Installers -> [head : 0..MaxHead, base : 0..MaxTag, mode : Modes \union {"none"}]]
    BY DEF Stage, locals, Inv, Types, LocalTypes
  <2>7. previous' \in [Installers -> 0..MaxTag]
    BY DEF Stage, locals, Inv, Types, LocalTypes
  <2>8. forced' = forced /\ outcome' \in [Installers -> {"none", "ok", "error"}]
    BY <2>1 DEF Stage, locals, Inv, Types, LocalTypes
  <2>9. \A j \in Installers : j # i => id'[j] = id[j] /\ outcome'[j] = outcome[j]
    BY <1>2, <2>1 DEF Stage, locals, Inv, Types, LocalTypes
  <2> QED
    BY <1>1, <2>1, <2>2, <2>3, <2>4, <2>5, <2>6, <2>7, <2>8, <2>9, StepKeeps
<1>3. CASE Fault(i) /\ stage' \in {stage, None, [package EXCEPT !.core = FALSE, !.whole = FALSE]}
  <2>1. BuildTypes'
    BY <1>3, DamagedFacts, NoneFacts DEF Stage, build, Inv, Types, BuildTypes
  <2>2. id' = id /\ forced' = forced /\ previous' \in [Installers -> 0..MaxTag]
    BY <1>3 DEF Stage, locals, Inv, Types, LocalTypes
  <2>release. release' = release \/ release' \in HalfRemoved(release)
    BY <1>1, <1>3 DEF Stage, installed
  <2> QED
    BY <1>1, <1>3, <2>1, <2>2, <2>release, FaultKeeps
<1> QED
  BY <1>2, <1>3 DEF Stage

LEMMA DropPart ==
  ASSUME Inv, NEW i \in Installers, Drop(i)
  PROVE  Inv'
<1>1. pc[i] = "drop" /\ pc[i] \in UnderLock /\ Static
  BY DEF Drop, UnderLock, Building, Installing
<1>2. CASE Goto(i, "promote") /\ release' = None
  <2>1. /\ pc' = [pc EXCEPT ![i] = "promote"] /\ UNCHANGED <<outcome, faults>>
        /\ pc'[i] = "promote" /\ "promote" \in UnderLock
    BY <1>2 DEF Goto, Inv, Types, LocalTypes, UnderLock, Building, Installing
  <2>2. BuildTypes'
    BY <1>2, NoneFacts DEF Drop, build, Inv, Types, BuildTypes
  <2>3. AtStep(i)'
    BY <1>1, <1>2, <2>1
       DEF Drop, Inv, AtStep, Types, LocalTypes, BuildTypes, Ready, Reusable, UnderLock, Building,
           Installing, build, installed, locals
  <2>4. Whole'
    BY <1>2, NoneFacts DEF Whole, Labelled
  <2>5. Stamped'
    BY <1>1, <2>1, StampedStays DEF Drop, Static, build, UnderLock, Building, Installing
  <2>6. id' \in [Installers -> [head : 0..MaxHead, base : 0..MaxTag, mode : Modes \union {"none"}]]
    BY DEF Drop, locals, Inv, Types, LocalTypes
  <2>7. previous' \in [Installers -> 0..MaxTag]
    BY DEF Drop, locals, Inv, Types, LocalTypes
  <2>8. forced' = forced /\ outcome' \in [Installers -> {"none", "ok", "error"}]
    BY <2>1 DEF Drop, locals, Inv, Types, LocalTypes
  <2>9. \A j \in Installers : j # i => id'[j] = id[j] /\ outcome'[j] = outcome[j]
    BY <1>2, <2>1 DEF Drop, locals, Inv, Types, LocalTypes
  <2> QED
    BY <1>1, <2>1, <2>2, <2>3, <2>4, <2>5, <2>6, <2>7, <2>8, <2>9, StepKeeps
<1>3. CASE Fault(i) /\ release' \in HalfRemoved(release)
  <2>1. BuildTypes'
    BY <1>3, DamagedFacts DEF Drop, build, Inv, Types, BuildTypes
  <2>2. id' = id /\ forced' = forced /\ previous' \in [Installers -> 0..MaxTag]
    BY <1>3 DEF Drop, locals, Inv, Types, LocalTypes
  <2>release. release' = release \/ release' \in HalfRemoved(release)
    BY <1>1, <1>3 DEF Drop, installed
  <2> QED
    BY <1>1, <1>3, <2>1, <2>2, <2>release, FaultKeeps
<1> QED
  BY <1>2, <1>3 DEF Drop

LEMMA PromotePart ==
  ASSUME Inv, NEW i \in Installers, Promote(i)
  PROVE  Inv'
<1>1. pc[i] = "promote" /\ pc[i] \in UnderLock /\ Static
  BY DEF Promote, UnderLock, Building, Installing
<1>2. CASE Goto(i, "uncurrent") /\ release' = stage /\ stage' = None
  <2>1. /\ pc' = [pc EXCEPT ![i] = "uncurrent"] /\ UNCHANGED <<outcome, faults>>
        /\ pc'[i] = "uncurrent" /\ "uncurrent" \in UnderLock
    BY <1>2 DEF Goto, Inv, Types, LocalTypes, UnderLock, Building, Installing
  <2>2. BuildTypes'
    BY <1>2, NoneFacts DEF Promote, build, Inv, Types, BuildTypes
  <2>3. AtStep(i)'
    BY <1>1, <1>2, <2>1
       DEF Promote, Inv, AtStep, Types, LocalTypes, BuildTypes, Ready, Reusable, UnderLock,
           Building, Installing, build, installed, locals
  <2>4. Whole'
    BY <1>1, <1>2 DEF Whole, Labelled, Inv, AtStep, Ready
  <2>5. Stamped'
    BY <1>1, <2>1, StampedStays DEF Promote, Static, build, UnderLock, Building, Installing
  <2>6. id' \in [Installers -> [head : 0..MaxHead, base : 0..MaxTag, mode : Modes \union {"none"}]]
    BY DEF Promote, locals, Inv, Types, LocalTypes
  <2>7. previous' \in [Installers -> 0..MaxTag]
    BY DEF Promote, locals, Inv, Types, LocalTypes
  <2>8. forced' = forced /\ outcome' \in [Installers -> {"none", "ok", "error"}]
    BY <2>1 DEF Promote, locals, Inv, Types, LocalTypes
  <2>9. \A j \in Installers : j # i => id'[j] = id[j] /\ outcome'[j] = outcome[j]
    BY <1>2, <2>1 DEF Promote, locals, Inv, Types, LocalTypes
  <2> QED
    BY <1>1, <2>1, <2>2, <2>3, <2>4, <2>5, <2>6, <2>7, <2>8, <2>9, StepKeeps
<1>3. CASE Fault(i) /\ UNCHANGED <<release, stage>>
  <2>1. BuildTypes'
    BY <1>3 DEF Promote, build, installed, Inv, Types, BuildTypes
  <2>2. id' = id /\ forced' = forced /\ previous' \in [Installers -> 0..MaxTag]
    BY <1>3 DEF Promote, locals, Inv, Types, LocalTypes
  <2>release. release' = release \/ release' \in HalfRemoved(release)
    BY <1>1, <1>3 DEF Promote, installed
  <2> QED
    BY <1>1, <1>3, <2>1, <2>2, <2>release, FaultKeeps
<1> QED
  BY <1>2, <1>3 DEF Promote

LEMMA RemoveCurrentPart ==
  ASSUME Inv, NEW i \in Installers, RemoveCurrent(i)
  PROVE  Inv'
<1>1. pc[i] = "uncurrent" /\ pc[i] \in UnderLock /\ Static
  BY DEF RemoveCurrent, Unlink, UnderLock, Building, Installing
<1>2. CASE Goto(i, "current") /\ current' = FALSE
  <2>1. /\ pc' = [pc EXCEPT ![i] = "current"] /\ UNCHANGED <<outcome, faults>>
        /\ pc'[i] = "current" /\ "current" \in UnderLock
    BY <1>2 DEF Goto, Inv, Types, LocalTypes, UnderLock, Building, Installing
  <2>2. BuildTypes'
    BY <1>2 DEF RemoveCurrent, Unlink, build, Inv, Types, BuildTypes
  <2>3. AtStep(i)'
    BY <1>1, <1>2, <2>1
       DEF RemoveCurrent, Unlink, Inv, AtStep, Types, LocalTypes, BuildTypes, Ready, Reusable,
           UnderLock, Building, Installing, build, installed, locals
  <2>4. Whole'
    BY <1>1, <2>1, WholeStays DEF RemoveCurrent, Unlink, Static
  <2>5. Stamped'
    BY <1>1, <2>1, StampedStays
       DEF RemoveCurrent, Unlink, Static, build, UnderLock, Building, Installing
  <2>6. id' \in [Installers -> [head : 0..MaxHead, base : 0..MaxTag, mode : Modes \union {"none"}]]
    BY DEF RemoveCurrent, Unlink, locals, Inv, Types, LocalTypes
  <2>7. previous' \in [Installers -> 0..MaxTag]
    BY DEF RemoveCurrent, Unlink, locals, Inv, Types, LocalTypes
  <2>8. forced' = forced /\ outcome' \in [Installers -> {"none", "ok", "error"}]
    BY <2>1 DEF RemoveCurrent, Unlink, locals, Inv, Types, LocalTypes
  <2>9. \A j \in Installers : j # i => id'[j] = id[j] /\ outcome'[j] = outcome[j]
    BY <1>2, <2>1 DEF RemoveCurrent, Unlink, locals, Inv, Types, LocalTypes
  <2> QED
    BY <1>1, <2>1, <2>2, <2>3, <2>4, <2>5, <2>6, <2>7, <2>8, <2>9, StepKeeps
<1>3. CASE Fault(i) /\ UNCHANGED current
  <2>1. BuildTypes'
    BY <1>3 DEF RemoveCurrent, Unlink, build, installed, Inv, Types, BuildTypes
  <2>2. id' = id /\ forced' = forced /\ previous' \in [Installers -> 0..MaxTag]
    BY <1>3 DEF RemoveCurrent, Unlink, locals, Inv, Types, LocalTypes
  <2>release. release' = release \/ release' \in HalfRemoved(release)
    BY <1>1, <1>3 DEF RemoveCurrent, Unlink, installed
  <2> QED
    BY <1>1, <1>3, <2>1, <2>2, <2>release, FaultKeeps
<1> QED
  BY <1>2, <1>3 DEF RemoveCurrent, Unlink

LEMMA LinkCurrentPart ==
  ASSUME Inv, NEW i \in Installers, LinkCurrent(i)
  PROVE  Inv'
<1>1. pc[i] = "current" /\ pc[i] \in UnderLock /\ Static
  BY DEF LinkCurrent, Relink, UnderLock, Building, Installing
<1>2. CASE Goto(i, "unbin") /\ current' = TRUE
  <2>1. /\ pc' = [pc EXCEPT ![i] = "unbin"] /\ UNCHANGED <<outcome, faults>>
        /\ pc'[i] = "unbin" /\ "unbin" \in UnderLock
    BY <1>2 DEF Goto, Inv, Types, LocalTypes, UnderLock, Building, Installing
  <2>2. BuildTypes'
    BY <1>2 DEF LinkCurrent, Relink, build, Inv, Types, BuildTypes
  <2>3. AtStep(i)'
    BY <1>1, <1>2, <2>1
       DEF LinkCurrent, Relink, Inv, AtStep, Types, LocalTypes, BuildTypes, Ready, Reusable,
           UnderLock, Building, Installing, build, installed, locals
  <2>4. Whole'
    BY <1>1, <2>1, WholeStays DEF LinkCurrent, Relink, Static
  <2>5. Stamped'
    BY <1>1, <2>1, StampedStays
       DEF LinkCurrent, Relink, Static, build, UnderLock, Building, Installing
  <2>6. id' \in [Installers -> [head : 0..MaxHead, base : 0..MaxTag, mode : Modes \union {"none"}]]
    BY DEF LinkCurrent, Relink, locals, Inv, Types, LocalTypes
  <2>7. previous' \in [Installers -> 0..MaxTag]
    BY DEF LinkCurrent, Relink, locals, Inv, Types, LocalTypes
  <2>8. forced' = forced /\ outcome' \in [Installers -> {"none", "ok", "error"}]
    BY <2>1 DEF LinkCurrent, Relink, locals, Inv, Types, LocalTypes
  <2>9. \A j \in Installers : j # i => id'[j] = id[j] /\ outcome'[j] = outcome[j]
    BY <1>2, <2>1 DEF LinkCurrent, Relink, locals, Inv, Types, LocalTypes
  <2> QED
    BY <1>1, <2>1, <2>2, <2>3, <2>4, <2>5, <2>6, <2>7, <2>8, <2>9, StepKeeps
<1>3. CASE Fault(i) /\ UNCHANGED current
  <2>1. BuildTypes'
    BY <1>3 DEF LinkCurrent, Relink, build, installed, Inv, Types, BuildTypes
  <2>2. id' = id /\ forced' = forced /\ previous' \in [Installers -> 0..MaxTag]
    BY <1>3 DEF LinkCurrent, Relink, locals, Inv, Types, LocalTypes
  <2>release. release' = release \/ release' \in HalfRemoved(release)
    BY <1>1, <1>3 DEF LinkCurrent, Relink, installed
  <2> QED
    BY <1>1, <1>3, <2>1, <2>2, <2>release, FaultKeeps
<1> QED
  BY <1>2, <1>3 DEF LinkCurrent, Relink

LEMMA RemoveBinPart ==
  ASSUME Inv, NEW i \in Installers, RemoveBin(i)
  PROVE  Inv'
<1>1. pc[i] = "unbin" /\ pc[i] \in UnderLock /\ Static
  BY DEF RemoveBin, Unlink, UnderLock, Building, Installing
<1>2. CASE Goto(i, "bin") /\ bin' = FALSE
  <2>1. /\ pc' = [pc EXCEPT ![i] = "bin"] /\ UNCHANGED <<outcome, faults>>
        /\ pc'[i] = "bin" /\ "bin" \in UnderLock
    BY <1>2 DEF Goto, Inv, Types, LocalTypes, UnderLock, Building, Installing
  <2>2. BuildTypes'
    BY <1>2 DEF RemoveBin, Unlink, build, Inv, Types, BuildTypes
  <2>3. AtStep(i)'
    BY <1>1, <1>2, <2>1
       DEF RemoveBin, Unlink, Inv, AtStep, Types, LocalTypes, BuildTypes, Ready, Reusable,
           UnderLock, Building, Installing, build, installed, locals
  <2>4. Whole'
    BY <1>1, <2>1, WholeStays DEF RemoveBin, Unlink, Static
  <2>5. Stamped'
    BY <1>1, <2>1, StampedStays
       DEF RemoveBin, Unlink, Static, build, UnderLock, Building, Installing
  <2>6. id' \in [Installers -> [head : 0..MaxHead, base : 0..MaxTag, mode : Modes \union {"none"}]]
    BY DEF RemoveBin, Unlink, locals, Inv, Types, LocalTypes
  <2>7. previous' \in [Installers -> 0..MaxTag]
    BY DEF RemoveBin, Unlink, locals, Inv, Types, LocalTypes
  <2>8. forced' = forced /\ outcome' \in [Installers -> {"none", "ok", "error"}]
    BY <2>1 DEF RemoveBin, Unlink, locals, Inv, Types, LocalTypes
  <2>9. \A j \in Installers : j # i => id'[j] = id[j] /\ outcome'[j] = outcome[j]
    BY <1>2, <2>1 DEF RemoveBin, Unlink, locals, Inv, Types, LocalTypes
  <2> QED
    BY <1>1, <2>1, <2>2, <2>3, <2>4, <2>5, <2>6, <2>7, <2>8, <2>9, StepKeeps
<1>3. CASE Fault(i) /\ UNCHANGED bin
  <2>1. BuildTypes'
    BY <1>3 DEF RemoveBin, Unlink, build, installed, Inv, Types, BuildTypes
  <2>2. id' = id /\ forced' = forced /\ previous' \in [Installers -> 0..MaxTag]
    BY <1>3 DEF RemoveBin, Unlink, locals, Inv, Types, LocalTypes
  <2>release. release' = release \/ release' \in HalfRemoved(release)
    BY <1>1, <1>3 DEF RemoveBin, Unlink, installed
  <2> QED
    BY <1>1, <1>3, <2>1, <2>2, <2>release, FaultKeeps
<1> QED
  BY <1>2, <1>3 DEF RemoveBin, Unlink

LEMMA LinkBinPart ==
  ASSUME Inv, NEW i \in Installers, LinkBin(i)
  PROVE  Inv'
<1>1. pc[i] = "bin" /\ pc[i] \in UnderLock /\ Static
  BY DEF LinkBin, Relink, UnderLock, Building, Installing
<1>2. CASE Goto(i, "check") /\ bin' = TRUE
  <2>1. /\ pc' = [pc EXCEPT ![i] = "check"] /\ UNCHANGED <<outcome, faults>>
        /\ pc'[i] = "check" /\ "check" \in UnderLock
    BY <1>2 DEF Goto, Inv, Types, LocalTypes, UnderLock, Building, Installing
  <2>2. BuildTypes'
    BY <1>2 DEF LinkBin, Relink, build, Inv, Types, BuildTypes
  <2>3. AtStep(i)'
    BY <1>1, <1>2, <2>1
       DEF LinkBin, Relink, Inv, AtStep, Types, LocalTypes, BuildTypes, Ready, Reusable, UnderLock,
           Building, Installing, build, installed, locals
  <2>4. Whole'
    BY <1>1, <2>1, WholeStays DEF LinkBin, Relink, Static
  <2>5. Stamped'
    BY <1>1, <2>1, StampedStays DEF LinkBin, Relink, Static, build, UnderLock, Building, Installing
  <2>6. id' \in [Installers -> [head : 0..MaxHead, base : 0..MaxTag, mode : Modes \union {"none"}]]
    BY DEF LinkBin, Relink, locals, Inv, Types, LocalTypes
  <2>7. previous' \in [Installers -> 0..MaxTag]
    BY DEF LinkBin, Relink, locals, Inv, Types, LocalTypes
  <2>8. forced' = forced /\ outcome' \in [Installers -> {"none", "ok", "error"}]
    BY <2>1 DEF LinkBin, Relink, locals, Inv, Types, LocalTypes
  <2>9. \A j \in Installers : j # i => id'[j] = id[j] /\ outcome'[j] = outcome[j]
    BY <1>2, <2>1 DEF LinkBin, Relink, locals, Inv, Types, LocalTypes
  <2> QED
    BY <1>1, <2>1, <2>2, <2>3, <2>4, <2>5, <2>6, <2>7, <2>8, <2>9, StepKeeps
<1>3. CASE Fault(i) /\ UNCHANGED bin
  <2>1. BuildTypes'
    BY <1>3 DEF LinkBin, Relink, build, installed, Inv, Types, BuildTypes
  <2>2. id' = id /\ forced' = forced /\ previous' \in [Installers -> 0..MaxTag]
    BY <1>3 DEF LinkBin, Relink, locals, Inv, Types, LocalTypes
  <2>release. release' = release \/ release' \in HalfRemoved(release)
    BY <1>1, <1>3 DEF LinkBin, Relink, installed
  <2> QED
    BY <1>1, <1>3, <2>1, <2>2, <2>release, FaultKeeps
<1> QED
  BY <1>2, <1>3 DEF LinkBin, Relink

LEMMA ReusePart ==
  ASSUME Inv, NEW i \in Installers, Reuse(i)
  PROVE  Inv'
<1>1. pc[i] = "reuse" /\ pc[i] \in UnderLock /\ Static /\ UNCHANGED <<build, installed, locals>>
  BY DEF Reuse, UnderLock, Building, Installing
<1>2. BuildTypes' /\ UNCHANGED <<id, forced, previous>>
  BY <1>1 DEF build, installed, locals, Inv, Types, BuildTypes
<1>3. CASE Goto(i, IF ~forced[i] /\ Reusable(i) THEN "uncurrent" ELSE "sync")
  <2> DEFINE s == IF ~forced[i] /\ Reusable(i) THEN "uncurrent" ELSE "sync"
  <2>1. s \in UnderLock /\ s \in UnderLock \ {"stamp", "tools", "compile"} /\ pc' = [pc EXCEPT ![i] = s]
        /\ UNCHANGED <<outcome, faults>>
    BY <1>3 DEF Goto, UnderLock, Building, Installing
  <2>2. pc'[i] = s /\ (s = "uncurrent" => Reusable(i)) /\ s \in {"uncurrent", "sync"}
    BY <2>1 DEF Inv, Types, LocalTypes
  <2>3. AtStep(i)'
    <3>1. Reusable(i) <=> Reusable(i)'
      BY <1>1, <1>2 DEF Reusable, installed
    <3>2. outcome[i] # "ok" /\ id[i] \in FullIdentities /\ source >= 1 /\ source = id[i].head
      BY <1>1 DEF Inv, AtStep, UnderLock, Building
    <3> QED
      BY <1>1, <1>2, <2>1, <2>2, <3>1, <3>2 DEF AtStep, UnderLock, Building, Installing, build
  <2>4. Whole'
    BY <1>1, <2>1, WholeStays DEF Static, installed
  <2>5. Stamped'
    BY <1>1, <2>1, StampedStays DEF Static, build, UnderLock, Building, Installing
  <2> HIDE DEF s
  <2>6. id' = id /\ forced' = forced /\ previous' = previous /\ outcome' = outcome /\ faults' = faults
    BY <1>2, <2>1
  <2>7. /\ id' \in [Installers -> [head : 0..MaxHead, base : 0..MaxTag, mode : Modes \union {"none"}]]
        /\ previous' \in [Installers -> 0..MaxTag]
        /\ outcome' \in [Installers -> {"none", "ok", "error"}]
    BY <2>6 DEF Inv, Types, LocalTypes
  <2> QED
    BY <1>1, <1>2, <2>1, <2>3, <2>4, <2>5, <2>6, <2>7, StepKeeps
<1>4. CASE Fault(i)
  <2>1. previous' \in [Installers -> 0..MaxTag]
    BY <1>2 DEF Inv, Types, LocalTypes
  <2>release. release' = release \/ release' \in HalfRemoved(release)
    BY <1>1, <1>4 DEF Reuse, installed
  <2> QED
    BY <1>1, <1>2, <1>4, <2>1, <2>release, FaultKeeps
<1> QED
  BY <1>3, <1>4 DEF Reuse

LEMMA CheckPart ==
  ASSUME Inv, NEW i \in Installers, Check(i)
  PROVE  Inv'
<1>1. pc[i] = "check" /\ pc[i] \in UnderLock /\ Static /\ UNCHANGED <<build, installed, locals>>
  BY DEF Check, UnderLock, Building, Installing
<1>2. BuildTypes' /\ UNCHANGED <<id, forced, previous>>
  BY <1>1 DEF build, installed, locals, Inv, Types, BuildTypes
<1>3. CASE Usable /\ Succeed(i)
  <2>1. /\ pc' = [pc EXCEPT ![i] = "unlock"] /\ faults' = faults /\ pc'[i] = "unlock"
        /\ "unlock" \in UnderLock /\ outcome' = [outcome EXCEPT ![i] = "ok"]
    BY <1>3 DEF Succeed, Inv, Types, LocalTypes, UnderLock
  <2>2. AtStep(i)'
    <3>1. (Usable /\ release.label = id[i] /\ release.built = id[i])'
      BY <1>1, <1>2, <1>3 DEF Inv, AtStep, Reusable, Usable, installed, Whole, Labelled
    <3> QED
      BY <2>1, <3>1 DEF AtStep, UnderLock, Building, Installing
  <2>3. Whole'
    BY <1>1, <2>1, WholeStays DEF Static, installed
  <2>4. Stamped'
    BY <1>1, <2>1, StampedStays DEF Static, build, UnderLock, Building, Installing
  <2>5. /\ id' \in [Installers -> [head : 0..MaxHead, base : 0..MaxTag, mode : Modes \union {"none"}]]
        /\ previous' \in [Installers -> 0..MaxTag]
        /\ outcome' \in [Installers -> {"none", "ok", "error"}]
        /\ \A j \in Installers : j # i => id'[j] = id[j] /\ outcome'[j] = outcome[j]
    BY <1>2, <2>1 DEF Inv, Types, LocalTypes
  <2> QED
    BY <1>1, <1>2, <2>1, <2>2, <2>3, <2>4, <2>5, StepKeeps
<1>4. CASE Fault(i)
  <2>1. previous' \in [Installers -> 0..MaxTag]
    BY <1>2 DEF Inv, Types, LocalTypes
  <2>release. release' = release \/ release' \in HalfRemoved(release)
    BY <1>1, <1>4 DEF Check, installed
  <2> QED
    BY <1>1, <1>2, <1>4, <2>1, <2>release, FaultKeeps
<1> QED
  BY <1>3, <1>4 DEF Check

-----------------------------------------------------------------------------
\* A process that goes, before or after its turn, takes its locals with it.
LEMMA GoneFacts ==
  ASSUME Inv, NEW i \in Installers, Gone(i)
  PROVE  /\ pc' \in [Installers -> UnderLock \union {"idle", "lock"}]
         /\ id' \in [Installers -> [head : 0..MaxHead, base : 0..MaxTag, mode : Modes \union {"none"}]]
         /\ forced' \in [Installers -> BOOLEAN] /\ previous' \in [Installers -> 0..MaxTag]
         /\ outcome' \in [Installers -> {"none", "ok", "error"}]
         /\ pc'[i] = "idle" /\ outcome'[i] = "none"
         /\ \A j \in Installers : j # i => pc'[j] = pc[j] /\ id'[j] = id[j] /\ outcome'[j] = outcome[j]
                                           /\ previous'[j] = previous[j]
BY IdentityFacts, Limits DEF Inv, Types, LocalTypes, Gone

\* The holder goes and the lock with it: nobody is past it any more.
LEMMA HolderGone ==
  ASSUME Inv, NEW i \in Installers, pc[i] \in UnderLock, Gone(i), lock' = NoOwner, Forget,
         UNCHANGED <<upstream, source, work, compiled, current, bin>>,
         release' \in Packages, faults' \in Nat, crashes' \in Nat,
         Whole', Stamped'
  PROVE  Inv'
<1>1. UpstreamTypes'
  BY DEF Inv, Types, upstream, UpstreamTypes
<1>2. BuildTypes'
  BY IdentityFacts, NoneFacts DEF Inv, Types, BuildTypes, Forget, NoEntry
<1>3. LocalTypes'
  BY GoneFacts DEF LocalTypes
<1>4. \A j \in Installers : pc'[j] \notin UnderLock
  <2> TAKE j \in Installers
  <2>1. CASE j = i
    BY <2>1, GoneFacts DEF UnderLock, Building, Installing
  <2>2. CASE j # i
    BY <2>2, GoneFacts DEF Inv, Exclusive
  <2> QED
    BY <2>1, <2>2
<1>5. Exclusive'
  BY <1>4, CodexInstallAssumption DEF Exclusive
<1>6. ASSUME NEW j \in Installers PROVE AtStep(j)'
  <2>1. CASE j = i
    BY <2>1, GoneFacts DEF AtStep, UnderLock, Building, Installing
  <2>2. CASE j # i
    BY <2>2, GoneFacts, Others DEF Inv, Types
  <2> QED
    BY <2>1, <2>2
<1> QED
  BY <1>1, <1>2, <1>3, <1>5, <1>6 DEF Inv, Types

LEMMA UnlockPart ==
  ASSUME Inv, NEW i \in Installers, Unlock(i)
  PROVE  Inv'
<1>1. pc[i] = "unlock" /\ pc[i] \in UnderLock
  BY DEF Unlock, UnderLock
<1>2. Whole'
  BY WholeStays DEF Unlock
<1>3. Stamped'
  <2>1. \A j \in Installers : pc[j] \notin {"stamp", "tools", "compile"}
    BY <1>1 DEF Inv, Exclusive, UnderLock, Building
  <2>2. \A j \in Installers : pc'[j] \notin {"stamp", "tools", "compile"}
    BY <2>1, GoneFacts DEF Unlock
  <2> QED
    BY <2>1, <2>2 DEF Unlock, Inv, Stamped, Undisturbed
<1>4. release' \in Packages /\ faults' \in Nat /\ crashes' \in Nat
  BY DEF Unlock, Inv, Types, BuildTypes, LocalTypes
<1> QED
  BY <1>1, <1>2, <1>3, <1>4, HolderGone DEF Unlock

LEMMA CrashPart ==
  ASSUME Inv, NEW i \in Installers, Crash(i)
  PROVE  Inv'
<1>1. faults' \in Nat /\ crashes' \in Nat /\ ~Undisturbed'
  BY DEF Crash, Inv, Types, LocalTypes, Undisturbed
<1>2. release' \in Packages
  BY DamagedFacts DEF Crash, Inv, Types, BuildTypes
<1>3. Whole' /\ Stamped'
  <2>1. release' = release \/ release' \in HalfRemoved(release)
    BY DEF Crash
  <2> QED
    BY <1>1, <2>1, RemovalKeepsLabel DEF Inv, Types, BuildTypes, Whole, Stamped
<1> QED
  BY <1>1, <1>2, <1>3, HolderGone DEF Crash

\* What holds of a process while nothing it sees changes.
LEMMA AtStepStays ==
  ASSUME NEW j \in Installers, AtStep(j), pc'[j] = pc[j], id'[j] = id[j], outcome'[j] = outcome[j],
         UNCHANGED <<build, installed>>
  PROVE  AtStep(j)'
<1>1. UNCHANGED <<source, work, entry, package, stage, release, current, bin>>
  BY DEF build, installed
<1> QED
  BY <1>1 DEF AtStep, Ready, Reusable, Usable

LEMMA StampedStaysOutside ==
  ASSUME Inv, UNCHANGED <<work, compiled, faults, crashes>>,
         NEW i \in Installers, pc[i] \notin UnderLock,
         pc'[i] \notin {"stamp", "tools", "compile"},
         \A j \in Installers : j # i => pc'[j] = pc[j] /\ id'[j] = id[j] /\ previous'[j] = previous[j]
  PROVE  Stamped'
<1>1. pc[i] \notin {"stamp", "tools", "compile"}
  BY DEF UnderLock, Building
<1> QED
  BY <1>1 DEF Inv, Stamped, Undisturbed

LEMMA BeginPart ==
  ASSUME Inv, NEW i \in Installers, NEW m \in Modes, NEW f \in BOOLEAN, Begin(i, m, f)
  PROVE  Inv'
<1>1. UpstreamTypes' /\ BuildTypes'
  BY DEF Begin, upstream, build, installed, Inv, Types, UpstreamTypes, BuildTypes
<1>2. /\ \A j \in Installers : j # i => pc'[j] = pc[j] /\ id'[j] = id[j] /\ outcome'[j] = outcome[j]
      /\ pc[i] = "idle" /\ pc'[i] = "lock" /\ outcome'[i] = "none"
      /\ id'[i] = [NoIdentity EXCEPT !.mode = m]
  BY DEF Begin, Inv, Types, LocalTypes
<1>3. LocalTypes'
  <2>1. [NoIdentity EXCEPT !.mode = m] \in
          [head : 0..MaxHead, base : 0..MaxTag, mode : Modes \union {"none"}]
    BY Limits DEF NoIdentity
  <2> QED
    BY <2>1 DEF Begin, Inv, Types, LocalTypes
<1>4. Exclusive'
  BY <1>2 DEF Begin, Inv, Exclusive, UnderLock, Building, Installing
<1>5. ASSUME NEW j \in Installers PROVE AtStep(j)'
  <2>1. CASE j = i
    BY <2>1, <1>2 DEF AtStep, UnderLock, Building, Installing, NoIdentity
  <2>2. CASE j # i
    BY <2>2, <1>2, AtStepStays DEF Begin, Inv
  <2> QED
    BY <2>1, <2>2
<1>6. Whole'
  BY WholeStays DEF Begin, installed
<1>7. Stamped'
  BY <1>2, StampedStaysOutside DEF Begin, build, UnderLock, Building, Installing
<1> QED
  BY <1>1, <1>3, <1>4, <1>5, <1>6, <1>7 DEF Inv, Types

\* A process that stops waiting for the lock.
LEMMA WaiterGone ==
  ASSUME Inv, NEW i \in Installers, pc[i] = "lock", Gone(i), faults' \in Nat, faults' >= faults,
         UNCHANGED <<upstream, lock, build, installed, crashes>>
  PROVE  Inv'
<1>1. UpstreamTypes' /\ BuildTypes'
  BY DEF upstream, build, installed, Inv, Types, UpstreamTypes, BuildTypes
<1>2. LocalTypes'
  BY GoneFacts DEF Inv, Types, LocalTypes
<1>3. pc[i] \notin UnderLock /\ pc'[i] \notin UnderLock
  BY GoneFacts DEF UnderLock, Building, Installing
<1>4. Exclusive'
  BY <1>3, GoneFacts DEF Inv, Exclusive
<1>5. ASSUME NEW j \in Installers PROVE AtStep(j)'
  <2>1. CASE j = i
    BY <2>1, GoneFacts DEF AtStep, UnderLock, Building, Installing
  <2>2. CASE j # i
    BY <2>2, GoneFacts, AtStepStays DEF Inv
  <2> QED
    BY <2>1, <2>2
<1>6. CASE faults' = faults
  <2>1. Whole'
    BY <1>6, WholeStays DEF installed
  <2>2. Stamped'
    BY <1>3, <1>6, GoneFacts, StampedStaysOutside DEF build
  <2> QED
    BY <1>1, <1>2, <1>4, <1>5, <2>1, <2>2 DEF Inv, Types
<1>7. CASE faults' # faults
  <2>1. ~Undisturbed'
    BY <1>7 DEF Undisturbed, Inv, Types, LocalTypes
  <2> QED
    BY <1>1, <1>2, <1>4, <1>5, <2>1 DEF Inv, Types, Whole, Labelled, Stamped, installed
<1> QED
  BY <1>6, <1>7

LEMMA LockPart ==
  ASSUME Inv, NEW i \in Installers, Lock(i)
  PROVE  Inv'
<1>1. CASE lock = NoOwner /\ lock' = i /\ Goto(i, "update") /\ UNCHANGED locals
  <2>1. UpstreamTypes' /\ BuildTypes' /\ LocalTypes'
    BY <1>1
       DEF Lock, Goto, upstream, build, installed, locals, Inv, Types, UpstreamTypes, BuildTypes,
           LocalTypes, UnderLock, Building
  <2>2. /\ pc[i] = "lock" /\ pc'[i] = "update" /\ id' = id /\ outcome' = outcome
        /\ previous' = previous /\ \A j \in Installers : j # i => pc'[j] = pc[j]
    BY <1>1 DEF Lock, Goto, locals, Inv, Types, LocalTypes
  <2>3. \A j \in Installers : pc[j] \notin UnderLock
    BY <1>1, CodexInstallAssumption DEF Inv, Exclusive
  <2>4. Exclusive'
    BY <1>1, <2>2, <2>3 DEF Exclusive, UnderLock, Building
  <2>5. ASSUME NEW j \in Installers PROVE AtStep(j)'
    <3>1. CASE j = i
      <4>1. id[i].mode \in Modes /\ outcome[i] # "ok"
        BY <2>2 DEF Inv, AtStep
      <4> QED
        BY <3>1, <2>2, <4>1 DEF AtStep, UnderLock, Building, Installing
    <3>2. CASE j # i
      BY <3>2, <2>2, AtStepStays DEF Lock, Inv
    <3> QED
      BY <3>1, <3>2
  <2>6. Whole'
    BY <1>1, WholeStays DEF Lock, Goto, installed
  <2>7. Stamped'
    BY <1>1, <2>2, <2>3, StampedStaysOutside DEF Lock, Goto, build
  <2> QED
    BY <2>1, <2>4, <2>5, <2>6, <2>7 DEF Inv, Types
<1>2. CASE faults' = faults + 1 /\ Gone(i) /\ UNCHANGED lock
  BY <1>2, WaiterGone DEF Lock, Inv, Types, LocalTypes
<1> QED
  BY <1>1, <1>2 DEF Lock

LEMMA GiveUpPart ==
  ASSUME Inv, NEW i \in Installers, GiveUp(i)
  PROVE  Inv'
BY WaiterGone DEF GiveUp, Inv, Types, LocalTypes

\* A step that changes nothing but upstream, or nothing at all.
LEMMA Quiet ==
  ASSUME Inv, UpstreamTypes',
         UNCHANGED <<lock, build, installed, pc, locals, outcome, faults, crashes>>
  PROVE  Inv'
<1>1. BuildTypes' /\ LocalTypes' /\ Exclusive'
  BY DEF build, installed, locals, Inv, Types, BuildTypes, LocalTypes, Exclusive
<1>2. ASSUME NEW j \in Installers PROVE AtStep(j)'
  BY AtStepStays DEF Inv, locals
<1>3. Whole' /\ Stamped'
  BY DEF build, installed, locals, Inv, Whole, Labelled, Stamped, Undisturbed
<1> QED
  BY <1>1, <1>2, <1>3 DEF Inv, Types

LEMMA UpstreamPart == Inv /\ Upstream => Inv'
<1> SUFFICES ASSUME Inv, Upstream PROVE Inv'
  OBVIOUS
<1>1. UpstreamTypes'
  <2>1. CASE Push
    BY <2>1, Limits DEF Push, Inv, Types, UpstreamTypes
  <2>2. CASE Tag
    BY <2>2 DEF Tag, Inv, Types, UpstreamTypes
  <2> QED
    BY <2>1, <2>2 DEF Upstream
<1> QED
  BY <1>1, Quiet DEF Upstream

LEMMA StutterPart == Inv /\ UNCHANGED vars => Inv'
<1> SUFFICES ASSUME Inv, UNCHANGED vars PROVE Inv'
  OBVIOUS
<1>1. UpstreamTypes'
  BY DEF vars, upstream, Inv, Types, UpstreamTypes
<1> QED
  BY <1>1, Quiet DEF vars

\* The invariant holds in every state of the installers, the release and upstream.
THEOREM Invariance == Spec => []Inv
<1>1. Inv /\ [Next]_vars => Inv'
  <2> SUFFICES ASSUME Inv, Next PROVE Inv'
    BY StutterPart
  <2>1. CASE Upstream
    BY <2>1, UpstreamPart
  <2>2. ASSUME NEW i \in Installers, NEW m \in Modes, NEW f \in BOOLEAN, Begin(i, m, f) PROVE Inv'
    BY <2>2, BeginPart
  <2>3. ASSUME NEW i \in Installers, Install(i) PROVE Inv'
    BY <2>3, LockPart, UpdatePart, IdentityPart, ReusePart, SyncPart, StampPart, ToolsPart,
    CompilePart,
       SignPart, PackagePart, VersionPart, StagePart, DropPart, PromotePart, RemoveCurrentPart,
       LinkCurrentPart, RemoveBinPart, LinkBinPart, CheckPart, UnlockPart
       DEF Install
  <2>4. ASSUME NEW i \in Installers, GiveUp(i) \/ Crash(i) PROVE Inv'
    BY <2>4, GiveUpPart, CrashPart
  <2> QED
    BY <2>1, <2>2, <2>3, <2>4 DEF Next
<1> QED
  BY InitInv, <1>1, PTL DEF Spec

-----------------------------------------------------------------------------
\* Every variable keeps its type, and .install.lock belongs to exactly the process that
\* is past acquireCodexInstallLock: two installs are never in the build or the release
\* directory together.
THEOREM OneInstallAtATime == Spec => []TypeOK
<1>1. Inv => TypeOK
  BY DEF Inv, Types, UpstreamTypes, BuildTypes, LocalTypes, Exclusive, TypeOK
<1> QED
  BY Invariance, <1>1, PTL

\* An install that reports success leaves the command resolving to a release built from
\* what it resolved, although no step compares the two (buildStampedPackage,
\* maybeReuseInstalledRelease, installPackage).
THEOREM SuccessIsItsBuild == Spec => []SuccessInstallsItsBuild
<1>1. Inv => SuccessInstallsItsBuild
  <2> SUFFICES ASSUME Inv, NEW i \in Installers, pc[i] = "unlock", outcome[i] = "ok"
               PROVE  /\ Usable
                      /\ release.built = id[i] /\ release.label = id[i]
                      /\ faults + crashes = 0 => release.whole
    BY DEF SuccessInstallsItsBuild
  <2>1. Usable /\ release.label = id[i] /\ release.built = id[i]
    BY DEF Inv, AtStep
  <2>2. faults + crashes = 0 => Undisturbed
    BY DEF Inv, Types, LocalTypes, Undisturbed
  <2> QED
    BY <2>1, <2>2 DEF Inv, Whole, Usable
<1> QED
  BY Invariance, <1>1, PTL

\* Cargo never runs for another base version under a manifest that is not newer than
\* the build before (stampCodexBuildSource), unless a build failed or was killed.
THEOREM BumpsAreSeen == Spec => []BumpAdvancesMtime
<1>1. Inv => BumpAdvancesMtime
  <2> SUFFICES ASSUME Inv, NEW i \in Installers, pc[i] = "compile", faults + crashes = 0,
                      compiled # id[i].base
               PROVE  work.newer
    BY DEF BumpAdvancesMtime
  <2>1. Undisturbed
    BY DEF Inv, Types, LocalTypes, Undisturbed
  <2> QED
    BY <2>1 DEF Inv, Stamped
<1> QED
  BY Invariance, <1>1, PTL

\* A release is taken away only when its complete, signed successor is staged
\* (installPackage).
THEOREM SuccessorsAreReady == Spec => ReplacedByReady
<1>1. Inv /\ [Next]_vars => [release.whole /\ ~release'.whole => stage.whole /\ stage.signed]_vars
  <2> SUFFICES ASSUME Inv, Next, release.whole, ~release'.whole
               PROVE  stage.whole /\ stage.signed
    BY DEF vars
  <2>1. PICK i \in Installers : Drop(i) \/ Promote(i) \/ (Crash(i) /\ pc[i] = "drop")
    <3>1. release' # release
      OBVIOUS
    <3>2. ~Upstream
      BY <3>1 DEF Upstream, installed
    <3>3. ASSUME NEW i \in Installers, NEW m \in Modes, NEW f \in BOOLEAN, Begin(i, m, f) PROVE FALSE
      BY <3>1, <3>3 DEF Begin, installed
    <3>4. ASSUME NEW i \in Installers, GiveUp(i) PROVE FALSE
      BY <3>1, <3>4 DEF GiveUp, installed
    <3>5. ASSUME NEW i \in Installers, Install(i) PROVE Drop(i) \/ Promote(i)
      BY <3>1, <3>5
         DEF Install, Lock, Update, Identity, Reuse, Sync, Stamp, Tools, Compile, Sign, Package,
             Version,
             Stage, RemoveCurrent, LinkCurrent, RemoveBin, LinkBin, Unlink, Relink, Check, Unlock,
             installed
    <3>6. ASSUME NEW i \in Installers, Crash(i) PROVE pc[i] = "drop"
      BY <3>1, <3>6 DEF Crash
    <3> QED
      BY <3>2, <3>3, <3>4, <3>5, <3>6 DEF Next
  <2>2. pc[i] \in {"drop", "promote"}
    BY <2>1 DEF Drop, Promote
  <2> QED
    BY <2>2 DEF Inv, AtStep, Ready
<1> QED
  BY Invariance, <1>1, PTL DEF Spec, ReplacedByReady
=============================================================================
