------------------------ MODULE PatchPipelineProofs ------------------------
(* Proofs of PatchPipeline: what each step of a patch leaves stays there until *)
(* the patch has ended, whatever the patches before it left.                   *)
EXTENDS PatchPipeline, TLAPS

\* The place of each step in the pipeline of a plan, 0 for one that is not in it.
StandardPlace ==
  [stage |-> 1, entitlements |-> 2, move |-> 3, wrapper |-> 4, shim |-> 5, launch |-> 6,
   policy |-> 7, dylib |-> 8, smoke |-> 9, install |-> 10, env |-> 11, restore |-> 12,
   unembed |-> 13, embed |-> 0, extend |-> 14, seal |-> 15, installed |-> 16, cached |-> 17,
   plugin |-> 18, pluginCopy |-> 19, teeMove |-> 20, teeCopy |-> 21, teeSign |-> 22,
   check |-> 23, verify |-> 24, record |-> 25, regrant |-> 26]
DevelopmentPlace ==
  [stage |-> 0, entitlements |-> 7, move |-> 0, wrapper |-> 0, shim |-> 0, launch |-> 0,
   policy |-> 2, dylib |-> 3, smoke |-> 4, install |-> 5, env |-> 6, restore |-> 0,
   unembed |-> 0, embed |-> 1, extend |-> 8, seal |-> 16, installed |-> 9, cached |-> 10,
   plugin |-> 11, pluginCopy |-> 12, teeMove |-> 13, teeCopy |-> 14, teeSign |-> 15,
   check |-> 17, verify |-> 18, record |-> 19, regrant |-> 20]

Steps == DOMAIN StandardPlace
Runs == {"standard", "development", "keychain"}

Place(p, u) ==
  CASE p = "standard" -> StandardPlace[u]
    [] p = "development" -> DevelopmentPlace[u]
    [] OTHER -> IF u = "regrant" THEN 1 ELSE 0

\* The steps behind the run it had something to do for.
Done ==
  {u \in Steps : /\ Place(plan, u) > 0 /\ Applies(u, plan, migrate)
                 /\ (step # "idle" /\ Place(plan, u) < Place(plan, step)) \/ outcome = "ok"}

-----------------------------------------------------------------------------
\* A run is at a step of its plan there is something to do for, and has not ended;
\* it ended well only at the end of a plan.
RunInv ==
  /\ step # "idle" => /\ outcome = "none" /\ plan \in Runs
                      /\ step \in Steps /\ Place(plan, step) > 0 /\ Applies(step, plan, migrate)
  /\ outcome = "ok" => step = "idle" /\ plan \in Runs
  /\ plan = "development" => policy = "development"

\* What no step of any plan undoes.
CodeInv ==
  /\ ~real => main = "vendor" /\ seal["main"] # "stale"
  /\ seal["real"] # "stale" /\ seal["nested"] # "stale" /\ seal["app"] # "none"
  /\ policy = "development" => seal["helper"] # "none"

\* What the steps behind a run have left, part by part: the bundle ...
BundleInv ==
  /\ "move" \in Done => real
  /\ "wrapper" \in Done => wrapper = "whole"
  /\ "shim" \in Done => main = "shim"
  /\ "launch" \in Done => launch = "whole"
  /\ "unembed" \in Done => profile = "none"
  /\ "embed" \in Done => profile = "development"
  /\ "record" \in Done => record = version

\* ... the injector ...
InjectorInv ==
  /\ "policy" \in Done => policyFile = "whole"
  /\ "install" \in Done => dylib = "tested"
  /\ "env" \in Done => env = "set"

\* ... the copies of the helper ...
HelpersInv ==
  /\ "extend" \in Done => trust["bundled"] = "local" /\ seal["helper"] = "local"
  /\ "installed" \in Done => trust["installed"] \in {"absent", "local"}
  /\ "cached" \in Done => trust["cached"] \in {"absent", "local"}
  /\ "pluginCopy" \in Done => trust["plugin"] = "local"

\* ... the signatures ...
SealInv ==
  "seal" \in Done =>
    /\ plan = "standard" => seal["app"] = "local" /\ \A c \in Code : seal[c] \in {"none", "local"}
    /\ plan = "development" => /\ seal["app"] = "development" /\ \A c \in Code : seal[c] # "stale"
                               /\ main \notin {"none", "torn"}

\* ... and the tee, which is installed in three steps.
TeeInv ==
  /\ step = "teeCopy" => cli.real /\ cli.shim = "none"
  /\ step = "teeSign" => cli.real /\ cli.shim = "tee"
  /\ CliComesBack

Inv ==
  /\ TypeOK /\ RunInv /\ CodeInv
  /\ BundleInv /\ InjectorInv /\ HelpersInv /\ SealInv /\ TeeInv
  /\ EnvironmentFindsInjector /\ OnlyTheseRefuse
-----------------------------------------------------------------------------
LEMMA StandardPlaces ==
  /\ DOMAIN Standard = 1..26 /\ Len(Standard) = 26
  /\ \A i \in 1..26 : Standard[i] \in Steps /\ StandardPlace[Standard[i]] = i
  /\ \A u \in Steps : StandardPlace[u] > 0 =>
       StandardPlace[u] \in 1..26 /\ Standard[StandardPlace[u]] = u
<1>1. Len(Standard) = 26 /\ DOMAIN Standard = 1..26
  BY DEF Standard, Finalize, Closing, InstallInjection
<1>2. \A i \in 1..26 : Standard[i] \in Steps /\ StandardPlace[Standard[i]] = i
  BY <1>1, SMTT(60) DEF Standard, Finalize, Closing, InstallInjection, StandardPlace, Steps
<1>3. \A u \in Steps : StandardPlace[u] > 0 =>
        StandardPlace[u] \in 1..26 /\ Standard[StandardPlace[u]] = u
  BY <1>1, SMTT(60) DEF Standard, Finalize, Closing, InstallInjection, StandardPlace, Steps
<1> QED BY <1>1, <1>2, <1>3

LEMMA DevelopmentPlaces ==
  /\ DOMAIN Development = 1..20 /\ Len(Development) = 20
  /\ \A i \in 1..20 : Development[i] \in Steps /\ DevelopmentPlace[Development[i]] = i
  /\ \A u \in Steps : DevelopmentPlace[u] > 0 =>
       DevelopmentPlace[u] \in 1..20 /\ Development[DevelopmentPlace[u]] = u
<1>1. Len(Development) = 20 /\ DOMAIN Development = 1..20
  BY DEF Development, Finalize, Closing, InstallInjection
<1>2. \A i \in 1..20 : Development[i] \in Steps /\ DevelopmentPlace[Development[i]] = i
  BY <1>1, SMTT(60)
     DEF Development, Finalize, Closing, InstallInjection, StandardPlace, DevelopmentPlace, Steps
<1>3. \A u \in Steps : DevelopmentPlace[u] > 0 =>
        DevelopmentPlace[u] \in 1..20 /\ Development[DevelopmentPlace[u]] = u
  BY <1>1, SMTT(60)
     DEF Development, Finalize, Closing, InstallInjection, StandardPlace, DevelopmentPlace, Steps
<1> QED BY <1>1, <1>2, <1>3

LEMMA PlacesAreNumbers ==
  /\ \A u \in Steps : StandardPlace[u] \in 0..26
  /\ \A u \in Steps : DevelopmentPlace[u] \in 0..20
<1>1. \A u \in Steps : StandardPlace[u] \in 0..26
  BY DEF StandardPlace, Steps
<1>2. \A u \in Steps : DevelopmentPlace[u] \in 0..20
  BY DEF StandardPlace, DevelopmentPlace, Steps
<1> QED BY <1>1, <1>2

\* A pipeline holds each of its steps once, at its place.
LEMMA Places ==
  ASSUME NEW p \in Runs
  PROVE  /\ Len(Pipeline(p)) \in Nat /\ DOMAIN Pipeline(p) = 1..Len(Pipeline(p))
         /\ \A i \in DOMAIN Pipeline(p) : Pipeline(p)[i] \in Steps /\ Place(p, Pipeline(p)[i]) = i
         /\ \A u \in Steps : /\ Place(p, u) \in Nat
                             /\ Place(p, u) > 0 => /\ Place(p, u) \in DOMAIN Pipeline(p)
                                                   /\ Pipeline(p)[Place(p, u)] = u
<1>1. CASE p = "standard"
  <2>1. Pipeline(p) = Standard /\ \A u \in Steps : Place(p, u) = StandardPlace[u]
    BY <1>1 DEF Pipeline, Place
  <2> QED BY <2>1, StandardPlaces, PlacesAreNumbers
<1>2. CASE p = "development"
  <2>1. Pipeline(p) = Development /\ \A u \in Steps : Place(p, u) = DevelopmentPlace[u]
    BY <1>2 DEF Pipeline, Place
  <2> QED BY <2>1, DevelopmentPlaces, PlacesAreNumbers
<1>3. CASE p = "keychain"
  <2>1. Pipeline(p) = <<"regrant">> BY <1>3 DEF Pipeline
  <2>2. \A u \in Steps : Place(p, u) = IF u = "regrant" THEN 1 ELSE 0
    BY <1>3 DEF Place
  <2>3. "regrant" \in Steps BY DEF Steps, StandardPlace
  <2>4. Len(<<"regrant">>) = 1 /\ DOMAIN <<"regrant">> = 1..1 /\ <<"regrant">>[1] = "regrant"
    OBVIOUS
  <2> QED BY <2>1, <2>2, <2>3, <2>4
<1> QED BY <1>1, <1>2, <1>3 DEF Runs

\* The run goes on to the next step with something to do, or to its end when there is
\* none: what it leaves behind is the step it was at and what was behind already.
LEMMA GoesOn ==
  ASSUME NEW s \in Steps, plan \in Runs, outcome = "none", GotoAfter(s),
         UNCHANGED <<policy, plan, migrate>>
  PROVE  /\ \/ step' = "idle" /\ outcome' = "ok"
            \/ /\ step' # "idle" /\ step' \in Steps /\ outcome' = "none"
               /\ Place(plan, s) < Place(plan, step') /\ Applies(step, plan, migrate)'
         /\ Place(plan, s) > 0
         /\ \A u \in Done' :
              /\ Place(plan, u) > 0 /\ Applies(u, plan, migrate)
              /\ Place(plan, u) <= Place(plan, s)
         /\ step' = "teeCopy" => s = "teeMove"
         /\ step' = "teeSign" => s = "teeCopy"
<1> DEFINE P == Pipeline(plan)
<1>1. /\ Len(P) \in Nat /\ DOMAIN P = 1..Len(P)
      /\ \A i \in DOMAIN P : P[i] \in Steps /\ Place(plan, P[i]) = i
      /\ \A u \in Steps : Place(plan, u) \in Nat
      /\ \A u \in Steps : Place(plan, u) > 0 => Place(plan, u) \in DOMAIN P /\ P[Place(plan, u)] = u
  BY Places
<1>2. PICK i \in DOMAIN P :
        /\ P[i] = s
        /\ \/ NothingBetween(plan, migrate, i, Len(P) + 1) /\ Ended("ok")
           \/ \E j \in DOMAIN P : Follows(plan, migrate, i, j) /\ step' = P[j] /\ UNCHANGED outcome
  BY DEF GotoAfter
<1>3. i = Place(plan, s) /\ i \in 1..Len(P) BY <1>1, <1>2
<1>4. \A u \in Steps : Applies(u, plan, migrate)' <=> Applies(u, plan, migrate) BY DEF Applies
<1>5. \A u \in Steps : Place(plan, u)' = Place(plan, u) BY DEF Place
<1>6. "idle" \notin Steps BY DEF Steps, StandardPlace
<1>7. CASE NothingBetween(plan, migrate, i, Len(P) + 1) /\ Ended("ok")
  <2>1. step' = "idle" /\ outcome' = "ok" BY <1>7 DEF Ended
  <2>2. ASSUME NEW u \in Done'
        PROVE  /\ Place(plan, u) > 0 /\ Applies(u, plan, migrate)
               /\ Place(plan, u) <= Place(plan, s)
    <3>0. u \in Steps /\ Place(plan, u)' > 0 /\ Applies(u, plan, migrate)' BY <2>2 DEF Done
    <3>1. Place(plan, u) > 0 /\ Applies(u, plan, migrate) BY <3>0, <1>4, <1>5
    <3>2. Place(plan, u) \in 1..Len(P) /\ P[Place(plan, u)] = u BY <3>0, <3>1, <1>1
    <3>3. Place(plan, u) \notin (i + 1)..(Len(P) + 1 - 1) BY <1>7, <3>1, <3>2 DEF NothingBetween
    <3> QED BY <3>1, <3>2, <3>3, <1>3, <1>1
  <2> QED BY <2>1, <2>2, <1>3, <1>1
<1>8. ASSUME NEW j \in DOMAIN P, Follows(plan, migrate, i, j), step' = P[j], UNCHANGED outcome
      PROVE  /\ step' \in Steps /\ Place(plan, s) < Place(plan, step') /\ outcome' = "none"
             /\ Applies(step, plan, migrate)'
             /\ \A u \in Done' :
                  /\ Place(plan, u) > 0 /\ Applies(u, plan, migrate)
                  /\ Place(plan, u) <= Place(plan, s)
             /\ step' = "teeCopy" => s = "teeMove"
             /\ step' = "teeSign" => s = "teeCopy"
  <2>1. step' \in Steps /\ Place(plan, step') = j BY <1>8, <1>1
  <2>2. i < j /\ Applies(step', plan, migrate) BY <1>8 DEF Follows
  <2>3. \A k \in (i + 1)..(j - 1) : ~Applies(P[k], plan, migrate)
    BY <1>8 DEF Follows, NothingBetween
  <2>4. ASSUME NEW u \in Done'
        PROVE  /\ Place(plan, u) > 0 /\ Applies(u, plan, migrate)
               /\ Place(plan, u) <= Place(plan, s)
    <3>0. u \in Steps /\ Place(plan, u)' > 0 /\ Applies(u, plan, migrate)' BY <2>4 DEF Done
    <3>1. Place(plan, u) > 0 /\ Applies(u, plan, migrate) BY <3>0, <1>4, <1>5
    <3>2. Place(plan, u) \in 1..Len(P) /\ P[Place(plan, u)] = u BY <3>0, <3>1, <1>1
    <3>3. Place(plan, step)' = j BY <2>1, <1>5
    <3>4. Place(plan, u) < j BY <2>4, <1>8, <1>5, <3>3 DEF Done
    <3>5. Place(plan, u) \notin (i + 1)..(j - 1) BY <2>3, <3>1, <3>2
    <3> QED BY <3>1, <3>2, <3>4, <3>5, <1>3, <1>1
  <2>5. Applies("teeCopy", plan, migrate) => Applies("teeMove", plan, migrate) BY DEF Applies
  <2>6. Applies("teeSign", plan, migrate) => Applies("teeCopy", plan, migrate) BY DEF Applies
  <2>7. /\ Place(plan, "teeCopy") > 0 => Place(plan, "teeMove") + 1 = Place(plan, "teeCopy")
        /\ Place(plan, "teeSign") > 0 => Place(plan, "teeCopy") + 1 = Place(plan, "teeSign")
    BY DEF Runs, Place, StandardPlace, DevelopmentPlace
  <2>8. "teeMove" \in Steps /\ "teeCopy" \in Steps BY DEF Steps, StandardPlace
  <2>9. ASSUME step' = "teeCopy" PROVE s = "teeMove"
    <3>1. Place(plan, "teeMove") = j - 1 /\ j > 1 BY <2>9, <2>1, <2>2, <2>7, <2>8, <1>1, <1>3
    <3>2. P[j - 1] = "teeMove" BY <3>1, <1>1, <2>8
    <3>3. j - 1 \notin (i + 1)..(j - 1) BY <3>2, <2>9, <2>2, <2>3, <2>5
    <3> QED BY <3>1, <3>2, <3>3, <2>2, <1>1, <1>2, <1>3
  <2>10. ASSUME step' = "teeSign" PROVE s = "teeCopy"
    <3>1. Place(plan, "teeCopy") = j - 1 /\ j > 1 BY <2>10, <2>1, <2>2, <2>7, <2>8, <1>1, <1>3
    <3>2. P[j - 1] = "teeCopy" BY <3>1, <1>1, <2>8
    <3>3. j - 1 \notin (i + 1)..(j - 1) BY <3>2, <2>10, <2>2, <2>3, <2>6
    <3> QED BY <3>1, <3>2, <3>3, <2>2, <1>1, <1>2, <1>3
  <2>11. Applies(step, plan, migrate)' BY <2>1, <2>2, <1>4 DEF Applies
  <2> QED BY <1>8, <2>1, <2>2, <2>4, <2>9, <2>10, <2>11, <1>3
<1>9. Place(plan, s) > 0 BY <1>3, <1>1
<1>10. CASE \E j \in DOMAIN P : Follows(plan, migrate, i, j) /\ step' = P[j] /\ UNCHANGED outcome
  BY <1>8, <1>9, <1>10, <1>6
<1> QED BY <1>2, <1>7, <1>9, <1>10

LEMMA StepNames ==
  /\ "stage" \in Steps /\ "entitlements" \in Steps /\ "move" \in Steps /\ "wrapper" \in Steps
  /\ "shim" \in Steps /\ "launch" \in Steps /\ "policy" \in Steps /\ "dylib" \in Steps
  /\ "smoke" \in Steps /\ "install" \in Steps /\ "env" \in Steps /\ "restore" \in Steps
  /\ "unembed" \in Steps /\ "embed" \in Steps /\ "extend" \in Steps /\ "seal" \in Steps
  /\ "installed" \in Steps /\ "cached" \in Steps /\ "plugin" \in Steps
  /\ "pluginCopy" \in Steps /\ "teeMove" \in Steps /\ "teeCopy" \in Steps
  /\ "teeSign" \in Steps /\ "check" \in Steps /\ "verify" \in Steps /\ "record" \in Steps
  /\ "regrant" \in Steps /\ "idle" \notin Steps
BY DEF Steps, StandardPlace

\* No two steps have the same place.
LEMMA OnePlaceEach ==
  ASSUME NEW p \in Runs, NEW s \in Steps, NEW u \in Steps,
         Place(p, u) > 0, Place(p, u) = Place(p, s)
  PROVE  u = s
BY Places

\* A run that is turned away, refused, fails or is killed has nothing behind it.
LEMMA NothingDone ==
  ASSUME step' = "idle", outcome' # "ok"
  PROVE  /\ Done' = {} /\ BundleInv' /\ InjectorInv' /\ HelpersInv' /\ SealInv'
<1>1. Done' = {} BY DEF Done
<1> QED BY <1>1 DEF BundleInv, InjectorInv, HelpersInv, SealInv

LEMMA StepType ==
  ASSUME NEW p \in Runs, NEW s \in Steps, Place(p, s) > 0
  PROVE  \E i \in DOMAIN Pipeline(p) : s = Pipeline(p)[i]
BY Places

\* A run at step s: where it goes, and what it has behind it then.
Taken(s) ==
  /\ RunInv' /\ (seal' \in [Code -> Signers] => RunTypeOK')
  /\ UNCHANGED <<policy, plan, migrate>>
  /\ step = s /\ plan \in Runs /\ outcome = "none"
  /\ Applies(s, plan, migrate) /\ Place(plan, s) > 0
  /\ Done' \subseteq Done \union {s}
  /\ \A u \in Done' : Place(plan, u) <= Place(plan, s)
  /\ Stop \/ Refuse => Done' = {}
  /\ step' = "teeCopy" => Go /\ s = "teeMove"
  /\ step' = "teeSign" => Go /\ s = "teeCopy"
  /\ Go \/ Stop => outcome' # "refused"
  /\ Stop => crashes' > 0 \/ faults' > 0
  /\ crashes' = 0 => crashes = 0
  /\ faults' < 2 => faults < 2

LEMMA StepTaken ==
  ASSUME Inv, NEW s \in Steps, At(s), Go \/ Stop \/ Refuse
  PROVE  Taken(s)
<1>1. /\ step = s /\ s # "idle" /\ UNCHANGED <<policy, plan, migrate, runs>>
      /\ faults \in 0..MaxFaults /\ crashes \in 0..MaxCrashes
      /\ plan \in Runs /\ outcome = "none" /\ Applies(s, plan, migrate) /\ Place(plan, s) > 0
      /\ plan = "development" => policy = "development"
      /\ RunTypeOK
  BY StepNames DEF At, Inv, TypeOK, RunTypeOK, RunInv
<1>2. CASE Go
  <2>1. GotoAfter(s) /\ UNCHANGED <<faults, crashes>> BY <1>1, <1>2 DEF Go
  <2>2. /\ \/ step' = "idle" /\ outcome' = "ok"
           \/ /\ step' # "idle" /\ step' \in Steps /\ outcome' = "none"
              /\ Place(plan, s) < Place(plan, step') /\ Applies(step, plan, migrate)'
        /\ \A u \in Done' :
             /\ Place(plan, u) > 0 /\ Applies(u, plan, migrate)
             /\ Place(plan, u) <= Place(plan, s)
        /\ step' = "teeCopy" => s = "teeMove"
        /\ step' = "teeSign" => s = "teeCopy"
    BY <1>1, <2>1, GoesOn
  <2>3. ASSUME NEW u \in Done' PROVE u \in Done \union {s}
    <3>1. u \in Steps /\ Place(plan, u) > 0 /\ Applies(u, plan, migrate)
      BY <2>2, <2>3 DEF Done
    <3>2. Place(plan, u) \in Nat /\ Place(plan, s) \in Nat BY <1>1, <3>1, Places
    <3>3. CASE Place(plan, u) < Place(plan, s) BY <3>1, <3>3, <1>1 DEF Done
    <3>4. CASE Place(plan, u) = Place(plan, s) BY <3>1, <3>4, <1>1, OnePlaceEach
    <3> QED BY <2>2, <3>2, <3>3, <3>4
  <2>4. step' \in Steps => Place(plan, step') > 0
    <3>1. Place(plan, s) \in Nat /\ (step' \in Steps => Place(plan, step') \in Nat) BY <1>1, Places
    <3> QED BY <3>1, <2>2, StepNames
  <2>5. step' \in Steps => Place(plan', step') > 0 BY <2>4, <1>1
  <2>6. RunInv'
    <3>1. \/ step' = "idle" /\ outcome' = "ok" /\ plan' \in Runs
          \/ /\ step' \in Steps /\ outcome' = "none" /\ plan' \in Runs
             /\ Place(plan', step') > 0 /\ Applies(step, plan, migrate)'
      BY <2>2, <2>5, <1>1
    <3>2. plan' = "development" => policy' = "development" BY <1>1
    <3> QED BY <3>1, <3>2 DEF RunInv, Place
  <2>7. seal' \in [Code -> Signers] => RunTypeOK'
    <3>1. step' = "idle" \/ \E i \in DOMAIN Pipeline(plan) : step' = Pipeline(plan)[i]
      BY <2>2, <2>4, <1>1, StepType
    <3>2. step' = "idle" \/ \E i \in DOMAIN Pipeline(plan') : step' = Pipeline(plan')[i]
      BY <3>1, <1>1
    <3>3. outcome' \in {"none", "ok"} BY <2>2
    <3> QED BY <1>1, <2>1, <3>2, <3>3 DEF RunTypeOK, Pipeline
  <2>9. outcome' # "refused" BY <2>2
  <2>10. Stop \/ Refuse => Done' = {}
    <3>1. outcome' \in {"ok", "none"} BY <2>2
    <3> QED BY <3>1 DEF Stop, Refuse, Fail, Die, Ended
  <2>11. Done' \subseteq Done \union {s} /\ \A u \in Done' : Place(plan, u) <= Place(plan, s)
    BY <2>2, <2>3
  <2>12. step' = "teeCopy" => Go /\ s = "teeMove" BY <2>2, <1>2
  <2>13. step' = "teeSign" => Go /\ s = "teeCopy" BY <2>2, <1>2
  <2>14. (crashes' = 0 => crashes = 0) /\ (faults' < 2 => faults < 2) BY <1>1, <2>1
  <2>15. Stop => crashes' > 0 \/ faults' > 0 BY <2>2 DEF Stop, Fail, Die, Ended
  <2> QED BY <1>1, <2>6, <2>7, <2>9, <2>10, <2>11, <2>12, <2>13, <2>14, <2>15 DEF Taken
<1>3. CASE Stop \/ Refuse
  <2>1. /\ step' = "idle" /\ outcome' \in {"failed", "killed", "refused"}
        /\ faults' \in 0..MaxFaults /\ crashes' \in 0..MaxCrashes
        /\ faults <= faults' /\ crashes <= crashes'
    BY <1>1, <1>3, PatchRunAssumption DEF Stop, Refuse, Fail, Die, Ended
  <2>2. Done' = {} BY <2>1, NothingDone
  <2>3. RunInv' BY <1>1, <2>1 DEF RunInv
  <2>4. seal' \in [Code -> Signers] => RunTypeOK' BY <1>1, <2>1 DEF RunTypeOK
  <2>5. Stop => outcome' # "refused" BY DEF Stop, Fail, Die, Ended
  <2>6. Go => outcome' # "refused"
    <3>1. ASSUME Go PROVE outcome' # "refused"
      <4>1. GotoAfter(s) BY <1>1, <3>1 DEF Go
      <4> QED BY <1>1, <4>1, GoesOn
    <3> QED BY <3>1
  <2>7. step' # "teeCopy" /\ step' # "teeSign" BY <2>1
  <2>8. (crashes' = 0 => crashes = 0) /\ (faults' < 2 => faults < 2) BY <1>1, <2>1
  <2>9. Stop => crashes' > 0 \/ faults' > 0 BY <1>1 DEF Stop, Fail, Die
  <2> QED BY <1>1, <2>1, <2>2, <2>3, <2>4, <2>5, <2>6, <2>7, <2>8, <2>9 DEF Taken
<1> QED BY <1>2, <1>3

LEMMA BehindIsDone ==
  ASSUME Inv, NEW s \in Steps, step = s, NEW u \in Steps,
         Place(plan, u) > 0, Place(plan, u) < Place(plan, s), Applies(u, plan, migrate)
  PROVE  u \in Done
BY StepNames DEF Done

-----------------------------------------------------------------------------
\* The signatures after a change.
LEMMA Touched ==
  ASSUME NEW s \in [Code -> Signers], NEW c \in Code
  PROVE  /\ Touch(s, c) \in [Code -> Signers]
         /\ \A d \in Code : Touch(s, c)[d] = IF d = c \/ d = "app" THEN "stale" ELSE s[d]
BY DEF Touch, Code, Signers

LEMMA Signed ==
  ASSUME NEW s \in [Code -> Signers], NEW by \in Signers
  PROVE  /\ Sign(s, "helper", by) \in [Code -> Signers]
         /\ s["helper"] # "none" => Sign(s, "helper", by)["helper"] = by
         /\ s["helper"] = "none" => Sign(s, "helper", by)["helper"] = "none"
         /\ Sign(s, "helper", by)["real"] = s["real"]
         /\ Sign(s, "helper", by)["nested"] = s["nested"]
         /\ Sign(s, "helper", by)["main"] = s["main"]
         /\ Sign(s, "helper", by)["app"] \in {s["app"], "stale"}
BY DEF Sign, Code, Signers

\* Signing nested code first, up to any of the code objects.
LEMMA SignedSoFar ==
  ASSUME seal \in [Code -> Signers], NEW n \in Nat
  PROVE  /\ SignedUpTo(n) \in [Code -> Signers]
         /\ \A c \in Code \ {"app"} :
              SignedUpTo(n)[c] = seal[c] \/ (seal[c] # "none" /\ SignedUpTo(n)[c] = "local")
         /\ SignedUpTo(n)["app"] \in {"local", "stale"}
BY DEF SignedUpTo, Code, Signers

LEMMA SignedAll ==
  ASSUME seal \in [Code -> Signers]
  PROVE  \A c \in Code : SignedUpTo(5)[c] = IF seal[c] # "none" THEN "local" ELSE
                                             IF c = "app" THEN "stale" ELSE "none"
<1>1. \A c \in Code : \E i \in 1..5 : SignOrder[i] = c
  <2>1. /\ SignOrder[1] = "nested" /\ SignOrder[2] = "helper" /\ SignOrder[3] = "real"
        /\ SignOrder[4] = "main" /\ SignOrder[5] = "app"
    BY DEF SignOrder
  <2> QED BY <2>1 DEF Code
<1> QED BY <1>1 DEF SignedUpTo

\* The steps that change the bundle come before the helper is changed and the seal.
LEMMA ChangedBeforeSeal ==
  ASSUME NEW s \in {"embed", "move", "shim", "restore", "unembed", "env"}, Taken(s)
  PROVE  "extend" \notin Done' /\ "seal" \notin Done'
<1>1. /\ plan \in Runs /\ Place(plan, s) > 0
      /\ \A u \in Done' : Place(plan, u) <= Place(plan, s)
  BY DEF Taken
<1>2. Place(plan, "extend") > Place(plan, s) /\ Place(plan, "seal") > Place(plan, s)
  BY <1>1 DEF Runs, Place, StandardPlace, DevelopmentPlace
<1>3. Place(plan, "extend") \in Nat /\ Place(plan, "seal") \in Nat /\ Place(plan, s) \in Nat
  BY <1>1, StepNames, Places
<1> QED BY <1>1, <1>2, <1>3

LEMMA ShimAfterMove ==
  ASSUME Taken("move")
  PROVE  "shim" \notin Done'
<1>1. /\ plan \in Runs /\ Place(plan, "move") > 0
      /\ \A u \in Done' : Place(plan, u) <= Place(plan, "move")
  BY DEF Taken
<1>2. Place(plan, "move") = 3 /\ Place(plan, "shim") = 5
  BY <1>1 DEF Runs, Place, StandardPlace, DevelopmentPlace
<1> QED BY <1>1, <1>2

\* No plan both embeds a profile and removes it.
LEMMA OneProfile ==
  /\ Taken("unembed") => "embed" \notin Done'
  /\ Taken("embed") => "unembed" \notin Done'
<1>1. ASSUME plan \in Runs PROVE Place(plan, "unembed") = 0 \/ Place(plan, "embed") = 0
  BY <1>1 DEF Runs, Place, StandardPlace, DevelopmentPlace
<1>2. ASSUME NEW s \in Steps, Taken(s), NEW u \in Done'
      PROVE  plan \in Runs /\ Place(plan, u) > 0 /\ Place(plan, s) > 0
  <2>1. plan' = plan /\ plan \in Runs /\ Place(plan, s) > 0 BY <1>2 DEF Taken
  <2>2. Place(plan, u)' > 0 BY <1>2 DEF Done
  <2> QED BY <2>1, <2>2 DEF Place
<1>3. ASSUME Taken("unembed") PROVE "embed" \notin Done' BY <1>1, <1>2, <1>3, StepNames
<1>4. ASSUME Taken("embed") PROVE "unembed" \notin Done' BY <1>1, <1>2, <1>4, StepNames
<1> QED BY <1>3, <1>4

LEMMA HelperBeforeSeal ==
  ASSUME Taken("extend")
  PROVE  "seal" \notin Done'
<1>1. /\ plan \in Runs /\ Place(plan, "extend") > 0
      /\ \A u \in Done' : Place(plan, u) <= Place(plan, "extend")
  BY DEF Taken
<1>2. Place(plan, "seal") > Place(plan, "extend")
  BY <1>1 DEF Runs, Place, StandardPlace, DevelopmentPlace
<1>3. Place(plan, "seal") \in Nat /\ Place(plan, "extend") \in Nat
  BY <1>1, StepNames, Places
<1> QED BY <1>1, <1>2, <1>3

\* The steps of the tee aside, none changes the tee or leads into its installation.
LEMMA TeeStays ==
  ASSUME Inv, NEW s \in Steps \ {"teeMove", "teeCopy", "teeSign"}, Taken(s), UNCHANGED cli
  PROVE  TeeInv'
BY DEF Inv, TeeInv, CliComesBack, Taken, NoCli


-----------------------------------------------------------------------------
\* The steps of the injector.

LEMMA WriteInjectorPolicyKeeps ==
  ASSUME Inv, WriteInjectorPolicy, UNCHANGED <<trust, cli, bundle, outside, world>>
  PROVE  Inv'
<1>1. "policy" \in Steps /\ At("policy") /\ (Go \/ Stop \/ Refuse)
  BY StepNames DEF WriteInjectorPolicy
<1>2. Taken("policy") BY <1>1, StepTaken
<1>3. TypeOK'
  <2>1. seal' \in [Code -> Signers] BY DEF WriteInjectorPolicy, Inv, TypeOK, RunTypeOK
  <2>2. RunTypeOK' BY <1>2, <2>1 DEF Taken
  <2> QED BY <2>2
     DEF WriteInjectorPolicy, bundle, outside, world, Inv, TypeOK, RunTypeOK, InjectorTypeOK,
         TrustTypeOK, CliTypeOK
<1>4. CodeInv' BY <1>2 DEF Inv, CodeInv, Taken, WriteInjectorPolicy, bundle
<1>5. BundleInv' BY <1>2 DEF Inv, BundleInv, Taken, bundle, outside
<1>6. InjectorInv' BY <1>2 DEF Inv, InjectorInv, Taken, WriteInjectorPolicy
<1>7. HelpersInv' BY <1>2 DEF Inv, HelpersInv, Taken, WriteInjectorPolicy
<1>8. SealInv' BY <1>2 DEF Inv, SealInv, Taken, WriteInjectorPolicy, bundle
<1>9. TeeInv' BY <1>1, <1>2, TeeStays
<1>10. EnvironmentFindsInjector' BY DEF Inv, EnvironmentFindsInjector, WriteInjectorPolicy
<1>11. OnlyTheseRefuse' BY <1>1, <1>2 DEF OnlyTheseRefuse, Taken, WriteInjectorPolicy
<1> QED BY <1>2, <1>3, <1>4, <1>5, <1>6, <1>7, <1>8, <1>9, <1>10, <1>11 DEF Inv, Taken

LEMMA StageInjectorKeeps ==
  ASSUME Inv, StageInjector, UNCHANGED <<trust, cli, bundle, outside, world>>
  PROVE  Inv'
<1>1. "dylib" \in Steps /\ At("dylib") /\ (Go \/ Stop \/ Refuse) BY StepNames DEF StageInjector
<1>2. Taken("dylib") BY <1>1, StepTaken
<1>3. TypeOK'
  <2>1. seal' \in [Code -> Signers] BY DEF StageInjector, Inv, TypeOK, RunTypeOK
  <2>2. RunTypeOK' BY <1>2, <2>1 DEF Taken
  <2> QED BY <2>2
     DEF StageInjector, injector, bundle, outside, world, Inv, TypeOK, RunTypeOK, InjectorTypeOK,
         TrustTypeOK, CliTypeOK
<1>4. CodeInv' BY <1>2 DEF Inv, CodeInv, Taken, StageInjector, bundle
<1>5. BundleInv' BY <1>2 DEF Inv, BundleInv, Taken, bundle, outside
<1>6. InjectorInv' BY <1>2 DEF Inv, InjectorInv, Taken, StageInjector, injector
<1>7. HelpersInv' BY <1>2 DEF Inv, HelpersInv, Taken, StageInjector
<1>8. SealInv' BY <1>2 DEF Inv, SealInv, Taken, StageInjector, bundle
<1>9. TeeInv' BY <1>1, <1>2, TeeStays
<1>10. EnvironmentFindsInjector' BY DEF Inv, EnvironmentFindsInjector, StageInjector, injector
<1>11. OnlyTheseRefuse' BY <1>1, <1>2 DEF OnlyTheseRefuse, Taken, StageInjector
<1> QED BY <1>2, <1>3, <1>4, <1>5, <1>6, <1>7, <1>8, <1>9, <1>10, <1>11 DEF Inv, Taken

LEMMA SmokeTestInjectorKeeps ==
  ASSUME Inv, SmokeTestInjector, UNCHANGED <<trust, cli, bundle, outside, world>>
  PROVE  Inv'
<1>1. "smoke" \in Steps /\ At("smoke") /\ (Go \/ Stop \/ Refuse) BY StepNames DEF SmokeTestInjector
<1>2. Taken("smoke") BY <1>1, StepTaken
<1>3. "policy" \in Done
  BY <1>1, <1>2, StepNames, BehindIsDone
     DEF At, Taken, Runs, Applies, Place, StandardPlace, DevelopmentPlace
<1>4. TypeOK'
  <2>1. seal' \in [Code -> Signers] BY DEF SmokeTestInjector, Inv, TypeOK, RunTypeOK
  <2>2. RunTypeOK' BY <1>2, <2>1 DEF Taken
  <2> QED BY <2>2
     DEF SmokeTestInjector, injector, bundle, outside, world, Inv, TypeOK, RunTypeOK,
         InjectorTypeOK, TrustTypeOK, CliTypeOK
<1>5. CodeInv' BY <1>2 DEF Inv, CodeInv, Taken, SmokeTestInjector, bundle
<1>6. BundleInv' BY <1>2 DEF Inv, BundleInv, Taken, bundle, outside
<1>7. InjectorInv' BY <1>2 DEF Inv, InjectorInv, Taken, SmokeTestInjector, injector
<1>8. HelpersInv' BY <1>2 DEF Inv, HelpersInv, Taken, SmokeTestInjector
<1>9. SealInv' BY <1>2 DEF Inv, SealInv, Taken, SmokeTestInjector, bundle
<1>10. TeeInv' BY <1>1, <1>2, TeeStays
<1>11. EnvironmentFindsInjector' BY DEF Inv, EnvironmentFindsInjector, SmokeTestInjector, injector
<1>12. OnlyTheseRefuse' BY <1>1, <1>2, <1>3
   DEF OnlyTheseRefuse, Taken, Inv, InjectorInv, SmokeTestInjector
<1> QED BY <1>2, <1>4, <1>5, <1>6, <1>7, <1>8, <1>9, <1>10, <1>11, <1>12 DEF Inv, Taken

LEMMA InstallInjectorKeeps ==
  ASSUME Inv, InstallInjector, UNCHANGED <<trust, cli, bundle, outside, world>>
  PROVE  Inv'
<1>1. "install" \in Steps /\ At("install") /\ (Go \/ Stop \/ Refuse)
  BY StepNames DEF InstallInjector
<1>2. Taken("install") BY <1>1, StepTaken
<1>3. TypeOK'
  <2>1. seal' \in [Code -> Signers] BY DEF InstallInjector, Inv, TypeOK, RunTypeOK
  <2>2. RunTypeOK' BY <1>2, <2>1 DEF Taken
  <2> QED BY <2>2
     DEF InstallInjector, bundle, outside, world, Inv, TypeOK, RunTypeOK, InjectorTypeOK,
         TrustTypeOK, CliTypeOK
<1>4. CodeInv' BY <1>2 DEF Inv, CodeInv, Taken, InstallInjector, bundle
<1>5. BundleInv' BY <1>2 DEF Inv, BundleInv, Taken, bundle, outside
<1>6. InjectorInv' BY <1>2 DEF Inv, InjectorInv, Taken, InstallInjector
<1>7. HelpersInv' BY <1>2 DEF Inv, HelpersInv, Taken, InstallInjector
<1>8. SealInv' BY <1>2 DEF Inv, SealInv, Taken, InstallInjector, bundle
<1>9. TeeInv' BY <1>1, <1>2, TeeStays
<1>10. EnvironmentFindsInjector' BY DEF Inv, EnvironmentFindsInjector, InstallInjector
<1>11. OnlyTheseRefuse' BY <1>1, <1>2 DEF OnlyTheseRefuse, Taken, InstallInjector
<1> QED BY <1>2, <1>3, <1>4, <1>5, <1>6, <1>7, <1>8, <1>9, <1>10, <1>11 DEF Inv, Taken

LEMMA SetInjectorEnvironmentKeeps ==
  ASSUME Inv, SetInjectorEnvironment, UNCHANGED <<trust, cli, bundle, outside, world>>
  PROVE  Inv'
<1>1. "env" \in Steps /\ At("env") /\ (Go \/ Stop \/ Refuse) BY StepNames DEF SetInjectorEnvironment
<1>2. Taken("env") BY <1>1, StepTaken
<1>3. "policy" \in Done
  BY <1>1, <1>2, StepNames, BehindIsDone
     DEF At, Taken, Runs, Applies, Place, StandardPlace, DevelopmentPlace
<1>4. "install" \in Done
  BY <1>1, <1>2, StepNames, BehindIsDone
     DEF At, Taken, Runs, Applies, Place, StandardPlace, DevelopmentPlace
<1>5. "extend" \notin Done' /\ "seal" \notin Done'
  BY <1>2, ChangedBeforeSeal
<1>6. seal' = seal \/ seal' = Touch(seal, "app")
  BY DEF SetInjectorEnvironment
<1>7. seal \in [Code -> Signers] /\ Touch(seal, "app") \in [Code -> Signers]
      /\ \A d \in Code \ {"app"} : Touch(seal, "app")[d] = seal[d]
      /\ Touch(seal, "app")["app"] = "stale"
  BY Touched DEF Inv, TypeOK, RunTypeOK, Code
<1>8. TypeOK'
  <2>1. seal' \in [Code -> Signers] BY <1>6, <1>7
  <2>2. RunTypeOK' BY <1>2, <2>1 DEF Taken
  <2> QED BY <2>2
     DEF SetInjectorEnvironment, bundle, outside, world, Inv, TypeOK, RunTypeOK, InjectorTypeOK,
         TrustTypeOK, CliTypeOK
<1>9. CodeInv' BY <1>2, <1>6, <1>7 DEF Inv, CodeInv, Taken, Code, SetInjectorEnvironment, bundle
<1>10. BundleInv' BY <1>2 DEF Inv, BundleInv, Taken, bundle, outside
<1>11. InjectorInv' BY <1>2 DEF Inv, InjectorInv, Taken, SetInjectorEnvironment
<1>12. HelpersInv' BY <1>2, <1>5 DEF Inv, HelpersInv, Taken
<1>13. SealInv' BY <1>5 DEF SealInv, bundle
<1>14. TeeInv' BY <1>1, <1>2, TeeStays
<1>15. EnvironmentFindsInjector' BY <1>3, <1>4
   DEF Inv, InjectorInv, EnvironmentFindsInjector, SetInjectorEnvironment
<1>16. OnlyTheseRefuse' BY <1>1, <1>2 DEF OnlyTheseRefuse, Taken, SetInjectorEnvironment
<1> QED BY <1>2, <1>8, <1>9, <1>10, <1>11, <1>12, <1>13, <1>14, <1>15, <1>16 DEF Inv, Taken

-----------------------------------------------------------------------------
\* The steps of the Computer Use extension.

LEMMA MutateBundledComputerUseKeeps ==
  ASSUME Inv, MutateBundledComputerUse, UNCHANGED <<injector, cli, bundle, outside, world>>
  PROVE  Inv'
<1>1. "extend" \in Steps /\ At("extend") /\ (Go \/ Stop \/ Refuse)
  BY StepNames DEF MutateBundledComputerUse
<1>2. Taken("extend") BY <1>1, StepTaken
<1>3. "seal" \notin Done'
  BY <1>2, HelperBeforeSeal
<1>4. /\ seal \in [Code -> Signers] /\ "local" \in Signers /\ "helper" \in Code
      /\ policy = "development" /\ seal["helper"] # "none"
  BY <1>2 DEF Inv, TypeOK, RunTypeOK, CodeInv, Taken, Applies, Code, Signers
<1>5. seal' = seal \/ seal' = Sign(seal, "helper", "local") \/ seal' = Touch(seal, "helper")
  BY DEF MutateBundledComputerUse
<1>6. /\ seal' \in [Code -> Signers] /\ seal'["real"] = seal["real"]
      /\ seal'["nested"] = seal["nested"] /\ seal'["main"] = seal["main"]
      /\ seal'["helper"] # "none" /\ seal'["app"] \in {seal["app"], "stale"}
      /\ seal' = Sign(seal, "helper", "local") => seal'["helper"] = "local"
  BY <1>4, <1>5, Touched, Signed DEF Code
<1>7. TypeOK'
  <2>1. seal' \in [Code -> Signers] BY <1>6
  <2>2. RunTypeOK' BY <1>2, <2>1 DEF Taken
  <2>3. trust' \in [Copies -> {"absent", "upstream", "mixed", "local", "headless"}]
    BY DEF MutateBundledComputerUse, Trusts, Copies, Helpers, Inv, TypeOK, TrustTypeOK
  <2> QED BY <2>2, <2>3
     DEF MutateBundledComputerUse, injector, bundle, outside, world, Inv,
         TypeOK, RunTypeOK, InjectorTypeOK, TrustTypeOK, CliTypeOK
<1>8. CodeInv' BY <1>2, <1>6 DEF Inv, CodeInv, Taken, MutateBundledComputerUse, bundle
<1>9. BundleInv' BY <1>2 DEF Inv, BundleInv, Taken, bundle, outside
<1>10. InjectorInv' BY <1>2 DEF Inv, InjectorInv, Taken, injector
<1>11. HelpersInv' BY <1>1, <1>2, <1>6
   DEF Inv, HelpersInv, Taken, MutateBundledComputerUse, Trusts, Copies, Helpers,
       TypeOK, TrustTypeOK
<1>12. SealInv' BY <1>3 DEF SealInv, bundle
<1>13. TeeInv' BY <1>1, <1>2, TeeStays
<1>14. EnvironmentFindsInjector' BY DEF Inv, EnvironmentFindsInjector, injector
<1>15. OnlyTheseRefuse' BY <1>1, <1>2 DEF OnlyTheseRefuse, Taken, MutateBundledComputerUse
<1> QED BY <1>2, <1>7, <1>8, <1>9, <1>10, <1>11, <1>12, <1>13, <1>14, <1>15 DEF Inv, Taken

LEMMA RepairInstalledKeeps ==
  ASSUME Inv, RepairInstalled, UNCHANGED <<injector, cli, bundle, outside, world>>
  PROVE  Inv'
<1>1. "installed" \in Steps /\ At("installed") /\ (Go \/ Stop \/ Refuse)
  BY StepNames DEF RepairInstalled, Repair
<1>2. Taken("installed") BY <1>1, StepTaken
<1>3. TypeOK'
  <2>1. seal' \in [Code -> Signers]
    BY DEF RepairInstalled, Inv, TypeOK, RunTypeOK
  <2>2. RunTypeOK' BY <1>2, <2>1 DEF Taken
  <2>3. trust' \in [Copies -> {"absent", "upstream", "mixed", "local", "headless"}]
    BY DEF RepairInstalled, Repair, Trusts, Copies, Helpers, Inv, TypeOK, TrustTypeOK
  <2> QED BY <2>2, <2>3
     DEF RepairInstalled, injector, bundle, outside, world, Inv, TypeOK,
         RunTypeOK, InjectorTypeOK, TrustTypeOK, CliTypeOK
<1>4. CodeInv' BY <1>2
   DEF Inv, CodeInv, Taken, RepairInstalled, bundle
<1>5. BundleInv' BY <1>2 DEF Inv, BundleInv, Taken, bundle, outside
<1>6. InjectorInv' BY <1>2 DEF Inv, InjectorInv, Taken, injector
<1>7. HelpersInv' BY <1>1, <1>2
   DEF Inv, HelpersInv, Taken, RepairInstalled, Repair, Trusts, Copies, Helpers,
       TypeOK, TrustTypeOK
<1>8. SealInv' BY <1>2 DEF Inv, SealInv, Taken, RepairInstalled, bundle
<1>9. TeeInv' BY <1>1, <1>2, TeeStays
<1>10. EnvironmentFindsInjector' BY DEF Inv, EnvironmentFindsInjector, injector
<1>11. OnlyTheseRefuse' BY <1>1, <1>2 DEF OnlyTheseRefuse, Taken, RepairInstalled, Repair
<1> QED BY <1>2, <1>3, <1>4, <1>5, <1>6, <1>7, <1>8, <1>9, <1>10, <1>11 DEF Inv, Taken

LEMMA RepairCachedKeeps ==
  ASSUME Inv, RepairCached, UNCHANGED <<injector, cli, bundle, outside, world>>
  PROVE  Inv'
<1>1. "cached" \in Steps /\ At("cached") /\ (Go \/ Stop \/ Refuse)
  BY StepNames DEF RepairCached, Repair
<1>2. Taken("cached") BY <1>1, StepTaken
<1>3. TypeOK'
  <2>1. seal' \in [Code -> Signers]
    BY DEF RepairCached, Inv, TypeOK, RunTypeOK
  <2>2. RunTypeOK' BY <1>2, <2>1 DEF Taken
  <2>3. trust' \in [Copies -> {"absent", "upstream", "mixed", "local", "headless"}]
    BY DEF RepairCached, Repair, Trusts, Copies, Helpers, Inv, TypeOK, TrustTypeOK
  <2> QED BY <2>2, <2>3
     DEF RepairCached, injector, bundle, outside, world, Inv, TypeOK,
         RunTypeOK, InjectorTypeOK, TrustTypeOK, CliTypeOK
<1>4. CodeInv' BY <1>2
   DEF Inv, CodeInv, Taken, RepairCached, bundle
<1>5. BundleInv' BY <1>2 DEF Inv, BundleInv, Taken, bundle, outside
<1>6. InjectorInv' BY <1>2 DEF Inv, InjectorInv, Taken, injector
<1>7. HelpersInv' BY <1>1, <1>2
   DEF Inv, HelpersInv, Taken, RepairCached, Repair, Trusts, Copies, Helpers,
       TypeOK, TrustTypeOK
<1>8. SealInv' BY <1>2 DEF Inv, SealInv, Taken, RepairCached, bundle
<1>9. TeeInv' BY <1>1, <1>2, TeeStays
<1>10. EnvironmentFindsInjector' BY DEF Inv, EnvironmentFindsInjector, injector
<1>11. OnlyTheseRefuse' BY <1>1, <1>2 DEF OnlyTheseRefuse, Taken, RepairCached, Repair
<1> QED BY <1>2, <1>3, <1>4, <1>5, <1>6, <1>7, <1>8, <1>9, <1>10, <1>11 DEF Inv, Taken

LEMMA StageAuthPluginKeeps ==
  ASSUME Inv, StageAuthPlugin, UNCHANGED <<injector, cli, bundle, outside, world>>
  PROVE  Inv'
<1>1. "plugin" \in Steps /\ At("plugin") /\ (Go \/ Stop \/ Refuse)
  BY StepNames DEF StageAuthPlugin
<1>2. Taken("plugin") BY <1>1, StepTaken
<1>3. TypeOK'
  <2>1. seal' \in [Code -> Signers]
    BY DEF StageAuthPlugin, Inv, TypeOK, RunTypeOK
  <2>2. RunTypeOK' BY <1>2, <2>1 DEF Taken
  <2>3. trust' \in [Copies -> {"absent", "upstream", "mixed", "local", "headless"}]
    BY DEF StageAuthPlugin, Inv, TypeOK, TrustTypeOK
  <2> QED BY <2>2, <2>3
     DEF StageAuthPlugin, injector, bundle, outside, world, Inv, TypeOK,
         RunTypeOK, InjectorTypeOK, TrustTypeOK, CliTypeOK
<1>4. CodeInv' BY <1>2 DEF Inv, CodeInv, Taken, StageAuthPlugin, bundle
<1>5. BundleInv' BY <1>2 DEF Inv, BundleInv, Taken, bundle, outside
<1>6. InjectorInv' BY <1>2 DEF Inv, InjectorInv, Taken, injector
<1>7. HelpersInv' BY <1>1, <1>2
   DEF Inv, HelpersInv, Taken, StageAuthPlugin, TypeOK, TrustTypeOK
<1>8. SealInv' BY <1>2 DEF Inv, SealInv, Taken, StageAuthPlugin, bundle
<1>9. TeeInv' BY <1>1, <1>2, TeeStays
<1>10. EnvironmentFindsInjector' BY DEF Inv, EnvironmentFindsInjector, injector
<1>11. OnlyTheseRefuse' BY <1>1, <1>2 DEF OnlyTheseRefuse, Taken, StageAuthPlugin
<1> QED BY <1>2, <1>3, <1>4, <1>5, <1>6, <1>7, <1>8, <1>9, <1>10, <1>11 DEF Inv, Taken

LEMMA InstallAuthPluginKeeps ==
  ASSUME Inv, InstallAuthPlugin, UNCHANGED <<injector, cli, bundle, outside, world>>
  PROVE  Inv'
<1>1. "pluginCopy" \in Steps /\ At("pluginCopy") /\ (Go \/ Stop \/ Refuse)
  BY StepNames DEF InstallAuthPlugin
<1>2. Taken("pluginCopy") BY <1>1, StepTaken
<1>3. TypeOK'
  <2>1. seal' \in [Code -> Signers]
    BY DEF InstallAuthPlugin, Inv, TypeOK, RunTypeOK
  <2>2. RunTypeOK' BY <1>2, <2>1 DEF Taken
  <2>3. trust' \in [Copies -> {"absent", "upstream", "mixed", "local", "headless"}]
    BY DEF InstallAuthPlugin, Trusts, Copies, Helpers, Inv, TypeOK, TrustTypeOK
  <2> QED BY <2>2, <2>3
     DEF InstallAuthPlugin, injector, bundle, outside, world, Inv, TypeOK,
         RunTypeOK, InjectorTypeOK, TrustTypeOK, CliTypeOK
<1>4. CodeInv' BY <1>2 DEF Inv, CodeInv, Taken, InstallAuthPlugin, bundle
<1>5. BundleInv' BY <1>2 DEF Inv, BundleInv, Taken, bundle, outside
<1>6. InjectorInv' BY <1>2 DEF Inv, InjectorInv, Taken, injector
<1>7. HelpersInv' BY <1>1, <1>2
   DEF Inv, HelpersInv, Taken, InstallAuthPlugin, Trusts, Copies, Helpers,
       TypeOK, TrustTypeOK
<1>8. SealInv' BY <1>2 DEF Inv, SealInv, Taken, InstallAuthPlugin, bundle
<1>9. TeeInv' BY <1>1, <1>2, TeeStays
<1>10. EnvironmentFindsInjector' BY DEF Inv, EnvironmentFindsInjector, injector
<1>11. OnlyTheseRefuse' BY <1>1, <1>2 DEF OnlyTheseRefuse, Taken, InstallAuthPlugin
<1> QED BY <1>2, <1>3, <1>4, <1>5, <1>6, <1>7, <1>8, <1>9, <1>10, <1>11 DEF Inv, Taken

LEMMA VerifyBundledComputerUseKeeps ==
  ASSUME Inv, VerifyBundledComputerUse, UNCHANGED <<injector, cli, bundle, outside, world>>
  PROVE  Inv'
<1>1. "check" \in Steps /\ At("check") /\ (Go \/ Stop \/ Refuse)
  BY StepNames DEF VerifyBundledComputerUse
<1>2. Taken("check") BY <1>1, StepTaken
<1>3. "extend" \in Done
  BY <1>1, <1>2, StepNames, BehindIsDone
     DEF At, Taken, Runs, Applies, Place, StandardPlace, DevelopmentPlace
<1>4. TypeOK'
  <2>1. seal' \in [Code -> Signers]
    BY DEF VerifyBundledComputerUse, Inv, TypeOK, RunTypeOK
  <2>2. RunTypeOK' BY <1>2, <2>1 DEF Taken
  <2>3. trust' \in [Copies -> {"absent", "upstream", "mixed", "local", "headless"}]
    BY DEF VerifyBundledComputerUse, Inv, TypeOK, TrustTypeOK
  <2> QED BY <2>2, <2>3
     DEF VerifyBundledComputerUse, injector, bundle, outside, world, Inv,
         TypeOK, RunTypeOK, InjectorTypeOK, TrustTypeOK, CliTypeOK
<1>5. CodeInv' BY <1>2
   DEF Inv, CodeInv, Taken, VerifyBundledComputerUse, bundle
<1>6. BundleInv' BY <1>2 DEF Inv, BundleInv, Taken, bundle, outside
<1>7. InjectorInv' BY <1>2 DEF Inv, InjectorInv, Taken, injector
<1>8. HelpersInv' BY <1>1, <1>2
   DEF Inv, HelpersInv, Taken, VerifyBundledComputerUse, TypeOK,
       TrustTypeOK
<1>9. SealInv' BY <1>2 DEF Inv, SealInv, Taken, VerifyBundledComputerUse, bundle
<1>10. TeeInv' BY <1>1, <1>2, TeeStays
<1>11. EnvironmentFindsInjector' BY DEF Inv, EnvironmentFindsInjector, injector
<1>12. OnlyTheseRefuse' BY <1>1, <1>2, <1>3
  DEF OnlyTheseRefuse, Taken, Inv, HelpersInv, HelperVerified, VerifyBundledComputerUse
<1> QED BY <1>2, <1>4, <1>5, <1>6, <1>7, <1>8, <1>9, <1>10, <1>11, <1>12 DEF Inv, Taken

-----------------------------------------------------------------------------
\* The steps of the tee. Passing the tee over leaves no more behind than its steps.
LEMMA TeePassedOver ==
  ASSUME Inv, At("teeMove"), SkipTee
  PROVE  /\ RunInv' /\ (seal' \in [Code -> Signers] => RunTypeOK')
         /\ UNCHANGED <<policy, plan, migrate, cli, faults, crashes>>
         /\ Done' \subseteq Done \union {"teeMove", "teeCopy", "teeSign"}
         /\ step' \notin {"teeCopy", "teeSign"} /\ outcome' # "refused"
<1>1. /\ step = "teeMove" /\ UNCHANGED <<policy, plan, migrate, runs, faults, crashes, cli>>
      /\ plan \in Runs /\ outcome = "none" /\ Place(plan, "teeMove") > 0
      /\ plan = "development" => policy = "development"
      /\ GotoAfter("teeSign") /\ RunTypeOK
  BY StepNames DEF At, SkipTee, Inv, TypeOK, RunInv
<1>2. /\ \/ step' = "idle" /\ outcome' = "ok"
         \/ /\ step' # "idle" /\ step' \in Steps /\ outcome' = "none"
            /\ Place(plan, "teeSign") < Place(plan, step') /\ Applies(step, plan, migrate)'
      /\ \A u \in Done' :
           /\ Place(plan, u) > 0 /\ Applies(u, plan, migrate)
           /\ Place(plan, u) <= Place(plan, "teeSign")
      /\ step' # "teeCopy" /\ step' # "teeSign"
  BY <1>1, StepNames, GoesOn
<1>3. /\ Place(plan, "teeCopy") = Place(plan, "teeMove") + 1
      /\ Place(plan, "teeSign") = Place(plan, "teeMove") + 2
  BY <1>1 DEF Runs, Place, StandardPlace, DevelopmentPlace
<1>4. Place(plan, "teeMove") \in Nat /\ (step' \in Steps => Place(plan, step') \in Nat)
  BY <1>1, StepNames, Places
<1>5. ASSUME NEW u \in Done' PROVE u \in Done \union {"teeMove", "teeCopy", "teeSign"}
  <2>1. u \in Steps /\ Place(plan, u) > 0 /\ Applies(u, plan, migrate)
    BY <1>2, <1>5 DEF Done
  <2>2. Place(plan, u) \in Nat BY <1>1, <2>1, Places
  <2>3. CASE Place(plan, u) < Place(plan, "teeMove") BY <2>1, <2>3, <1>1 DEF Done
  <2>4. CASE Place(plan, u) = Place(plan, "teeMove") BY <2>1, <2>4, <1>1, StepNames, OnePlaceEach
  <2>5. CASE Place(plan, u) = Place(plan, "teeCopy") BY <2>1, <2>5, <1>1, StepNames, OnePlaceEach
  <2>6. CASE Place(plan, u) = Place(plan, "teeSign") BY <2>1, <2>6, <1>1, StepNames, OnePlaceEach
  <2> QED BY <1>2, <1>3, <1>4, <2>2, <2>3, <2>4, <2>5, <2>6
<1>6. step' \in Steps => Place(plan', step') > 0 BY <1>1, <1>2, <1>3, <1>4, StepNames
<1>7. RunInv'
  <2>1. \/ step' = "idle" /\ outcome' = "ok" /\ plan' \in Runs
        \/ /\ step' \in Steps /\ outcome' = "none" /\ plan' \in Runs
           /\ Place(plan', step') > 0 /\ Applies(step, plan, migrate)'
    BY <1>2, <1>6, <1>1
  <2>2. plan' = "development" => policy' = "development" BY <1>1
  <2> QED BY <2>1, <2>2 DEF RunInv, Place
<1>8. seal' \in [Code -> Signers] => RunTypeOK'
  <2>1. step' = "idle" \/ \E i \in DOMAIN Pipeline(plan) : step' = Pipeline(plan)[i]
    BY <1>1, <1>2, <1>6, StepType
  <2>2. step' = "idle" \/ \E i \in DOMAIN Pipeline(plan') : step' = Pipeline(plan')[i]
    BY <2>1, <1>1
  <2>3. outcome' \in {"none", "ok"} BY <1>2
  <2> QED BY <1>1, <2>2, <2>3 DEF RunTypeOK, Pipeline
<1> QED BY <1>1, <1>2, <1>5, <1>7, <1>8

LEMMA SkipInstallKeeps ==
  ASSUME Inv, SkipInstall, UNCHANGED <<injector, trust, bundle, outside, world>>
  PROVE  Inv'
<1>1. At("teeMove") /\ SkipTee BY DEF SkipInstall
<1>2. /\ RunInv' /\ (seal' \in [Code -> Signers] => RunTypeOK')
      /\ UNCHANGED <<policy, plan, migrate, cli, faults, crashes>>
      /\ Done' \subseteq Done \union {"teeMove", "teeCopy", "teeSign"}
      /\ step' \notin {"teeCopy", "teeSign"} /\ outcome' # "refused"
  BY <1>1, TeePassedOver
<1>3. UNCHANGED <<seal, injector, trust, bundle, outside, world>> BY DEF SkipInstall
<1>4. TypeOK'
  BY <1>2, <1>3
     DEF injector, bundle, outside, world, Inv, TypeOK, RunTypeOK,
         InjectorTypeOK, TrustTypeOK, CliTypeOK
<1>5. CodeInv' BY <1>2, <1>3 DEF Inv, CodeInv, bundle
<1>6. BundleInv' BY <1>2, <1>3 DEF Inv, BundleInv, bundle, outside
<1>7. InjectorInv' BY <1>2, <1>3 DEF Inv, InjectorInv, injector
<1>8. HelpersInv' BY <1>2, <1>3 DEF Inv, HelpersInv
<1>9. SealInv' BY <1>2, <1>3 DEF Inv, SealInv, bundle
<1>10. TeeInv' BY <1>1, <1>2 DEF Inv, TeeInv, CliComesBack, NoCli, At
<1>11. EnvironmentFindsInjector' BY <1>3 DEF Inv, EnvironmentFindsInjector, injector
<1>12. OnlyTheseRefuse' BY <1>2 DEF OnlyTheseRefuse
<1> QED BY <1>2, <1>4, <1>5, <1>6, <1>7, <1>8, <1>9, <1>10, <1>11, <1>12 DEF Inv

LEMMA DeferInstallKeeps ==
  ASSUME Inv, DeferInstall, UNCHANGED <<injector, trust, bundle, outside, world>>
  PROVE  Inv'
<1>1. At("teeMove") /\ SkipTee BY DEF DeferInstall
<1>2. /\ RunInv' /\ (seal' \in [Code -> Signers] => RunTypeOK')
      /\ UNCHANGED <<policy, plan, migrate, cli, faults, crashes>>
      /\ Done' \subseteq Done \union {"teeMove", "teeCopy", "teeSign"}
      /\ step' \notin {"teeCopy", "teeSign"} /\ outcome' # "refused"
  BY <1>1, TeePassedOver
<1>3. UNCHANGED <<seal, injector, trust, bundle, outside, world>> BY DEF DeferInstall
<1>4. TypeOK'
  BY <1>2, <1>3
     DEF injector, bundle, outside, world, Inv, TypeOK, RunTypeOK,
         InjectorTypeOK, TrustTypeOK, CliTypeOK
<1>5. CodeInv' BY <1>2, <1>3 DEF Inv, CodeInv, bundle
<1>6. BundleInv' BY <1>2, <1>3 DEF Inv, BundleInv, bundle, outside
<1>7. InjectorInv' BY <1>2, <1>3 DEF Inv, InjectorInv, injector
<1>8. HelpersInv' BY <1>2, <1>3 DEF Inv, HelpersInv
<1>9. SealInv' BY <1>2, <1>3 DEF Inv, SealInv, bundle
<1>10. TeeInv' BY <1>1, <1>2 DEF Inv, TeeInv, CliComesBack, NoCli, At
<1>11. EnvironmentFindsInjector' BY <1>3 DEF Inv, EnvironmentFindsInjector, injector
<1>12. OnlyTheseRefuse' BY <1>2 DEF OnlyTheseRefuse
<1> QED BY <1>2, <1>4, <1>5, <1>6, <1>7, <1>8, <1>9, <1>10, <1>11, <1>12 DEF Inv


\* Where the tee is installed, its three steps follow each other.
LEMMA TeeFollows ==
  ASSUME Inv, NEW s \in {"teeMove", "teeCopy"}, At(s), Go
  PROVE  step' = IF s = "teeMove" THEN "teeCopy" ELSE "teeSign"
<1> DEFINE P == Pipeline(plan)
           t == IF s = "teeMove" THEN "teeCopy" ELSE "teeSign"
<1>1. /\ s \in Steps /\ t \in Steps /\ plan \in Runs /\ GotoAfter(s)
      /\ Applies(s, plan, migrate) /\ Place(plan, s) > 0
  BY StepNames DEF At, Go, Inv, RunInv
<1>2. Applies(t, plan, migrate) BY <1>1 DEF Applies
<1>3. Place(plan, t) = Place(plan, s) + 1
  BY <1>1 DEF Runs, Place, StandardPlace, DevelopmentPlace
<1>4. /\ Len(P) \in Nat /\ DOMAIN P = 1..Len(P)
      /\ \A i \in DOMAIN P : P[i] \in Steps /\ Place(plan, P[i]) = i
      /\ \A u \in Steps : Place(plan, u) \in Nat
      /\ \A u \in Steps : Place(plan, u) > 0 => Place(plan, u) \in DOMAIN P /\ P[Place(plan, u)] = u
  BY <1>1, Places
<1>5. PICK i \in DOMAIN P :
        /\ P[i] = s
        /\ \/ NothingBetween(plan, migrate, i, Len(P) + 1) /\ Ended("ok")
           \/ \E j \in DOMAIN P : Follows(plan, migrate, i, j) /\ step' = P[j] /\ UNCHANGED outcome
  BY <1>1 DEF GotoAfter
<1>6. i \in 1..Len(P) /\ i + 1 \in 1..Len(P) /\ P[i + 1] = t BY <1>1, <1>3, <1>4, <1>5
<1>7. ~NothingBetween(plan, migrate, i, Len(P) + 1) BY <1>2, <1>4, <1>6 DEF NothingBetween
<1>8. ASSUME NEW j \in DOMAIN P, Follows(plan, migrate, i, j) PROVE j = i + 1
  <2>1. i < j /\ NothingBetween(plan, migrate, i, j) BY <1>8 DEF Follows
  <2>2. i + 1 \notin (i + 1)..(j - 1) BY <2>1, <1>2, <1>6 DEF NothingBetween
  <2> QED BY <2>1, <2>2, <1>4, <1>6
<1> QED BY <1>5, <1>6, <1>7, <1>8

\* A roll-back ends the patch; one that cannot rename the CLI back is a second failure.
LEMMA RolledBack ==
  ASSUME Inv, NEW s \in Steps, At(s), Rollback
  PROVE  /\ RunInv' /\ (seal' \in [Code -> Signers] => RunTypeOK')
         /\ UNCHANGED <<policy, plan, migrate, crashes>>
         /\ Done' = {} /\ step' = "idle" /\ outcome' # "refused"
         /\ faults' < 2 => faults < 2
         /\ \/ cli' = [VendorCli EXCEPT !.signed = cli.signed]
            \/ cli' = [cli EXCEPT !.shim = "none"] /\ ~(faults' < 2)
<1>1. /\ UNCHANGED <<policy, plan, migrate, runs, crashes>>
      /\ step' = "idle" /\ outcome' = "failed"
      /\ \/ faults < MaxFaults /\ faults' = faults + 1
            /\ cli' = [VendorCli EXCEPT !.signed = cli.signed]
         \/ faults + 2 <= MaxFaults /\ faults' = faults + 2
            /\ cli' = [cli EXCEPT !.shim = "none"]
  BY DEF At, Rollback, Fail, Ended
<1>2. RunTypeOK /\ faults \in 0..MaxFaults /\ (plan = "development" => policy = "development")
  BY DEF Inv, TypeOK, RunTypeOK, RunInv
<1>3. faults' \in 0..MaxFaults /\ (faults' < 2 => faults < 2) BY <1>1, <1>2, PatchRunAssumption
<1>4. Done' = {} BY <1>1, NothingDone
<1>5. RunInv' BY <1>1, <1>2 DEF RunInv
<1>6. seal' \in [Code -> Signers] => RunTypeOK' BY <1>1, <1>2, <1>3 DEF RunTypeOK
<1>7. \/ cli' = [VendorCli EXCEPT !.signed = cli.signed]
      \/ cli' = [cli EXCEPT !.shim = "none"] /\ ~(faults' < 2)
  BY <1>1, <1>2
<1> QED BY <1>1, <1>3, <1>4, <1>5, <1>6, <1>7


LEMMA MoveCliKeeps ==
  ASSUME Inv, MoveCli, UNCHANGED <<injector, trust, bundle, outside, world>>
  PROVE  Inv'
<1>1. "teeMove" \in Steps /\ At("teeMove") BY StepNames DEF MoveCli
<1>2. Go \/ Stop => Taken("teeMove") BY <1>1, StepTaken
<1>3. cli \in [shim : {"none", "vendor", "torn", "tee"}, real : BOOLEAN, signed : BOOLEAN]
  BY DEF Inv, TypeOK, CliTypeOK
<1>4. /\ RunInv' /\ (seal' \in [Code -> Signers] => RunTypeOK')
      /\ UNCHANGED <<policy, plan, migrate>>
      /\ Done' \subseteq Done \union {"teeMove"} /\ outcome' # "refused"
  BY <1>1, <1>2 DEF Taken, Stop, MoveCli
<1>5. TeeInv'
  <2>1. CASE cli' = [cli EXCEPT !.shim = "none", !.real = TRUE] /\ Go
    <3>1. cli'.real /\ cli'.shim = "none" BY <1>3, <2>1
    <3>2. step' = "teeCopy" BY <1>1, <2>1, TeeFollows
    <3> QED BY <3>1, <3>2 DEF TeeInv, CliComesBack
  <2>2. CASE UNCHANGED cli /\ Stop
    <3>1. /\ step = "teeMove" /\ step' = "idle"
          /\ (crashes' = 0 => crashes = 0) /\ (faults' < 2 => faults < 2)
      BY <1>1, <1>2, <2>2 DEF Taken, At, Stop, Fail, Die, Ended
    <3> QED BY <3>1, <2>2 DEF Inv, TeeInv, CliComesBack, NoCli
  <2> QED BY <2>1, <2>2 DEF MoveCli
<1>6. UNCHANGED <<seal, injector, trust, bundle, outside, world>> BY DEF MoveCli
<1>7. TypeOK'
  <2>1. cli' \in [shim : {"none", "vendor", "torn", "tee"}, real : BOOLEAN, signed : BOOLEAN]
    BY <1>3 DEF MoveCli
  <2> QED BY <1>4, <1>6, <2>1
     DEF injector, bundle, outside, world, Inv, TypeOK, RunTypeOK,
         InjectorTypeOK, TrustTypeOK, CliTypeOK
<1>8. CodeInv' BY <1>4, <1>6 DEF Inv, CodeInv, bundle
<1>9. BundleInv' BY <1>4, <1>6 DEF Inv, BundleInv, bundle, outside
<1>10. InjectorInv' BY <1>4, <1>6 DEF Inv, InjectorInv, injector
<1>11. HelpersInv' BY <1>4, <1>6 DEF Inv, HelpersInv
<1>12. SealInv' BY <1>4, <1>6 DEF Inv, SealInv, bundle
<1>13. EnvironmentFindsInjector' BY <1>4, <1>6 DEF Inv, EnvironmentFindsInjector, injector
<1>14. OnlyTheseRefuse' BY <1>4, <1>6 DEF OnlyTheseRefuse
<1> QED BY <1>4, <1>5, <1>7, <1>8, <1>9, <1>10, <1>11, <1>12, <1>13, <1>14 DEF Inv

LEMMA WriteTeeKeeps ==
  ASSUME Inv, WriteTee, UNCHANGED <<injector, trust, bundle, outside, world>>
  PROVE  Inv'
<1>1. "teeCopy" \in Steps /\ At("teeCopy") BY StepNames DEF WriteTee
<1>2. Go \/ Stop => Taken("teeCopy") BY <1>1, StepTaken
<1>3. cli \in [shim : {"none", "vendor", "torn", "tee"}, real : BOOLEAN, signed : BOOLEAN]
  BY DEF Inv, TypeOK, CliTypeOK
<1>4. /\ RunInv' /\ (seal' \in [Code -> Signers] => RunTypeOK')
      /\ UNCHANGED <<policy, plan, migrate>>
      /\ Done' \subseteq Done \union {"teeCopy"} /\ outcome' # "refused"
  BY <1>1, <1>2, RolledBack DEF Taken, Stop, WriteTee
<1>5. TeeInv'
  <2>1. CASE cli' = [cli EXCEPT !.shim = "tee", !.signed = FALSE] /\ Go
    <3>1. cli.real BY <1>1 DEF At, Inv, TeeInv
    <3>2. cli'.real /\ cli'.shim = "tee" BY <1>3, <2>1, <3>1
    <3>3. step' = "teeSign" BY <1>1, <2>1, TeeFollows
    <3> QED BY <3>2, <3>3 DEF TeeInv, CliComesBack
  <2>2. CASE Rollback
    <3>1. /\ step' = "idle" /\ (faults' < 2 => faults < 2)
          /\ \/ cli' = [VendorCli EXCEPT !.signed = cli.signed]
             \/ cli' = [cli EXCEPT !.shim = "none"] /\ ~(faults' < 2)
      BY <1>1, <2>2, RolledBack
    <3>2. [VendorCli EXCEPT !.signed = cli.signed].shim = "vendor" BY DEF VendorCli
    <3> QED BY <3>1, <3>2 DEF TeeInv, CliComesBack
  <2>3. CASE Die /\ \E f \in {"none", "torn"} : cli' = [cli EXCEPT !.shim = f]
    <3>1. step' = "idle" /\ crashes' = crashes + 1 /\ crashes \in Nat
      BY <2>3 DEF Die, Ended, Inv, TypeOK, RunTypeOK
    <3>2. crashes' # 0 BY <3>1
    <3> QED BY <3>1, <3>2 DEF TeeInv, CliComesBack
  <2> QED BY <2>1, <2>2, <2>3 DEF WriteTee
<1>6. UNCHANGED <<seal, injector, trust, bundle, outside, world>> BY DEF WriteTee
<1>7. TypeOK'
  <2>1. cli' \in [shim : {"none", "vendor", "torn", "tee"}, real : BOOLEAN, signed : BOOLEAN]
    BY <1>1, <1>3, RolledBack DEF WriteTee, VendorCli
  <2> QED BY <1>4, <1>6, <2>1
     DEF injector, bundle, outside, world, Inv, TypeOK, RunTypeOK,
         InjectorTypeOK, TrustTypeOK, CliTypeOK
<1>8. CodeInv' BY <1>4, <1>6 DEF Inv, CodeInv, bundle
<1>9. BundleInv' BY <1>4, <1>6 DEF Inv, BundleInv, bundle, outside
<1>10. InjectorInv' BY <1>4, <1>6 DEF Inv, InjectorInv, injector
<1>11. HelpersInv' BY <1>4, <1>6 DEF Inv, HelpersInv
<1>12. SealInv' BY <1>4, <1>6 DEF Inv, SealInv, bundle
<1>13. EnvironmentFindsInjector' BY <1>4, <1>6 DEF Inv, EnvironmentFindsInjector, injector
<1>14. OnlyTheseRefuse' BY <1>4, <1>6 DEF OnlyTheseRefuse
<1> QED BY <1>4, <1>5, <1>7, <1>8, <1>9, <1>10, <1>11, <1>12, <1>13, <1>14 DEF Inv

LEMMA SignTeeKeeps ==
  ASSUME Inv, SignTee, UNCHANGED <<injector, trust, bundle, outside, world>>
  PROVE  Inv'
<1>1. "teeSign" \in Steps /\ At("teeSign") BY StepNames DEF SignTee
<1>2. Go \/ Stop => Taken("teeSign") BY <1>1, StepTaken
<1>3. cli \in [shim : {"none", "vendor", "torn", "tee"}, real : BOOLEAN, signed : BOOLEAN]
  BY DEF Inv, TypeOK, CliTypeOK
<1>4. /\ RunInv' /\ (seal' \in [Code -> Signers] => RunTypeOK')
      /\ UNCHANGED <<policy, plan, migrate>>
      /\ Done' \subseteq Done \union {"teeSign"} /\ outcome' # "refused"
  BY <1>1, <1>2, RolledBack DEF Taken, Stop, SignTee
<1>5. TeeInv'
  <2>1. CASE cli' = [cli EXCEPT !.signed = TRUE] /\ Go
    <3>1. cli.real /\ cli.shim = "tee" BY <1>1 DEF At, Inv, TeeInv
    <3>2. cli'.real /\ cli'.shim = "tee" /\ cli'.signed BY <1>3, <2>1, <3>1
    <3>3. step' # "teeCopy" BY <1>2, <2>1 DEF Taken
    <3> QED BY <3>2, <3>3 DEF TeeInv, CliComesBack
  <2>2. CASE Rollback
    <3>1. /\ step' = "idle" /\ (faults' < 2 => faults < 2)
          /\ \/ cli' = [VendorCli EXCEPT !.signed = cli.signed]
             \/ cli' = [cli EXCEPT !.shim = "none"] /\ ~(faults' < 2)
      BY <1>1, <2>2, RolledBack
    <3>2. [VendorCli EXCEPT !.signed = cli.signed].shim = "vendor" BY DEF VendorCli
    <3> QED BY <3>1, <3>2 DEF TeeInv, CliComesBack
  <2>3. CASE Die /\ UNCHANGED cli
    <3>1. step' = "idle" /\ crashes' = crashes + 1 /\ crashes \in Nat
      BY <2>3 DEF Die, Ended, Inv, TypeOK, RunTypeOK
    <3>2. crashes' # 0 BY <3>1
    <3> QED BY <3>1, <3>2 DEF TeeInv, CliComesBack
  <2> QED BY <2>1, <2>2, <2>3 DEF SignTee
<1>6. UNCHANGED <<seal, injector, trust, bundle, outside, world>> BY DEF SignTee
<1>7. TypeOK'
  <2>1. cli' \in [shim : {"none", "vendor", "torn", "tee"}, real : BOOLEAN, signed : BOOLEAN]
    BY <1>1, <1>3, RolledBack DEF SignTee, VendorCli
  <2> QED BY <1>4, <1>6, <2>1
     DEF injector, bundle, outside, world, Inv, TypeOK, RunTypeOK,
         InjectorTypeOK, TrustTypeOK, CliTypeOK
<1>8. CodeInv' BY <1>4, <1>6 DEF Inv, CodeInv, bundle
<1>9. BundleInv' BY <1>4, <1>6 DEF Inv, BundleInv, bundle, outside
<1>10. InjectorInv' BY <1>4, <1>6 DEF Inv, InjectorInv, injector
<1>11. HelpersInv' BY <1>4, <1>6 DEF Inv, HelpersInv
<1>12. SealInv' BY <1>4, <1>6 DEF Inv, SealInv, bundle
<1>13. EnvironmentFindsInjector' BY <1>4, <1>6 DEF Inv, EnvironmentFindsInjector, injector
<1>14. OnlyTheseRefuse' BY <1>4, <1>6 DEF OnlyTheseRefuse
<1> QED BY <1>4, <1>5, <1>7, <1>8, <1>9, <1>10, <1>11, <1>12, <1>13, <1>14 DEF Inv

-----------------------------------------------------------------------------
\* The steps of the bundle.

LEMMA StagePreservedKeeps ==
  ASSUME Inv, StagePreserved
  PROVE  Inv'
<1>1. "stage" \in Steps /\ At("stage") /\ (Go \/ Stop \/ Refuse) BY StepNames DEF StagePreserved
<1>2. Taken("stage") BY <1>1, StepTaken
<1>3. TypeOK'
  <2>1. seal' \in [Code -> Signers] BY DEF StagePreserved, Inv, TypeOK, RunTypeOK
  <2>2. RunTypeOK' BY <1>2, <2>1 DEF Taken
  <2> QED BY <2>2
     DEF StagePreserved, extras, bundle, outside, world, injector, Inv, TypeOK, RunTypeOK,
         InjectorTypeOK, TrustTypeOK, CliTypeOK
<1>4. CodeInv' BY <1>2 DEF Inv, CodeInv, Taken, StagePreserved, bundle
<1>5. BundleInv' BY <1>2 DEF Inv, BundleInv, Taken, StagePreserved, bundle, outside
<1>6. InjectorInv' BY <1>2 DEF Inv, InjectorInv, Taken, StagePreserved, extras, injector
<1>7. HelpersInv' BY <1>2 DEF Inv, HelpersInv, Taken, StagePreserved, extras
<1>8. SealInv' BY <1>2 DEF Inv, SealInv, Taken, StagePreserved, bundle
<1>9. TeeInv'
  <2>1. UNCHANGED cli BY DEF StagePreserved, extras
  <2> QED BY <1>1, <1>2, <2>1, TeeStays
<1>10. EnvironmentFindsInjector' BY
   DEF Inv, EnvironmentFindsInjector, StagePreserved, extras, injector
<1>11. OnlyTheseRefuse' BY <1>1, <1>2 DEF OnlyTheseRefuse, Taken, StagePreserved, bundle
<1> QED BY <1>2, <1>3, <1>4, <1>5, <1>6, <1>7, <1>8, <1>9, <1>10, <1>11 DEF Inv, Taken

LEMMA WriteEntitlementsKeeps ==
  ASSUME Inv, WriteEntitlements
  PROVE  Inv'
<1>1. "entitlements" \in Steps /\ At("entitlements") /\ (Go \/ Stop \/ Refuse)
  BY StepNames DEF WriteEntitlements
<1>2. Taken("entitlements") BY <1>1, StepTaken
<1>3. TypeOK'
  <2>1. seal' \in [Code -> Signers] BY DEF WriteEntitlements, Inv, TypeOK, RunTypeOK
  <2>2. RunTypeOK' BY <1>2, <2>1 DEF Taken
  <2> QED BY <2>2
     DEF WriteEntitlements, extras, bundle, outside, world, injector, Inv, TypeOK, RunTypeOK,
         InjectorTypeOK, TrustTypeOK, CliTypeOK
<1>4. CodeInv' BY <1>2 DEF Inv, CodeInv, Taken, WriteEntitlements, bundle
<1>5. BundleInv' BY <1>2 DEF Inv, BundleInv, Taken, WriteEntitlements, bundle, outside
<1>6. InjectorInv' BY <1>2 DEF Inv, InjectorInv, Taken, WriteEntitlements, extras, injector
<1>7. HelpersInv' BY <1>2 DEF Inv, HelpersInv, Taken, WriteEntitlements, extras
<1>8. SealInv' BY <1>2 DEF Inv, SealInv, Taken, WriteEntitlements, bundle
<1>9. TeeInv'
  <2>1. UNCHANGED cli BY DEF WriteEntitlements, extras
  <2> QED BY <1>1, <1>2, <2>1, TeeStays
<1>10. EnvironmentFindsInjector' BY
   DEF Inv, EnvironmentFindsInjector, WriteEntitlements, extras, injector
<1>11. OnlyTheseRefuse' BY <1>1, <1>2 DEF OnlyTheseRefuse, Taken, WriteEntitlements
<1> QED BY <1>2, <1>3, <1>4, <1>5, <1>6, <1>7, <1>8, <1>9, <1>10, <1>11 DEF Inv, Taken

LEMMA StepMoveToRealKeeps ==
  ASSUME Inv, StepMoveToReal
  PROVE  Inv'
<1>1. "move" \in Steps /\ At("move") /\ (Go \/ Stop \/ Refuse) BY StepNames DEF StepMoveToReal
<1>2. Taken("move") BY <1>1, StepTaken
<1>3. "extend" \notin Done' /\ "seal" \notin Done'
  BY <1>2, ChangedBeforeSeal
<1>4. "shim" \notin Done'
  BY <1>2, ShimAfterMove
<1>5. seal \in [Code -> Signers]
  BY DEF Inv, TypeOK, RunTypeOK
<1>6. TypeOK'
  <2>1. seal' \in [Code -> Signers] BY <1>5 DEF StepMoveToReal, executable, Code, Signers
  <2>2. RunTypeOK' BY <1>2, <2>1 DEF Taken
  <2>3. main' \in {"none", "torn", "vendor", "shim"} /\ real' \in BOOLEAN
    BY DEF StepMoveToReal, executable, Inv, TypeOK
  <2>4. UNCHANGED <<extras, launch, kept, profile, version, outside, world>> BY DEF StepMoveToReal
  <2> QED BY <2>2, <2>3, <2>4
     DEF injector, outside, world, extras, Inv, TypeOK, RunTypeOK, InjectorTypeOK, TrustTypeOK,
         CliTypeOK
<1>7. CodeInv' BY <1>2, <1>5 DEF Inv, CodeInv, Taken, StepMoveToReal, executable, Code
<1>8. BundleInv' BY <1>2, <1>4 DEF Inv, BundleInv, Taken, StepMoveToReal, executable, outside
<1>9. InjectorInv' BY <1>2 DEF Inv, InjectorInv, Taken, StepMoveToReal, extras, injector
<1>10. HelpersInv' BY <1>2, <1>3 DEF Inv, HelpersInv, Taken, StepMoveToReal, extras
<1>11. SealInv' BY <1>3 DEF SealInv, bundle
<1>12. TeeInv'
  <2>1. UNCHANGED cli BY DEF StepMoveToReal, extras
  <2> QED BY <1>1, <1>2, <2>1, TeeStays
<1>13. EnvironmentFindsInjector' BY
   DEF Inv, EnvironmentFindsInjector, StepMoveToReal, extras, injector
<1>14. OnlyTheseRefuse' BY <1>1, <1>2 DEF OnlyTheseRefuse, Taken, StepMoveToReal
<1> QED BY <1>2, <1>6, <1>7, <1>8, <1>9, <1>10, <1>11, <1>12, <1>13, <1>14 DEF Inv, Taken

LEMMA PreLaunchPolicyHookKeeps ==
  ASSUME Inv, PreLaunchPolicyHook
  PROVE  Inv'
<1>1. "wrapper" \in Steps /\ At("wrapper") /\ (Go \/ Stop \/ Refuse)
  BY StepNames DEF PreLaunchPolicyHook
<1>2. Taken("wrapper") BY <1>1, StepTaken
<1>3. TypeOK'
  <2>1. seal' \in [Code -> Signers] BY DEF PreLaunchPolicyHook, Inv, TypeOK, RunTypeOK
  <2>2. RunTypeOK' BY <1>2, <2>1 DEF Taken
  <2> QED BY <2>2
     DEF PreLaunchPolicyHook, extras, bundle, world, injector, Inv, TypeOK, RunTypeOK,
         InjectorTypeOK, TrustTypeOK, CliTypeOK
<1>4. CodeInv' BY <1>2 DEF Inv, CodeInv, Taken, PreLaunchPolicyHook, bundle
<1>5. BundleInv' BY <1>2 DEF Inv, BundleInv, Taken, PreLaunchPolicyHook, bundle
<1>6. InjectorInv' BY <1>2 DEF Inv, InjectorInv, Taken, PreLaunchPolicyHook, extras, injector
<1>7. HelpersInv' BY <1>2 DEF Inv, HelpersInv, Taken, PreLaunchPolicyHook, extras
<1>8. SealInv' BY <1>2 DEF Inv, SealInv, Taken, PreLaunchPolicyHook, bundle
<1>9. TeeInv'
  <2>1. UNCHANGED cli BY DEF PreLaunchPolicyHook, extras
  <2> QED BY <1>1, <1>2, <2>1, TeeStays
<1>10. EnvironmentFindsInjector' BY
   DEF Inv, EnvironmentFindsInjector, PreLaunchPolicyHook, extras, injector
<1>11. OnlyTheseRefuse' BY <1>1, <1>2 DEF OnlyTheseRefuse, Taken, PreLaunchPolicyHook
<1> QED BY <1>2, <1>3, <1>4, <1>5, <1>6, <1>7, <1>8, <1>9, <1>10, <1>11 DEF Inv, Taken

LEMMA InstallShimKeeps ==
  ASSUME Inv, InstallShim
  PROVE  Inv'
<1>1. "shim" \in Steps /\ At("shim") /\ (Go \/ Stop \/ Refuse) BY StepNames DEF InstallShim
<1>2. Taken("shim") BY <1>1, StepTaken
<1>3. "extend" \notin Done' /\ "seal" \notin Done'
  BY <1>2, ChangedBeforeSeal
<1>4. "move" \in Done
  BY <1>1, <1>2, StepNames, BehindIsDone
     DEF At, Taken, Runs, Applies, Place, StandardPlace, DevelopmentPlace
<1>5. seal \in [Code -> Signers] /\ real
  BY <1>4 DEF Inv, TypeOK, RunTypeOK, BundleInv
<1>6. TypeOK'
  <2>1. seal' \in [Code -> Signers] BY <1>5 DEF InstallShim, Code, Signers
  <2>2. RunTypeOK' BY <1>2, <2>1 DEF Taken
  <2> QED BY <2>2
     DEF InstallShim, extras, outside, world, injector, Inv, TypeOK, RunTypeOK, InjectorTypeOK,
         TrustTypeOK, CliTypeOK
<1>7. CodeInv' BY <1>2, <1>5 DEF Inv, CodeInv, Taken, InstallShim, Code
<1>8. BundleInv' BY <1>2 DEF Inv, BundleInv, Taken, InstallShim, outside
<1>9. InjectorInv' BY <1>2 DEF Inv, InjectorInv, Taken, InstallShim, extras, injector
<1>10. HelpersInv' BY <1>2, <1>3 DEF Inv, HelpersInv, Taken, InstallShim, extras
<1>11. SealInv' BY <1>3 DEF SealInv, bundle
<1>12. TeeInv'
  <2>1. UNCHANGED cli BY DEF InstallShim, extras
  <2> QED BY <1>1, <1>2, <2>1, TeeStays
<1>13. EnvironmentFindsInjector' BY DEF Inv, EnvironmentFindsInjector, InstallShim, extras, injector
<1>14. OnlyTheseRefuse' BY <1>1, <1>2 DEF OnlyTheseRefuse, Taken, InstallShim
<1> QED BY <1>2, <1>6, <1>7, <1>8, <1>9, <1>10, <1>11, <1>12, <1>13, <1>14 DEF Inv, Taken

LEMMA InstallLaunchPolicyKeeps ==
  ASSUME Inv, InstallLaunchPolicy
  PROVE  Inv'
<1>1. "launch" \in Steps /\ At("launch") /\ (Go \/ Stop \/ Refuse)
  BY StepNames DEF InstallLaunchPolicy
<1>2. Taken("launch") BY <1>1, StepTaken
<1>3. TypeOK'
  <2>1. seal' \in [Code -> Signers] BY DEF InstallLaunchPolicy, Inv, TypeOK, RunTypeOK
  <2>2. RunTypeOK' BY <1>2, <2>1 DEF Taken
  <2> QED BY <2>2
     DEF InstallLaunchPolicy, extras, outside, world, injector, Inv, TypeOK, RunTypeOK,
         InjectorTypeOK, TrustTypeOK, CliTypeOK
<1>4. CodeInv' BY <1>2 DEF Inv, CodeInv, Taken, InstallLaunchPolicy
<1>5. BundleInv' BY <1>2 DEF Inv, BundleInv, Taken, InstallLaunchPolicy, outside
<1>6. InjectorInv' BY <1>2 DEF Inv, InjectorInv, Taken, InstallLaunchPolicy, extras, injector
<1>7. HelpersInv' BY <1>2 DEF Inv, HelpersInv, Taken, InstallLaunchPolicy, extras
<1>8. SealInv' BY <1>2 DEF Inv, SealInv, Taken, InstallLaunchPolicy, bundle
<1>9. TeeInv'
  <2>1. UNCHANGED cli BY DEF InstallLaunchPolicy, extras
  <2> QED BY <1>1, <1>2, <2>1, TeeStays
<1>10. EnvironmentFindsInjector' BY
   DEF Inv, EnvironmentFindsInjector, InstallLaunchPolicy, extras, injector
<1>11. OnlyTheseRefuse' BY <1>1, <1>2 DEF OnlyTheseRefuse, Taken, InstallLaunchPolicy
<1> QED BY <1>2, <1>3, <1>4, <1>5, <1>6, <1>7, <1>8, <1>9, <1>10, <1>11 DEF Inv, Taken

LEMMA RestorePreservedKeeps ==
  ASSUME Inv, RestorePreserved
  PROVE  Inv'
<1>1. "restore" \in Steps /\ At("restore") /\ (Go \/ Stop \/ Refuse)
  BY StepNames DEF RestorePreserved
<1>2. Taken("restore") BY <1>1, StepTaken
<1>3. "extend" \notin Done' /\ "seal" \notin Done'
  BY <1>2, ChangedBeforeSeal
<1>4. /\ seal \in [Code -> Signers] /\ seal' \in [Code -> Signers]
      /\ seal'["app"] = "stale" /\ \A c \in Code \ {"app"} : seal'[c] = seal[c]
  BY Touched DEF Inv, TypeOK, RunTypeOK, Code, RestorePreserved
<1>5. TypeOK'
  <2>1. seal' \in [Code -> Signers] BY <1>4
  <2>2. RunTypeOK' BY <1>2, <2>1 DEF Taken
  <2> QED BY <2>2
     DEF RestorePreserved, extras, outside, world, injector, Inv, TypeOK, RunTypeOK,
         InjectorTypeOK, TrustTypeOK, CliTypeOK
<1>6. CodeInv' BY <1>2, <1>4 DEF Inv, CodeInv, Taken, RestorePreserved, Code
<1>7. BundleInv' BY <1>2 DEF Inv, BundleInv, Taken, RestorePreserved, outside
<1>8. InjectorInv' BY <1>2 DEF Inv, InjectorInv, Taken, RestorePreserved, extras, injector
<1>9. HelpersInv' BY <1>2, <1>3 DEF Inv, HelpersInv, Taken, RestorePreserved, extras
<1>10. SealInv' BY <1>3 DEF SealInv, bundle
<1>11. TeeInv'
  <2>1. UNCHANGED cli BY DEF RestorePreserved, extras
  <2> QED BY <1>1, <1>2, <2>1, TeeStays
<1>12. EnvironmentFindsInjector' BY
   DEF Inv, EnvironmentFindsInjector, RestorePreserved, extras, injector
<1>13. OnlyTheseRefuse' BY <1>1, <1>2 DEF OnlyTheseRefuse, Taken, RestorePreserved
<1> QED BY <1>2, <1>5, <1>6, <1>7, <1>8, <1>9, <1>10, <1>11, <1>12, <1>13 DEF Inv, Taken

LEMMA RemoveProfileKeeps ==
  ASSUME Inv, RemoveProfile
  PROVE  Inv'
<1>1. "unembed" \in Steps /\ At("unembed") /\ (Go \/ Stop \/ Refuse) BY StepNames DEF RemoveProfile
<1>2. Taken("unembed") BY <1>1, StepTaken
<1>3. "extend" \notin Done' /\ "seal" \notin Done'
  BY <1>2, ChangedBeforeSeal
<1>4. "embed" \notin Done'
  BY <1>2, OneProfile
<1>5. /\ seal \in [Code -> Signers] /\ seal' \in [Code -> Signers]
      /\ seal'["app"] = "stale" /\ \A c \in Code \ {"app"} : seal'[c] = seal[c]
  BY Touched DEF Inv, TypeOK, RunTypeOK, Code, RemoveProfile
<1>6. TypeOK'
  <2>1. seal' \in [Code -> Signers] BY <1>5
  <2>2. RunTypeOK' BY <1>2, <2>1 DEF Taken
  <2> QED BY <2>2
     DEF RemoveProfile, extras, outside, world, injector, Inv, TypeOK, RunTypeOK, InjectorTypeOK,
         TrustTypeOK, CliTypeOK
<1>7. CodeInv' BY <1>2, <1>5 DEF Inv, CodeInv, Taken, RemoveProfile, Code
<1>8. BundleInv' BY <1>2, <1>4 DEF Inv, BundleInv, Taken, RemoveProfile, outside
<1>9. InjectorInv' BY <1>2 DEF Inv, InjectorInv, Taken, RemoveProfile, extras, injector
<1>10. HelpersInv' BY <1>2, <1>3 DEF Inv, HelpersInv, Taken, RemoveProfile, extras
<1>11. SealInv' BY <1>3 DEF SealInv, bundle
<1>12. TeeInv'
  <2>1. UNCHANGED cli BY DEF RemoveProfile, extras
  <2> QED BY <1>1, <1>2, <2>1, TeeStays
<1>13. EnvironmentFindsInjector' BY
   DEF Inv, EnvironmentFindsInjector, RemoveProfile, extras, injector
<1>14. OnlyTheseRefuse' BY <1>1, <1>2 DEF OnlyTheseRefuse, Taken, RemoveProfile
<1> QED BY <1>2, <1>6, <1>7, <1>8, <1>9, <1>10, <1>11, <1>12, <1>13, <1>14 DEF Inv, Taken

LEMMA EmbedProfileKeeps ==
  ASSUME Inv, EmbedProfile
  PROVE  Inv'
<1>1. "embed" \in Steps /\ At("embed") /\ (Go \/ Stop \/ Refuse) BY StepNames DEF EmbedProfile
<1>2. Taken("embed") BY <1>1, StepTaken
<1>3. "extend" \notin Done' /\ "seal" \notin Done'
  BY <1>2, ChangedBeforeSeal
<1>4. "unembed" \notin Done'
  BY <1>2, OneProfile
<1>5. /\ seal \in [Code -> Signers] /\ seal' \in [Code -> Signers]
      /\ seal'["app"] = "stale" /\ \A c \in Code \ {"app"} : seal'[c] = seal[c]
  BY Touched DEF Inv, TypeOK, RunTypeOK, Code, EmbedProfile
<1>6. TypeOK'
  <2>1. seal' \in [Code -> Signers] BY <1>5
  <2>2. RunTypeOK' BY <1>2, <2>1 DEF Taken
  <2> QED BY <2>2
     DEF EmbedProfile, extras, outside, world, injector, Inv, TypeOK, RunTypeOK, InjectorTypeOK,
         TrustTypeOK, CliTypeOK
<1>7. CodeInv' BY <1>2, <1>5 DEF Inv, CodeInv, Taken, EmbedProfile, Code
<1>8. BundleInv' BY <1>2, <1>4 DEF Inv, BundleInv, Taken, EmbedProfile, outside
<1>9. InjectorInv' BY <1>2 DEF Inv, InjectorInv, Taken, EmbedProfile, extras, injector
<1>10. HelpersInv' BY <1>2, <1>3 DEF Inv, HelpersInv, Taken, EmbedProfile, extras
<1>11. SealInv' BY <1>3 DEF SealInv, bundle
<1>12. TeeInv'
  <2>1. UNCHANGED cli BY DEF EmbedProfile, extras
  <2> QED BY <1>1, <1>2, <2>1, TeeStays
<1>13. EnvironmentFindsInjector' BY
   DEF Inv, EnvironmentFindsInjector, EmbedProfile, extras, injector
<1>14. OnlyTheseRefuse' BY <1>1, <1>2 DEF OnlyTheseRefuse, Taken, EmbedProfile
<1> QED BY <1>2, <1>6, <1>7, <1>8, <1>9, <1>10, <1>11, <1>12, <1>13, <1>14 DEF Inv, Taken

LEMMA SealStandardKeeps ==
  ASSUME Inv, SealStandard
  PROVE  Inv'
<1>1. "seal" \in Steps /\ At("seal") /\ (Go \/ Stop \/ Refuse) BY StepNames DEF SealStandard
<1>2. Taken("seal") BY <1>1, StepTaken
<1>3. seal \in [Code -> Signers] /\ seal["app"] # "none" /\ plan = "standard"
  BY DEF SealStandard, Inv, TypeOK, RunTypeOK, CodeInv
<1>4. /\ seal' \in [Code -> Signers] /\ seal'["app"] \in {"local", "stale"}
      /\ \A c \in Code \ {"app"} :
           seal'[c] = seal[c] \/ (seal[c] # "none" /\ seal'[c] = "local")
  BY <1>3, SignedSoFar DEF SealStandard
<1>5. "seal" \in Done' =>
        seal'["app"] = "local" /\ \A c \in Code : seal'[c] \in {"none", "local"}
  <2>1. ASSUME "seal" \in Done' PROVE seal' = SignedUpTo(5)
    BY <1>2, <2>1 DEF SealStandard, Taken
  <2>2. "app" \in Code BY DEF Code
  <2> QED BY <2>1, <2>2, <1>3, SignedAll
<1>6. TypeOK'
  <2>1. seal' \in [Code -> Signers] BY <1>4
  <2>2. RunTypeOK' BY <1>2, <2>1 DEF Taken
  <2> QED BY <2>2
     DEF SealStandard, extras, bundle, outside, world, injector, Inv, TypeOK, RunTypeOK,
         InjectorTypeOK, TrustTypeOK, CliTypeOK
<1>7. CodeInv' BY <1>2, <1>4 DEF Inv, CodeInv, Taken, SealStandard, bundle, Code
<1>8. BundleInv' BY <1>2 DEF Inv, BundleInv, Taken, SealStandard, bundle, outside
<1>9. InjectorInv' BY <1>2 DEF Inv, InjectorInv, Taken, SealStandard, extras, injector
<1>10. HelpersInv' BY <1>2, <1>4 DEF Inv, HelpersInv, Taken, SealStandard, extras, Code
<1>11. SealInv' BY <1>2, <1>3, <1>5 DEF SealInv, Taken, bundle
<1>12. TeeInv'
  <2>1. UNCHANGED cli BY DEF SealStandard, extras
  <2> QED BY <1>1, <1>2, <2>1, TeeStays
<1>13. EnvironmentFindsInjector' BY
   DEF Inv, EnvironmentFindsInjector, SealStandard, extras, injector
<1>14. OnlyTheseRefuse' BY <1>1, <1>2 DEF OnlyTheseRefuse, Taken, SealStandard
<1> QED BY <1>2, <1>6, <1>7, <1>8, <1>9, <1>10, <1>11, <1>12, <1>13, <1>14 DEF Inv, Taken

LEMMA SealDevelopmentKeeps ==
  ASSUME Inv, SealDevelopment
  PROVE  Inv'
<1>1. "seal" \in Steps /\ At("seal") /\ (Go \/ Stop \/ Refuse) BY StepNames DEF SealDevelopment
<1>2. Taken("seal") BY <1>1, StepTaken
<1>3. plan = "development" /\ policy = "development"
  BY <1>2 DEF SealDevelopment, Inv, RunInv
<1>4. "extend" \in Done
  BY <1>1, <1>2, <1>3, StepNames, BehindIsDone
     DEF At, Applies, Place, DevelopmentPlace
<1>5. /\ seal \in [Code -> Signers] /\ seal["helper"] = "local"
      /\ seal["real"] # "stale" /\ seal["nested"] # "stale"
  BY <1>4 DEF Inv, TypeOK, RunTypeOK, CodeInv, HelpersInv
<1>6. /\ seal' \in [Code -> Signers] /\ seal'["app"] # "none"
      /\ seal'["main"] \in {seal["main"], "development"}
      /\ \A c \in {"nested", "helper", "real"} : seal'[c] = seal[c]
  BY <1>5, Touched DEF SealDevelopment, CodeInv, Inv, Code, Signers
<1>7. "seal" \in Done' => /\ seal'["app"] = "development" /\ \A c \in Code : seal'[c] # "stale"
                         /\ main' \notin {"none", "torn"}
  <2>1. ASSUME "seal" \in Done'
        PROVE  /\ seal' = [seal EXCEPT !["main"] = "development", !["app"] = "development"]
               /\ main' \notin {"none", "torn"}
    BY <1>2, <2>1 DEF SealDevelopment, Taken, bundle
  <2> QED BY <2>1, <1>5 DEF Code
<1>8. TypeOK'
  <2>1. seal' \in [Code -> Signers] BY <1>6
  <2>2. RunTypeOK' BY <1>2, <2>1 DEF Taken
  <2> QED BY <2>2
     DEF SealDevelopment, extras, bundle, outside, world, injector, Inv, TypeOK, RunTypeOK,
         InjectorTypeOK, TrustTypeOK, CliTypeOK
<1>9. CodeInv' BY <1>2, <1>6 DEF Inv, CodeInv, Taken, SealDevelopment, bundle, Code
<1>10. BundleInv' BY <1>2 DEF Inv, BundleInv, Taken, SealDevelopment, bundle, outside
<1>11. InjectorInv' BY <1>2 DEF Inv, InjectorInv, Taken, SealDevelopment, extras, injector
<1>12. HelpersInv' BY <1>2, <1>6 DEF Inv, HelpersInv, Taken, SealDevelopment, extras, Code
<1>13. SealInv' BY <1>2, <1>3, <1>7 DEF SealInv, Taken, bundle, SealDevelopment
<1>14. TeeInv'
  <2>1. UNCHANGED cli BY DEF SealDevelopment, extras
  <2> QED BY <1>1, <1>2, <2>1, TeeStays
<1>15. EnvironmentFindsInjector' BY
   DEF Inv, EnvironmentFindsInjector, SealDevelopment, extras, injector
<1>16. OnlyTheseRefuse' BY <1>1, <1>2, <1>3 DEF OnlyTheseRefuse, Taken, SealDevelopment, bundle
<1> QED BY <1>2, <1>8, <1>9, <1>10, <1>11, <1>12, <1>13, <1>14, <1>15, <1>16 DEF Inv, Taken

LEMMA VerifyKeeps ==
  ASSUME Inv, Verify
  PROVE  Inv'
<1>1. "verify" \in Steps /\ At("verify") /\ (Go \/ Stop \/ Refuse) BY StepNames DEF Verify
<1>2. Taken("verify") BY <1>1, StepTaken
<1>3. plan \in Runs /\ (plan = "standard" \/ plan = "development")
  BY <1>2 DEF Taken, Runs, Place
<1>4. "seal" \in Done
  BY <1>1, <1>2, <1>3, StepNames, BehindIsDone
     DEF At, Runs, Applies, Place, StandardPlace, DevelopmentPlace
<1>5. plan = "standard" => "shim" \in Done /\ "launch" \in Done
  BY <1>1, <1>2, <1>3, StepNames, BehindIsDone
     DEF At, Runs, Applies, Place, StandardPlace, DevelopmentPlace
<1>6. plan = "development" => "policy" \in Done /\ "install" \in Done
  BY <1>1, <1>2, <1>3, StepNames, BehindIsDone
     DEF At, Runs, Applies, Place, StandardPlace, DevelopmentPlace
<1>7. (plan = "standard" /\ VerifiedStandard) \/ (plan = "development" /\ VerifiedDevelopment)
  BY <1>3, <1>4, <1>5, <1>6
     DEF Inv, SealInv, BundleInv, InjectorInv, VerifiedStandard, VerifiedDevelopment
<1>8. TypeOK'
  <2>1. seal' \in [Code -> Signers] BY DEF Verify, Inv, TypeOK, RunTypeOK
  <2>2. RunTypeOK' BY <1>2, <2>1 DEF Taken
  <2> QED BY <2>2
     DEF Verify, extras, bundle, outside, world, injector, Inv, TypeOK, RunTypeOK, InjectorTypeOK,
         TrustTypeOK, CliTypeOK
<1>9. CodeInv' BY <1>2 DEF Inv, CodeInv, Taken, Verify, bundle
<1>10. BundleInv' BY <1>2 DEF Inv, BundleInv, Taken, Verify, bundle, outside
<1>11. InjectorInv' BY <1>2 DEF Inv, InjectorInv, Taken, Verify, extras, injector
<1>12. HelpersInv' BY <1>2 DEF Inv, HelpersInv, Taken, Verify, extras
<1>13. SealInv' BY <1>2 DEF Inv, SealInv, Taken, Verify, bundle
<1>14. TeeInv'
  <2>1. UNCHANGED cli BY DEF Verify, extras
  <2> QED BY <1>1, <1>2, <2>1, TeeStays
<1>15. EnvironmentFindsInjector' BY DEF Inv, EnvironmentFindsInjector, Verify, extras, injector
<1>16. OnlyTheseRefuse' BY <1>2, <1>7 DEF OnlyTheseRefuse, Taken, Verify
<1> QED BY <1>2, <1>8, <1>9, <1>10, <1>11, <1>12, <1>13, <1>14, <1>15, <1>16 DEF Inv, Taken

LEMMA WriteStateKeeps ==
  ASSUME Inv, WriteState
  PROVE  Inv'
<1>1. "record" \in Steps /\ At("record") /\ (Go \/ Stop \/ Refuse) BY StepNames DEF WriteState, Stop
<1>2. Taken("record") BY <1>1, StepTaken
<1>3. TypeOK'
  <2>1. seal' \in [Code -> Signers] BY DEF WriteState, Stop, Inv, TypeOK, RunTypeOK
  <2>2. RunTypeOK' BY <1>2, <2>1 DEF Taken
  <2>3. record' \in 0..version BY DEF WriteState, Inv, TypeOK
  <2>4. UNCHANGED <<seal, extras, bundle, wrapper, keychain, world>> BY DEF WriteState
  <2> QED BY <2>2, <2>3, <2>4
     DEF bundle, injector, world, extras, Inv, TypeOK, RunTypeOK, InjectorTypeOK, TrustTypeOK,
         CliTypeOK
<1>4. CodeInv' BY <1>2 DEF Inv, CodeInv, Taken, WriteState, Stop, bundle
<1>5. BundleInv' BY <1>2 DEF Inv, BundleInv, Taken, WriteState, Stop, bundle
<1>6. InjectorInv' BY <1>2 DEF Inv, InjectorInv, Taken, WriteState, Stop, extras, injector
<1>7. HelpersInv' BY <1>2 DEF Inv, HelpersInv, Taken, WriteState, Stop, extras
<1>8. SealInv' BY <1>2 DEF Inv, SealInv, Taken, WriteState, Stop, bundle
<1>9. TeeInv'
  <2>1. UNCHANGED cli BY DEF WriteState, Stop, extras
  <2> QED BY <1>1, <1>2, <2>1, TeeStays
<1>10. EnvironmentFindsInjector' BY
   DEF Inv, EnvironmentFindsInjector, WriteState, Stop, extras, injector
<1>11. OnlyTheseRefuse' BY <1>1, <1>2 DEF OnlyTheseRefuse, Taken, WriteState, Stop
<1> QED BY <1>2, <1>3, <1>4, <1>5, <1>6, <1>7, <1>8, <1>9, <1>10, <1>11 DEF Inv, Taken

\* A password that cannot be put back is noted at the end of a patch, which succeeds,
\* and fails a repair.
LEMMA RegrantTaken ==
  ASSUME Inv, At("regrant"), RegrantFails
  PROVE  /\ RunInv' /\ (seal' \in [Code -> Signers] => RunTypeOK')
         /\ UNCHANGED <<policy, plan, migrate>>
         /\ Done' \subseteq Done \union {"regrant"}
         /\ step' = "idle" /\ outcome' # "refused"
         /\ (crashes' = 0 => crashes = 0) /\ (faults' < 2 => faults < 2)
<1>1. /\ step = "regrant" /\ UNCHANGED <<policy, plan, migrate, runs, crashes>>
      /\ step' = "idle" /\ outcome' \in {"failed", "ok"}
      /\ faults < MaxFaults /\ faults' = faults + 1
  BY DEF At, RegrantFails, Ended
<1>2. /\ RunTypeOK /\ faults \in 0..MaxFaults /\ (plan = "development" => policy = "development")
      /\ plan \in Runs /\ Place(plan, "regrant") > 0
  BY <1>1 DEF Inv, TypeOK, RunTypeOK, RunInv
<1>3. faults' \in 0..MaxFaults /\ (faults' < 2 => faults < 2) BY <1>1, <1>2, PatchRunAssumption
<1>4. RunInv' BY <1>1, <1>2 DEF RunInv
<1>5. seal' \in [Code -> Signers] => RunTypeOK' BY <1>1, <1>2, <1>3 DEF RunTypeOK
<1>6. ASSUME NEW u \in Done' PROVE u \in Done \union {"regrant"}
  <2>1. u \in Steps /\ Place(plan, u)' > 0 /\ Applies(u, plan, migrate)' BY <1>6 DEF Done
  <2>2. Place(plan, u) > 0 /\ Applies(u, plan, migrate) BY <1>1, <2>1 DEF Place, Applies
  <2>3. u # "regrant" => Place(plan, u) < Place(plan, "regrant")
    BY <1>2, <2>1, <2>2 DEF Runs, Place, Steps, StandardPlace, DevelopmentPlace
  <2> QED BY <1>1, <2>1, <2>2, <2>3, StepNames DEF Done
<1> QED BY <1>1, <1>3, <1>4, <1>5, <1>6

LEMMA RegrantItemsKeeps ==
  ASSUME Inv, RegrantItems
  PROVE  Inv'
<1>1. At("regrant") /\ "regrant" \in Steps BY StepNames DEF RegrantItems
<1>2. /\ RunInv' /\ (seal' \in [Code -> Signers] => RunTypeOK')
      /\ UNCHANGED <<policy, plan, migrate>>
      /\ Done' \subseteq Done \union {"regrant"}
      /\ step' \notin {"teeCopy", "teeSign"} /\ outcome' # "refused"
      /\ (crashes' = 0 => crashes = 0) /\ (faults' < 2 => faults < 2)
  <2>1. CASE Go \/ Stop BY <1>1, <2>1, StepTaken DEF Taken
  <2>2. CASE RegrantFails BY <1>1, <2>2, RegrantTaken
  <2> QED BY <2>1, <2>2 DEF RegrantItems, Stop
<1>3. UNCHANGED <<seal, extras, bundle, wrapper, record, world>> BY DEF RegrantItems
<1>4. TypeOK'
  <2>1. keychain' \in {"app", "granted", "gone"} BY DEF RegrantItems, Inv, TypeOK
  <2> QED BY <1>2, <1>3, <2>1
          DEF bundle, injector, world, extras, Inv, TypeOK, RunTypeOK, InjectorTypeOK, TrustTypeOK,
              CliTypeOK
<1>5. CodeInv' BY <1>2, <1>3 DEF Inv, CodeInv, bundle
<1>6. BundleInv' BY <1>2, <1>3 DEF Inv, BundleInv, bundle
<1>7. InjectorInv' BY <1>2, <1>3 DEF Inv, InjectorInv, extras, injector
<1>8. HelpersInv' BY <1>2, <1>3 DEF Inv, HelpersInv, extras
<1>9. SealInv' BY <1>2, <1>3 DEF Inv, SealInv, bundle
<1>10. TeeInv' BY <1>1, <1>2, <1>3 DEF Inv, TeeInv, CliComesBack, NoCli, At, extras
<1>11. EnvironmentFindsInjector' BY <1>3 DEF Inv, EnvironmentFindsInjector, extras, injector
<1>12. OnlyTheseRefuse' BY <1>2 DEF OnlyTheseRefuse
<1> QED BY <1>2, <1>4, <1>5, <1>6, <1>7, <1>8, <1>9, <1>10, <1>11, <1>12 DEF Inv


-----------------------------------------------------------------------------
\* A run begins with nothing behind it, and between runs nothing is behind one.
LEMMA NothingYet ==
  ASSUME Done' = {}
  PROVE  BundleInv' /\ InjectorInv' /\ HelpersInv' /\ SealInv'
BY DEF BundleInv, InjectorInv, HelpersInv, SealInv

LEMMA BeginKeeps ==
  ASSUME Inv, Begin
  PROVE  /\ CodeInv' /\ EnvironmentFindsInjector'
         /\ step' \notin {"teeCopy", "teeSign"} => TeeInv'
         /\ RunTypeOK' => TypeOK'
<1>1. UNCHANGED <<policy, seal, extras, bundle, outside, world, faults, crashes>> /\ step = "idle"
  BY DEF Begin
<1>2. CodeInv' BY <1>1 DEF Inv, CodeInv, bundle
<1>3. EnvironmentFindsInjector' BY <1>1 DEF Inv, EnvironmentFindsInjector, extras, injector
<1>4. step' \notin {"teeCopy", "teeSign"} => TeeInv'
  BY <1>1 DEF Inv, TeeInv, CliComesBack, NoCli, extras
<1>5. RunTypeOK' => TypeOK'
  BY <1>1 DEF bundle, outside, injector, world, extras,
              Inv, TypeOK, InjectorTypeOK, TrustTypeOK, CliTypeOK
<1> QED BY <1>2, <1>3, <1>4, <1>5

LEMMA BeginTypes ==
  ASSUME Inv, Begin, plan' \in Plans, migrate' \in BOOLEAN,
         outcome' \in {"none", "ok", "skipped", "failed", "refused", "killed"},
         step' = "idle" \/ \E i \in DOMAIN Pipeline(plan') : step' = Pipeline(plan')[i]
  PROVE  RunTypeOK'
<1>1. /\ policy \in Policies /\ seal \in [Code -> Signers] /\ runs \in 0..MaxRuns
      /\ faults \in 0..MaxFaults /\ crashes \in 0..MaxCrashes
  BY DEF Inv, TypeOK, RunTypeOK
<1>2. UNCHANGED <<policy, seal, faults, crashes>> /\ runs' \in 0..MaxRuns
  BY <1>1, PatchRunAssumption DEF Begin
<1> QED BY <1>1, <1>2 DEF RunTypeOK, Pipeline

LEMMA TurnAwayKeeps ==
  ASSUME Inv, TurnAway
  PROVE  Inv'
<1>1. /\ Begin /\ plan' = "none" /\ migrate' = FALSE /\ step' = "idle"
      /\ outcome' = "skipped" \/ (outcome' = "refused" /\ Untrusted)
  BY DEF TurnAway, Ended
<1>2. RunTypeOK' BY <1>1, BeginTypes DEF Plans
<1>3. RunInv' BY <1>1 DEF RunInv
<1>4. BundleInv' /\ InjectorInv' /\ HelpersInv' /\ SealInv' BY <1>1, NothingDone
<1>5. OnlyTheseRefuse' BY <1>1 DEF OnlyTheseRefuse, Begin, Untrusted, world
<1> QED BY <1>1, <1>2, <1>3, <1>4, <1>5, BeginKeeps DEF Inv

LEMMA PatchKeeps ==
  ASSUME Inv, Patch
  PROVE  Inv'
<1>1. /\ Begin /\ outcome' = "none" /\ migrate' \in BOOLEAN
      /\ plan' = IF policy = "development" /\ assets THEN "development" ELSE "standard"
  BY DEF Patch
<1>2. plan' \in {"standard", "development"} /\ UNCHANGED policy
      /\ (plan' = "development" => policy = "development")
  BY <1>1 DEF Begin
<1>3. PICK j \in DOMAIN Pipeline(plan') :
        Follows(plan', migrate', 0, j) /\ step' = Pipeline(plan')[j]
  BY DEF Patch
<1>4. /\ Len(Pipeline(plan')) \in Nat /\ DOMAIN Pipeline(plan') = 1..Len(Pipeline(plan'))
      /\ step' \in Steps /\ Place(plan', step') = j
      /\ \A u \in Steps : Place(plan', u) \in Nat
      /\ \A u \in Steps : Place(plan', u) > 0 => Place(plan', u) \in DOMAIN Pipeline(plan')
                                              /\ Pipeline(plan')[Place(plan', u)] = u
  BY <1>2, <1>3, Places DEF Runs
<1>5. /\ Applies(step', plan', migrate')
      /\ \A k \in 1..(j - 1) : ~Applies(Pipeline(plan')[k], plan', migrate')
  BY <1>3 DEF Follows, NothingBetween
<1>6. step' # "idle" /\ j \in Nat /\ j > 0
  <2>1. j \in 1..Len(Pipeline(plan')) BY <1>3, <1>4
  <2>2. step' # "idle" BY <1>4, StepNames
  <2> QED BY <2>1, <2>2, <1>4
<1>7. Done' = {}
  <2>1. SUFFICES ASSUME NEW u \in Done' PROVE FALSE
    OBVIOUS
  <2>2. /\ u \in Steps /\ Place(plan', u) > 0 /\ Place(plan', u) < Place(plan', step')
        /\ Applies(u, plan, migrate)'
    BY <2>1, <1>1 DEF Done, Place
  <2>3. Applies(u, plan', migrate') BY <2>2, <1>2 DEF Applies
  <2> QED BY <2>2, <2>3, <1>4, <1>5
<1>8. BundleInv' /\ InjectorInv' /\ HelpersInv' /\ SealInv' BY <1>7, NothingYet
<1>9. RunTypeOK'
  <2>1. \E i \in DOMAIN Pipeline(plan') : step' = Pipeline(plan')[i] BY <1>3
  <2> QED BY <2>1, <1>1, <1>2, BeginTypes DEF Plans
<1>10. RunInv'
  <2>1. Applies(step, plan, migrate)' BY <1>2, <1>5 DEF Applies
  <2>2. Place(plan', step') > 0 BY <1>4, <1>6
  <2>3. Place(plan, step)' > 0 BY <2>2 DEF Place
  <2>4. plan' \in Runs /\ (plan' = "development" => policy' = "development") BY <1>2 DEF Runs
  <2> QED BY <1>1, <1>4, <2>1, <2>3, <2>4 DEF RunInv
<1>11. OnlyTheseRefuse' BY <1>1 DEF OnlyTheseRefuse
<1>12. step' \notin {"teeCopy", "teeSign"}
  <2>1. Applies("stage", plan', migrate') <=> policy = "plain" BY DEF Applies
  <2>2. /\ Applies("teeCopy", plan', migrate') => policy = "plain"
        /\ Applies("teeSign", plan', migrate') => policy = "plain"
        /\ Applies("entitlements", plan', migrate')
    BY DEF Applies
  <2>3. /\ Place(plan', "entitlements") > 0
        /\ Place(plan', "entitlements") < Place(plan', "teeCopy")
        /\ Place(plan', "entitlements") < Place(plan', "teeSign")
    BY <1>2 DEF Place, StandardPlace, DevelopmentPlace
  <2>4. Place(plan', "entitlements") \notin 1..(j - 1)
    BY <1>4, <1>5, <2>2, <2>3, StepNames
  <2>5. /\ Place(plan', "entitlements") \in Nat
        /\ Place(plan', "entitlements") > j - 1
    <3>1. Place(plan', "entitlements") \in Nat BY <1>4, StepNames
    <3> QED BY <3>1, <1>6, <2>3, <2>4
  <2>6. ASSUME step' \in {"teeCopy", "teeSign"} PROVE FALSE
    <3>1. Place(plan', "entitlements") < Place(plan', step') BY <2>3, <2>6
    <3> QED BY <3>1, <2>5, <1>4, <1>6
  <2> QED BY <2>6
<1> QED BY <1>1, <1>8, <1>9, <1>10, <1>11, <1>12, BeginKeeps DEF Inv

LEMMA KeychainMigrateKeeps ==
  ASSUME Inv, KeychainMigrate
  PROVE  Inv'
<1>1. /\ Begin /\ plan' = "keychain" /\ migrate' = TRUE /\ step' = "regrant" /\ outcome' = "none"
  BY DEF KeychainMigrate
<1>2. RunTypeOK'
  <2>1. Pipeline(plan') = <<"regrant">> BY <1>1 DEF Pipeline
  <2>2. 1 \in DOMAIN Pipeline(plan') /\ step' = Pipeline(plan')[1] BY <1>1, <2>1
  <2> QED BY <2>2, <1>1, BeginTypes DEF Plans
<1>3. Done' = {}
  <2>1. \A u \in Steps : Place(plan, u)' = IF u = "regrant" THEN 1 ELSE 0 BY <1>1 DEF Place
  <2>2. Place(plan, step)' = 1 BY <1>1 DEF Place
  <2>3. SUFFICES ASSUME NEW u \in Done' PROVE FALSE
    OBVIOUS
  <2>4. u \in Steps /\ Place(plan, u)' > 0 /\ Place(plan, u)' < Place(plan, step)'
    BY <2>3, <1>1 DEF Done
  <2> QED BY <2>1, <2>2, <2>4
<1>4. BundleInv' /\ InjectorInv' /\ HelpersInv' /\ SealInv' BY <1>3, NothingYet
<1>5. RunInv' BY <1>1, StepNames DEF RunInv, Runs, Applies, Place
<1>6. OnlyTheseRefuse' BY <1>1 DEF OnlyTheseRefuse
<1> QED BY <1>1, <1>2, <1>4, <1>5, <1>6, BeginKeeps DEF Inv

-----------------------------------------------------------------------------
\* Between runs the world changes, under a run that is over.
LEMMA BetweenKeeps ==
  ASSUME Inv, Between
  PROVE  /\ RunInv' /\ (seal' \in [Code -> Signers] => RunTypeOK')
         /\ BundleInv' /\ InjectorInv' /\ HelpersInv' /\ SealInv' /\ OnlyTheseRefuse'
         /\ changes' \in 0..MaxChanges /\ UNCHANGED <<policy, outside>> /\ step' = "idle"
         /\ UNCHANGED cli => TeeInv'
<1>1. /\ step = "idle" /\ step' = "idle" /\ outcome' = "none" /\ changes < MaxChanges
      /\ changes' = changes + 1
      /\ UNCHANGED <<policy, plan, migrate, runs, faults, crashes, outside>>
  BY DEF Between
<1>2. RunTypeOK /\ changes \in 0..MaxChanges /\ (plan = "development" => policy = "development")
  BY DEF Inv, TypeOK, RunInv
<1>3. RunInv' BY <1>1, <1>2 DEF RunInv
<1>4. seal' \in [Code -> Signers] => RunTypeOK' BY <1>1, <1>2 DEF RunTypeOK
<1>5. BundleInv' /\ InjectorInv' /\ HelpersInv' /\ SealInv' BY <1>1, NothingDone
<1>6. OnlyTheseRefuse' BY <1>1 DEF OnlyTheseRefuse
<1>7. changes' \in 0..MaxChanges BY <1>1, <1>2, PatchRunAssumption
<1>8. UNCHANGED cli => TeeInv' BY <1>1 DEF Inv, TeeInv, CliComesBack, NoCli
<1> QED BY <1>1, <1>3, <1>4, <1>5, <1>6, <1>7, <1>8

LEMMA VendorSealed ==
  /\ VendorSeal \in [Code -> Signers]
  /\ VendorSeal["main"] = "vendor" /\ VendorSeal["app"] = "vendor" /\ VendorSeal["real"] = "none"
  /\ VendorSeal["nested"] = "vendor" /\ (policy = "development" => VendorSeal["helper"] = "vendor")
BY DEF VendorSeal, Code, Signers

LEMMA UpdateKeeps ==
  ASSUME Inv, Update
  PROVE  Inv'
<1>1. /\ Between /\ main' = "vendor" /\ real' = FALSE /\ launch' = "none" /\ kept' = "whole"
      /\ profile' = "vendor" /\ env' = "vendor" /\ seal' = VendorSeal
      /\ version' = version + 1 /\ UNCHANGED <<policyFile, dylib, cli, assets, trusted>>
      /\ trust' = [trust EXCEPT !["bundled"] = "upstream"]
  BY DEF Update, FreshBundle
<1>2. UNCHANGED <<policy, outside>> BY <1>1, BetweenKeeps
<1>3. TypeOK'
  <2>1. trust' \in [Copies -> {"absent", "upstream", "mixed", "local", "headless"}]
    BY <1>1 DEF Inv, TypeOK, TrustTypeOK
  <2>2. record' \in 0..version' /\ version' \in Nat \ {0}
    BY <1>1, <1>2 DEF outside, Inv, TypeOK
  <2>3. real' \in BOOLEAN /\ assets' \in BOOLEAN /\ trusted' \in BOOLEAN
    BY <1>1 DEF Inv, TypeOK
  <2>4. RunTypeOK' /\ changes' \in 0..MaxChanges BY <1>1, VendorSealed, BetweenKeeps
  <2>5. InjectorTypeOK' /\ CliTypeOK'
    BY <1>1 DEF Inv, TypeOK, InjectorTypeOK, CliTypeOK
  <2>6. wrapper' \in {"none", "torn", "whole"} /\ keychain' \in {"app", "granted", "gone"}
    BY <1>2 DEF outside, Inv, TypeOK
  <2> QED BY <1>1, <2>1, <2>2, <2>3, <2>4, <2>5, <2>6 DEF TypeOK, TrustTypeOK
<1>4. CodeInv' BY <1>1, <1>2, VendorSealed DEF CodeInv
<1>5. EnvironmentFindsInjector' BY <1>1 DEF EnvironmentFindsInjector
<1> QED BY <1>1, <1>3, <1>4, <1>5, BetweenKeeps DEF Inv

LEMMA LaunchKeeps ==
  ASSUME Inv, Launch
  PROVE  Inv'
<1>1. /\ Between /\ UNCHANGED <<seal, injector, cli, bundle, assets, trusted>>
      /\ trust' = [c \in Copies |-> IF c \in Helpers THEN trust["bundled"] ELSE trust[c]]
  BY DEF Launch
<1>2. trust' \in [Copies -> {"absent", "upstream", "mixed", "local", "headless"}]
  BY <1>1 DEF Inv, TypeOK, TrustTypeOK, Copies, Helpers
<1>3. TypeOK'
  BY <1>1, <1>2, BetweenKeeps DEF bundle, outside, injector,
     Inv, TypeOK, RunTypeOK, InjectorTypeOK, TrustTypeOK, CliTypeOK
<1>4. CodeInv' BY <1>1, BetweenKeeps DEF Inv, CodeInv, bundle
<1>5. EnvironmentFindsInjector' BY <1>1 DEF Inv, EnvironmentFindsInjector, injector
<1> QED BY <1>1, <1>3, <1>4, <1>5, BetweenKeeps DEF Inv

LEMMA UpdateCliKeeps ==
  ASSUME Inv, UpdateCli
  PROVE  Inv'
<1>1. /\ Between /\ UNCHANGED <<seal, injector, trust, bundle, assets, trusted>>
      /\ cli' = VendorCli
  BY DEF UpdateCli
<1>2. TypeOK'
  BY <1>1, BetweenKeeps DEF bundle, outside, injector, VendorCli,
     Inv, TypeOK, RunTypeOK, InjectorTypeOK, TrustTypeOK, CliTypeOK
<1>3. CodeInv' BY <1>1, BetweenKeeps DEF Inv, CodeInv, bundle
<1>4. EnvironmentFindsInjector' BY <1>1 DEF Inv, EnvironmentFindsInjector, injector
<1>5. TeeInv' BY <1>1, BetweenKeeps DEF TeeInv, CliComesBack, VendorCli
<1> QED BY <1>1, <1>2, <1>3, <1>4, <1>5, BetweenKeeps DEF Inv

LEMMA ChangeSetupKeeps ==
  ASSUME Inv, ChangeSetup
  PROVE  Inv'
<1>1. Between /\ UNCHANGED <<seal, extras, bundle>> BY DEF ChangeSetup
<1>2. assets' \in BOOLEAN /\ trusted' \in BOOLEAN BY DEF ChangeSetup, Inv, TypeOK
<1>3. TypeOK'
  BY <1>1, <1>2, BetweenKeeps DEF bundle, outside, extras, injector,
     Inv, TypeOK, RunTypeOK, InjectorTypeOK, TrustTypeOK, CliTypeOK
<1>4. CodeInv' BY <1>1, BetweenKeeps DEF Inv, CodeInv, bundle
<1>5. EnvironmentFindsInjector' BY <1>1 DEF Inv, EnvironmentFindsInjector, extras, injector
<1>6. TeeInv' BY <1>1, BetweenKeeps DEF extras
<1> QED BY <1>1, <1>3, <1>4, <1>5, <1>6, BetweenKeeps DEF Inv

LEMMA StutterKeeps ==
  ASSUME Inv, UNCHANGED vars
  PROVE  Inv'
<1>1. /\ UNCHANGED <<policy, plan, step, outcome, migrate, runs, faults, crashes>>
      /\ UNCHANGED <<seal, policyFile, dylib, env, trust, cli>>
      /\ UNCHANGED <<main, real, launch, kept, profile, version, wrapper, record, keychain>>
      /\ UNCHANGED <<assets, trusted, changes>>
  BY DEF vars, run, extras, injector, bundle, outside, world
<1>2. Done' = Done BY <1>1 DEF Done, Place, Applies
<1>3. TypeOK'
  BY <1>1 DEF Inv, TypeOK, RunTypeOK, InjectorTypeOK, TrustTypeOK, CliTypeOK, Pipeline
<1>4. RunInv'
  <2>1. Applies(step, plan, migrate)' <=> Applies(step, plan, migrate) BY <1>1 DEF Applies
  <2>2. Place(plan, step)' = Place(plan, step) BY <1>1 DEF Place
  <2> QED BY <1>1, <2>1, <2>2 DEF Inv, RunInv
<1>5. CodeInv' BY <1>1 DEF Inv, CodeInv
<1>6. BundleInv' /\ InjectorInv' /\ HelpersInv' /\ SealInv'
  BY <1>1, <1>2 DEF Inv, BundleInv, InjectorInv, HelpersInv, SealInv
<1>7. TeeInv' BY <1>1 DEF Inv, TeeInv, CliComesBack, NoCli
<1>8. EnvironmentFindsInjector' /\ OnlyTheseRefuse'
  BY <1>1 DEF Inv, EnvironmentFindsInjector, OnlyTheseRefuse
<1> QED BY <1>3, <1>4, <1>5, <1>6, <1>7, <1>8 DEF Inv

-----------------------------------------------------------------------------
LEMMA InitInv == Init => Inv
<1> SUFFICES ASSUME Init PROVE Inv
  OBVIOUS
<1>1. /\ RunInit /\ InjectorInit /\ TrustInit /\ cli \in {NoCli, VendorCli}
      /\ main = "vendor" /\ real = FALSE /\ launch = "none" /\ kept = "whole"
      /\ profile = "vendor" /\ version = 1 /\ wrapper = "none" /\ record = 0
      /\ keychain = "app" /\ assets \in BOOLEAN /\ trusted = TRUE /\ changes = 0
  BY DEF Init
<1>2. RunTypeOK
  <2>1. /\ policy \in Policies /\ plan = "none" /\ step = "idle" /\ outcome = "none"
        /\ migrate = FALSE /\ seal \in [Code -> Signers]
    BY <1>1, VendorSealed DEF RunInit
  <2>2. runs \in 0..MaxRuns /\ faults \in 0..MaxFaults /\ crashes \in 0..MaxCrashes
    BY <1>1, PatchRunAssumption DEF RunInit
  <2> QED BY <2>1, <2>2 DEF RunTypeOK, Plans
<1>3. TypeOK
  <2>1. InjectorTypeOK BY <1>1 DEF InjectorInit, InjectorTypeOK
  <2>2. TrustTypeOK BY <1>1 DEF TrustInit, TrustTypeOK
  <2>3. CliTypeOK
    <3> DEFINE T == [shim : {"none", "vendor", "torn", "tee"}, real : BOOLEAN, signed : BOOLEAN]
    <3>1. NoCli \in T BY DEF NoCli
    <3>2. VendorCli \in T BY DEF VendorCli
    <3> QED BY <1>1, <3>1, <3>2 DEF CliTypeOK
  <2>4. changes \in 0..MaxChanges BY <1>1, PatchRunAssumption
  <2>5. real \in BOOLEAN /\ trusted \in BOOLEAN BY <1>1, Zenon
  <2>6. version \in Nat \ {0} /\ record \in 0..version BY <1>1
  <2> QED BY <1>1, <1>2, <2>1, <2>2, <2>3, <2>4, <2>5, <2>6 DEF TypeOK
<1>4. Done = {} BY <1>1 DEF RunInit, Done
<1>5. RunInv BY <1>1 DEF RunInit, RunInv
<1>6. CodeInv BY <1>1, VendorSealed DEF RunInit, CodeInv
<1>7. BundleInv /\ InjectorInv /\ HelpersInv /\ SealInv
  BY <1>4 DEF BundleInv, InjectorInv, HelpersInv, SealInv
<1>8. TeeInv BY <1>1 DEF RunInit, TeeInv, CliComesBack, VendorCli
<1>9. EnvironmentFindsInjector BY <1>1 DEF InjectorInit, EnvironmentFindsInjector
<1>10. OnlyTheseRefuse BY <1>1 DEF RunInit, OnlyTheseRefuse
<1> QED BY <1>3, <1>5, <1>6, <1>7, <1>8, <1>9, <1>10 DEF Inv

LEMMA NextInv == Inv /\ [Next]_vars => Inv'
<1> SUFFICES ASSUME Inv, [Next]_vars PROVE Inv'
  OBVIOUS
<1>1. CASE Start
  BY <1>1, TurnAwayKeeps, PatchKeeps, KeychainMigrateKeeps DEF Start
<1>2. CASE PatchBundle
  BY <1>2, StagePreservedKeeps, WriteEntitlementsKeeps, StepMoveToRealKeeps,
     PreLaunchPolicyHookKeeps, InstallShimKeeps, InstallLaunchPolicyKeeps, RestorePreservedKeeps,
     RemoveProfileKeeps, EmbedProfileKeeps, SealStandardKeeps, SealDevelopmentKeeps, VerifyKeeps,
     WriteStateKeeps, RegrantItemsKeeps DEF PatchBundle
<1>3. CASE InjectorNext /\ UNCHANGED <<trust, cli, bundle, outside, world>>
  BY <1>3, WriteInjectorPolicyKeeps, StageInjectorKeeps, SmokeTestInjectorKeeps,
     InstallInjectorKeeps, SetInjectorEnvironmentKeeps DEF InjectorNext
<1>4. CASE ComputerUseNext /\ UNCHANGED <<injector, cli, bundle, outside, world>>
  BY <1>4, MutateBundledComputerUseKeeps, RepairInstalledKeeps, RepairCachedKeeps,
     StageAuthPluginKeeps, InstallAuthPluginKeeps, VerifyBundledComputerUseKeeps
     DEF ComputerUseNext
<1>5. CASE CliTeeNext /\ UNCHANGED <<injector, trust, bundle, outside, world>>
  BY <1>5, SkipInstallKeeps, DeferInstallKeeps, MoveCliKeeps, WriteTeeKeeps, SignTeeKeeps
     DEF CliTeeNext
<1>6. CASE Update \/ Launch \/ UpdateCli \/ ChangeSetup
  BY <1>6, UpdateKeeps, LaunchKeeps, UpdateCliKeeps, ChangeSetupKeeps
<1>7. CASE UNCHANGED vars BY <1>7, StutterKeeps
<1> QED BY <1>1, <1>2, <1>3, <1>4, <1>5, <1>6, <1>7 DEF Next, Extend

LEMMA Invariance == Spec => []Inv
BY InitInv, NextInv, PTL DEF Spec

-----------------------------------------------------------------------------
\* A patch that ended well has all the steps of its plan behind it.
LEMMA AllDone ==
  ASSUME Inv, Patched
  PROVE  /\ {"unembed", "embed"} \intersect Done =
              {IF plan = "development" THEN "embed" ELSE "unembed"}
         /\ "record" \in Done /\ "seal" \in Done
         /\ plan = "standard" => {"move", "shim", "launch"} \subseteq Done
         /\ plan = "standard" /\ policy = "development" => "wrapper" \in Done
         /\ policy = "inject" \/ plan = "development" => {"policy", "install", "env"} \subseteq Done
         /\ policy = "development" =>
              {"extend", "installed", "cached", "pluginCopy"} \subseteq Done
<1>1. outcome = "ok" /\ plan \in {"standard", "development"} BY DEF Patched
<1>2. \A u \in Steps : Place(plan, u) > 0 /\ Applies(u, plan, migrate) <=> u \in Done
  BY <1>1 DEF Done
<1> QED BY <1>1, <1>2, StepNames DEF Applies, Place, StandardPlace, DevelopmentPlace

\* Every variable of a patch and its extensions keeps its type: the step is one of the
\* plan's, whatever patches of either strategy, failures and crashes came before.
THEOREM TypeCorrect == Spec => []TypeOK
BY Invariance, PTL DEF Inv

\* stepMoveToReal never loses the vendor's executable, for any number of patches.
THEOREM VendorBinaryStays == Spec => []VendorBinaryKept
<1>1. Inv => VendorBinaryKept BY DEF Inv, CodeInv, VendorBinaryKept
<1> QED BY <1>1, Invariance, PTL

\* A check of a patch says no only in the cases named, so that what an interrupted
\* patch left never makes the next one refuse.
THEOREM RefusalsAreNamed == Spec => []OnlyTheseRefuse
BY Invariance, PTL DEF Inv

\* A patch that reports success has finished what its own plan installs, whatever patches
\* of either strategy had been cut short before it.
THEOREM SuccessIsFinished == Spec => []SuccessFinishesItsPlan
<1>1. ASSUME Inv, Patched
      PROVE  /\ seal["app"] = (IF plan = "development" THEN "development" ELSE "local")
             /\ \A c \in Code : seal[c] # "stale"
             /\ record = version
             /\ profile = (IF plan = "development" THEN "development" ELSE "none")
             /\ main \in {"vendor", "shim"} /\ (main = "shim" => real)
             /\ plan = "standard" => main = "shim" /\ launch = "whole"
             /\ plan = "standard" /\ policy = "development" => wrapper = "whole"
             /\ policy = "inject" \/ plan = "development" =>
                  env = "set" /\ dylib = "tested" /\ policyFile = "whole"
  <2>1. plan \in {"standard", "development"} BY <1>1 DEF Patched
  <2>2. seal["app"] = (IF plan = "development" THEN "development" ELSE "local")
        /\ \A c \in Code : seal[c] # "stale"
    BY <1>1, <2>1, AllDone DEF Inv, SealInv
  <2>3. record = version /\ profile = (IF plan = "development" THEN "development" ELSE "none")
    BY <1>1, <2>1, AllDone DEF Inv, BundleInv
  <2>4. /\ plan = "standard" => main = "shim" /\ launch = "whole"
        /\ plan = "standard" /\ policy = "development" => wrapper = "whole"
    BY <1>1, AllDone DEF Inv, BundleInv
  <2>5. policy = "inject" \/ plan = "development" =>
          env = "set" /\ dylib = "tested" /\ policyFile = "whole"
    BY <1>1, AllDone DEF Inv, InjectorInv
  <2>6. main \in {"vendor", "shim"}
    <3>1. plan = "development" => main \notin {"none", "torn"} BY <1>1, AllDone DEF Inv, SealInv
    <3> QED BY <1>1, <2>1, <2>4, <3>1 DEF Inv, TypeOK
  <2>7. main = "shim" => real BY <1>1 DEF Inv, CodeInv
  <2> QED BY <2>2, <2>3, <2>4, <2>5, <2>6, <2>7
<1>2. Inv => SuccessFinishesItsPlan BY <1>1 DEF SuccessFinishesItsPlan
<1> QED BY <1>2, Invariance, PTL

\* After a patch that reports success every copy of the helper trusts the local team.
THEOREM HelpersAreLocal == Spec => []HelpersTrustLocal
<1>1. Inv => HelpersTrustLocal
  BY AllDone DEF Inv, HelpersInv, HelpersTrustLocal, Helpers
<1> QED BY <1>1, Invariance, PTL

\* LSEnvironment never names an injector or a policy that is not there.
THEOREM InjectorIsFound == Spec => []EnvironmentFindsInjector
BY Invariance, PTL DEF Inv

\* An install of the tee that fails puts the vendor's CLI back.
THEOREM CliIsRestored == Spec => []CliComesBack
BY Invariance, PTL DEF Inv, TeeInv

\* RegrantItems touches the keychain only under the signature the app will have.
THEOREM KeychainIsLast == Spec => KeychainTouchedLast
<1>1. ASSUME Inv, Next, keychain' # keychain
      PROVE  plan = "keychain" \/ (record = version /\ seal["app"] \in {"local", "development"})
  <2>1. RegrantItems
    BY <1>1 DEF Next, Start, TurnAway, Patch, KeychainMigrate, Begin, PatchBundle, StagePreserved,
       WriteEntitlements, StepMoveToReal, PreLaunchPolicyHook, InstallShim, InstallLaunchPolicy,
       RestorePreserved, RemoveProfile, EmbedProfile, SealStandard, SealDevelopment, Verify,
       WriteState, Extend, Update, Launch, UpdateCli, ChangeSetup, Between, outside
  <2>2. step = "regrant" /\ plan \in Runs /\ Place(plan, "regrant") > 0
    BY <1>1, <2>1, StepNames DEF RegrantItems, At, Inv, RunInv
  <2>3. CASE plan = "standard" \/ plan = "development"
    <3>1. "record" \in Done /\ "seal" \in Done
      BY <2>2, <2>3, StepNames DEF Done, Applies, Place, StandardPlace, DevelopmentPlace
    <3> QED BY <1>1, <2>3, <3>1 DEF Inv, BundleInv, SealInv
  <2> QED BY <2>2, <2>3 DEF Runs
<1>2. Inv /\ [Next]_vars =>
        (keychain' # keychain =>
           plan = "keychain" \/ (record = version /\ seal["app"] \in {"local", "development"}))
  BY <1>1 DEF vars, outside
<1>3. Inv /\ [Next]_vars =>
        [keychain' # keychain =>
           plan = "keychain" \/ (record = version /\ seal["app"] \in {"local", "development"})]_vars
  BY <1>2
<1> QED BY <1>3, Invariance, PTL DEF Spec, KeychainTouchedLast
=============================================================================
