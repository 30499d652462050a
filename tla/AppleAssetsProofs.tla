------------------------- MODULE AppleAssetsProofs -------------------------
(* What generations of development assets guarantee for any number of runs,    *)
(* certificates, failures, crashes and losses.                                 *)
EXTENDS AppleAssets, TLAPS

Generating == {"device", "bundleId", "certificate", "mint", "password", "p12", "serial",
               "profile", "download"}
Keys == [cert : Numbers, password : Numbers]

TeamTypes ==
  /\ created \in [Kinds -> 0..1]
  /\ minted \in 0..MaxCerts
  /\ \A c \in certs : c \in 1..minted
  /\ listed \in Numbers

FileTypes ==
  /\ password \in Numbers /\ serial \in Numbers /\ profile \in Numbers
  /\ p12 \in Keys

RunTypes ==
  /\ pc \in Generating \union {"idle"}
  /\ cert \in 0..minted
  /\ reused \in BOOLEAN
  /\ outcome \in {"none", "ok", "error", "killed"}
  /\ losses \in Nat /\ faults \in Nat

Types == TeamTypes /\ FileTypes /\ RunTypes

\* A generation in progress has no result yet, and a certificate once it needs one.
InProgress ==
  /\ pc # "idle" => outcome = "none"
  /\ pc \in {"password", "p12", "serial", "profile", "download"} => cert \in 1..minted
  /\ pc = "download" => created["profile"] = 1
  /\ reused => pc \in {"idle", "profile", "download"}

\* A profile lists the certificate it was created for.
ProfileLists == created["profile"] = 0 <=> listed = Absent

\* The files a generation has written so far are those of its own certificate.
Fits ==
  /\ pc = "p12" => password = cert
  /\ pc = "serial" => p12 = [cert |-> cert, password |-> password] /\ password = cert
  /\ pc \in {"profile", "download"} \/ outcome = "ok" =>
       serial = cert /\ (~reused => p12 = [cert |-> cert, password |-> password])

\* While nothing was lost, the first serial on record ends the minting: its certificate
\* resolves and its key opens, so every later generation reuses it, and a profile is
\* created for no other.
NothingLost ==
  losses = 0 =>
    /\ \A c \in 1..minted : c \in certs
    /\ serial # Absent =>
         /\ serial \in certs /\ password # Absent
         /\ p12 = [cert |-> serial, password |-> password]
    /\ pc # "mint"
    /\ pc \in {"password", "p12", "serial"} => serial = Absent
    /\ listed # Absent => serial = listed
    /\ outcome = "ok" => profile = serial /\ serial # Absent

Inv == Types /\ InProgress /\ ProfileLists /\ Fits /\ NothingLost

-----------------------------------------------------------------------------
LEMMA Bounds == MaxCerts \in Nat /\ MaxLosses \in Nat /\ MaxFaults \in Nat
BY AppleAssetsAssumption

LEMMA InitInv ==
  ASSUME Init
  PROVE  Inv
<1> USE Bounds DEF Init
<1>1. Types
  <2>1. TeamTypes
    BY DEF Types, TeamTypes, RunTypes, Generating, Keys, Kinds, Numbers, Absent, NoKey
  <2>2. FileTypes
    BY DEF Types, FileTypes, RunTypes, Generating, Keys, Kinds, Numbers, Absent, NoKey
  <2>3. RunTypes
    <3>1. reused \in BOOLEAN
      BY DEF Types, RunTypes
    <3>2. pc \in Generating \union {"idle"} /\ outcome \in {"none", "ok", "error", "killed"}
      BY DEF Types, RunTypes, Generating
    <3>3. cert \in 0..minted /\ losses \in Nat /\ faults \in Nat
      BY DEF Types, TeamTypes, FileTypes, RunTypes, Generating, Keys, Kinds, Numbers, Absent, NoKey
    <3> QED
      BY <3>1, <3>2, <3>3 DEF RunTypes
  <2> QED
    BY <2>1, <2>2, <2>3 DEF Types
<1>2. InProgress
  BY DEF Types, TeamTypes, FileTypes, RunTypes, Generating, InProgress, Absent
<1>3. ProfileLists
  BY DEF Types, TeamTypes, FileTypes, RunTypes, InProgress, ProfileLists, Kinds, Absent
<1>4. Fits
  BY DEF Types, TeamTypes, FileTypes, RunTypes, InProgress, Fits, Absent
<1>5. NothingLost
  BY DEF Types, TeamTypes, FileTypes, RunTypes, InProgress, Fits, NothingLost, Absent, NoKey
<1> QED
  BY <1>1, <1>2, <1>3, <1>4, <1>5 DEF Inv

LEMMA StutterInv ==
  ASSUME Inv, UNCHANGED vars
  PROVE  Inv'
BY
   DEF Inv, vars, team, files, locals, budget, Types, TeamTypes, FileTypes, RunTypes, InProgress,
       ProfileLists, Fits, NothingLost

LEMMA WarnInv ==
  ASSUME Inv, Warn
  PROVE  Inv'
<1> USE Bounds DEF Inv, Warn, team, files, budget
<1>1. Types'
  <2>1. TeamTypes'
    BY DEF Types, TeamTypes, RunTypes, Generating, Absent
  <2>2. FileTypes'
    BY DEF Types, FileTypes, RunTypes, Generating, Absent
  <2>3. RunTypes'
    <3>1. reused' \in BOOLEAN
      BY DEF Types, RunTypes
    <3>2. pc' \in Generating \union {"idle"} /\ outcome' \in {"none", "ok", "error", "killed"}
      BY DEF Types, RunTypes, Generating
    <3>3. cert' \in 0..minted' /\ losses' \in Nat /\ faults' \in Nat
      BY DEF Types, TeamTypes, FileTypes, RunTypes, Generating, Absent
    <3> QED
      BY <3>1, <3>2, <3>3 DEF RunTypes
  <2> QED
    BY <2>1, <2>2, <2>3 DEF Types
<1>2. InProgress'
  BY DEF Types, TeamTypes, FileTypes, RunTypes, Generating, InProgress, Absent
<1>3. ProfileLists'
  BY DEF Types, TeamTypes, FileTypes, RunTypes, InProgress, ProfileLists, Absent
<1>4. Fits'
  BY DEF Types, TeamTypes, FileTypes, RunTypes, InProgress, Fits, Absent
<1>5. NothingLost'
  BY DEF Types, TeamTypes, FileTypes, RunTypes, InProgress, Fits, NothingLost, Absent, NoKey
<1> QED
  BY <1>1, <1>2, <1>3, <1>4, <1>5 DEF Inv

LEMMA EnsureDeviceInv ==
  ASSUME Inv, EnsureDevelopmentDevice
  PROVE  Inv'
BY Bounds
   DEF Inv, EnsureDevelopmentDevice, Ensure, Created, Goto, Fault, Return, files, locals, budget,
       Types, TeamTypes, FileTypes, RunTypes, Kinds, Generating, InProgress, ProfileLists, Fits,
       NothingLost

LEMMA EnsureBundleIDInv ==
  ASSUME Inv, EnsureBundleID
  PROVE  Inv'
BY Bounds
   DEF Inv, EnsureBundleID, Ensure, Created, Goto, Fault, Return, files, locals, budget,
       Types, TeamTypes, FileTypes, RunTypes, Kinds, Generating, InProgress, ProfileLists, Fits,
       NothingLost

LEMMA FindCertificateInv ==
  ASSUME Inv, FindDevelopmentCertificate
  PROVE  Inv'
<1> USE Bounds
   DEF Inv, FindDevelopmentCertificate, Recorded, Goto, Fault, Return, team, files, locals, budget
<1>1. Types'
  <2>1. TeamTypes'
    BY DEF Types, TeamTypes, RunTypes, Generating, InProgress, Absent
  <2>2. FileTypes'
    BY DEF Types, FileTypes, RunTypes, Generating, InProgress, Absent
  <2>3. RunTypes'
    <3>1. reused' \in BOOLEAN
      BY DEF Types, RunTypes
    <3>2. pc' \in Generating \union {"idle"} /\ outcome' \in {"none", "ok", "error", "killed"}
      BY DEF Types, RunTypes, Generating
    <3>3. cert' \in 0..minted' /\ losses' \in Nat /\ faults' \in Nat
      BY DEF Types, TeamTypes, FileTypes, RunTypes, Generating, InProgress, Absent
    <3> QED
      BY <3>1, <3>2, <3>3 DEF RunTypes
  <2> QED
    BY <2>1, <2>2, <2>3 DEF Types
<1>2. InProgress'
  BY DEF Types, TeamTypes, FileTypes, RunTypes, Generating, InProgress, Absent
<1>3. ProfileLists'
  BY DEF Types, TeamTypes, FileTypes, RunTypes, InProgress, ProfileLists, Absent
<1>4. Fits'
  BY DEF Types, TeamTypes, FileTypes, RunTypes, InProgress, Fits, Absent
<1>5. NothingLost'
  BY DEF Types, TeamTypes, FileTypes, RunTypes, InProgress, Fits, NothingLost, Absent, NoKey
<1> QED
  BY <1>1, <1>2, <1>3, <1>4, <1>5 DEF Inv

LEMMA CreateCertificateInv ==
  ASSUME Inv, CreateDevelopmentCertificate
  PROVE  Inv'
<1> USE Bounds
   DEF Inv, CreateDevelopmentCertificate, Recorded, Goto, Fault, Return, files, locals, budget
<1>1. Types'
  <2>1. TeamTypes'
    BY DEF Types, TeamTypes, RunTypes, Generating, InProgress
  <2>2. FileTypes'
    BY DEF Types, FileTypes, RunTypes, Generating, InProgress
  <2>3. RunTypes'
    BY DEF Types, TeamTypes, FileTypes, RunTypes, Generating, InProgress
  <2> QED
    BY <2>1, <2>2, <2>3 DEF Types
<1>2. InProgress'
  BY DEF Types, TeamTypes, FileTypes, RunTypes, Generating, InProgress, Absent
<1>3. ProfileLists'
  BY DEF Types, TeamTypes, FileTypes, RunTypes, InProgress, ProfileLists, Absent
<1>4. Fits'
  BY DEF Types, TeamTypes, FileTypes, RunTypes, InProgress, Fits, Absent
<1>5. NothingLost'
  BY DEF Types, TeamTypes, FileTypes, RunTypes, InProgress, Fits, NothingLost, Absent, NoKey
<1> QED
  BY <1>1, <1>2, <1>3, <1>4, <1>5 DEF Inv

LEMMA WritePasswordInv ==
  ASSUME Inv, WritePassword
  PROVE  Inv'
BY Bounds
   DEF Inv, WritePassword, Goto, Fault, Return, team, locals, budget,
       Types, TeamTypes, FileTypes, RunTypes, Generating, Numbers, Torn, InProgress, ProfileLists,
       Fits, NothingLost, Absent

LEMMA ExportP12Inv ==
  ASSUME Inv, ExportP12
  PROVE  Inv'
<1> USE Bounds DEF Inv, ExportP12, Goto, Fault, Return, team, locals, budget
<1>1. Types'
  <2>1. TeamTypes'
    BY DEF Types, TeamTypes, RunTypes, Generating, Keys, Numbers, Torn, TornKey, InProgress
  <2>2. FileTypes'
    <3>1. p12' \in Keys
      BY
         DEF Types, TeamTypes, FileTypes, RunTypes, Generating, Keys, Numbers, Torn, TornKey,
             InProgress
    <3> QED
      BY <3>1 DEF Types, FileTypes
  <2>3. RunTypes'
    BY
       DEF Types, TeamTypes, FileTypes, RunTypes, Generating, Keys, Numbers, Torn, TornKey,
           InProgress
  <2> QED
    BY <2>1, <2>2, <2>3 DEF Types
<1>2. InProgress'
  BY DEF Types, TeamTypes, FileTypes, RunTypes, Generating, InProgress, Absent
<1>3. ProfileLists'
  BY DEF Types, TeamTypes, FileTypes, RunTypes, InProgress, ProfileLists, Absent
<1>4. Fits'
  BY DEF Types, TeamTypes, FileTypes, RunTypes, InProgress, Fits, Absent
<1>5. NothingLost'
  BY DEF Types, TeamTypes, FileTypes, RunTypes, InProgress, Fits, NothingLost, Absent, NoKey
<1> QED
  BY <1>1, <1>2, <1>3, <1>4, <1>5 DEF Inv

LEMMA RecordSerialInv ==
  ASSUME Inv, RecordSerial
  PROVE  Inv'
BY Bounds
   DEF Inv, RecordSerial, Goto, Fault, Return, team, locals, budget,
       Types, TeamTypes, FileTypes, RunTypes, Generating, Numbers, InProgress, ProfileLists, Fits,
       NothingLost, Absent

LEMMA EnsureProfileInv ==
  ASSUME Inv, EnsureDevelopmentProfile
  PROVE  Inv'
BY Bounds
   DEF Inv, EnsureDevelopmentProfile, Ensure, Created, Goto, Fault, Return, files, locals, budget,
       Types, TeamTypes, FileTypes, RunTypes, Kinds, Generating, Numbers, InProgress, ProfileLists,
       Fits, NothingLost, Absent

LEMMA DownloadProfileInv ==
  ASSUME Inv, DownloadProfile
  PROVE  Inv'
BY Bounds
   DEF Inv, DownloadProfile, Goto, Fault, Return, team, locals, budget,
       Types, TeamTypes, FileTypes, RunTypes, Kinds, Generating, Numbers, Torn, InProgress,
       ProfileLists, Fits, NothingLost, Absent

LEMMA CrashInv ==
  ASSUME Inv, Crash
  PROVE  Inv'
BY DEF Inv, Crash, Return, team, files, locals,
       Types, TeamTypes, FileTypes, RunTypes, Generating, InProgress, ProfileLists, Fits,
       NothingLost

LEMMA LoseInv ==
  ASSUME Inv, Lose
  PROVE  Inv'
BY Bounds
   DEF Inv, Lose, team, locals,
       Types, TeamTypes, FileTypes, RunTypes, Generating, Keys, Numbers, Absent, NoKey, InProgress,
       ProfileLists, Fits, NothingLost

LEMMA RevokeInv ==
  ASSUME Inv, Revoke
  PROVE  Inv'
BY Bounds
   DEF Inv, Revoke, files, locals, Types, TeamTypes, FileTypes, RunTypes, InProgress, ProfileLists,
       Fits, NothingLost

\* The invariant holds whenever anyone looks at the keychain, the portal or the profile.
THEOREM Invariance == Spec => []Inv
<1>1. Inv /\ [Next]_vars => Inv'
  BY StutterInv, WarnInv, EnsureDeviceInv, EnsureBundleIDInv, FindCertificateInv,
     CreateCertificateInv, WritePasswordInv, ExportP12Inv, RecordSerialInv, EnsureProfileInv,
     DownloadProfileInv, CrashInv, LoseInv, RevokeInv
     DEF Next, Generate
<1> QED
  BY InitInv, <1>1, PTL DEF Spec

-----------------------------------------------------------------------------
\* A generation that reports success has left files that fit together, and as long as
\* nothing was lost its profile lists the key's certificate (GenerateDevelopmentAssets).
THEOREM SuccessFits == Spec => []AssetsFitTogether
<1>1. Inv => AssetsFitTogether
  BY DEF Inv, Types, TeamTypes, FileTypes, RunTypes, Fits, NothingLost, AssetsFitTogether
<1> QED
  BY Invariance, <1>1, PTL

\* As long as no file was deleted and no certificate revoked, a recorded certificate is
\* never replaced: later generations reuse it (ensureCertificate).
THEOREM NoSecondCertificate == Spec => CertificateIsKept
<1>1. Inv /\ [Next]_vars => [losses' = 0 /\ serial # Absent => serial' = serial /\ minted' = minted]_vars
  <2> SUFFICES ASSUME Inv, Next, losses' = 0, serial # Absent
               PROVE  serial' = serial /\ minted' = minted
    BY DEF Inv
  <2>1. losses = 0
    BY Bounds
       DEF Inv, Types, TeamTypes, FileTypes, RunTypes, Next, Generate, Warn, Crash, Lose, Revoke,
           EnsureDevelopmentDevice, EnsureBundleID,
           FindDevelopmentCertificate, CreateDevelopmentCertificate, WritePassword, ExportP12,
           RecordSerial, EnsureDevelopmentProfile, DownloadProfile, budget
  <2>2. pc \notin {"mint", "password", "p12", "serial"} /\ (pc = "certificate" => Recorded)
    BY <2>1 DEF Inv, Types, TeamTypes, FileTypes, RunTypes, NothingLost, Recorded, NoKey, Absent
  <2> QED
    BY <2>1, <2>2, Bounds
       DEF Inv, Types, TeamTypes, FileTypes, RunTypes, Next, Generate, Warn, Crash, Lose, Revoke,
           EnsureDevelopmentDevice, EnsureBundleID,
           FindDevelopmentCertificate, CreateDevelopmentCertificate, WritePassword, ExportP12,
           RecordSerial, EnsureDevelopmentProfile, DownloadProfile, team, files
<1> QED
  BY Invariance, <1>1, PTL DEF Spec, CertificateIsKept
=============================================================================
