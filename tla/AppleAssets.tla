---------------------------- MODULE AppleAssets ----------------------------
(* internal/appleportal: GenerateDevelopmentAssets, which the patch of a       *)
(* development-signed target runs when one of its signing files is missing. It *)
(* keeps four files on disk in step with the resources of an App Store Connect *)
(* team, over requests that fail with or without effect, crashes, files that   *)
(* are deleted and certificates that are revoked.                              *)
EXTENDS Naturals, FiniteSets

CONSTANTS
  MaxCerts,   \* bound: certificates minted
  MaxRuns,    \* bound: generations started
  MaxFaults,  \* bound: requests, commands and writes that fail
  MaxCrashes, \* bound: generations killed half-way
  MaxLosses   \* bound: files deleted and certificates revoked

ASSUME AppleAssetsAssumption ==
  {MaxCerts, MaxRuns, MaxFaults, MaxCrashes, MaxLosses} \subseteq Nat

VARIABLES
  created,  \* the team's device, App ID and profile resources: how many of each
  certs,    \* the certificates that still resolve
  minted,   \* the last certificate created, which numbers its password too
  listed,   \* the certificate the profile was created for
  password, p12, serial, profile,  \* the files under dev-signing
  pc, cert, reused, outcome, runs, faults, crashes, losses

team == <<created, certs, minted, listed>>
files == <<password, p12, serial, profile>>
locals == <<cert, reused>>
budget == <<crashes, losses>>
vars == <<team, files, pc, locals, outcome, runs, faults, budget>>

Kinds == {"device", "bundleId", "profile"}
Absent == 0
Torn == MaxCerts + 1  \* a file that is there and of no use
Numbers == 0..MaxCerts + 1
NoKey == [cert |-> Absent, password |-> Absent]
TornKey == [cert |-> Torn, password |-> Torn]

Init ==
  /\ created = [k \in Kinds |-> 0]
  /\ certs = {} /\ minted = 0 /\ listed = Absent
  /\ password = Absent /\ p12 = NoKey /\ serial = Absent /\ profile = Absent
  /\ pc = "idle" /\ cert = Absent /\ reused = FALSE /\ outcome = "none"
  /\ runs = 0 /\ faults = 0 /\ crashes = 0 /\ losses = 0

-----------------------------------------------------------------------------
Goto(step) == pc' = step /\ UNCHANGED <<outcome, faults>>
Return(result) == pc' = "idle" /\ outcome' = result
Fault == faults < MaxFaults /\ faults' = faults + 1 /\ Return("error")

\* devsign.MissingAssets over the three paths of the policy.
MissingAssets == password = Absent \/ p12 = NoKey \/ profile = Absent

\* devpreflight.Warn with credentials and auto_generate.
Warn ==
  /\ pc = "idle"
  /\ runs < MaxRuns
  /\ MissingAssets
  /\ runs' = runs + 1
  /\ pc' = "device" /\ outcome' = "none"
  /\ cert' = Absent /\ reused' = FALSE
  /\ UNCHANGED <<team, files, faults, budget>>

\* A POST creates its resource; it may fail after the resource was created.
Created(k) == created' = [created EXCEPT ![k] = @ + 1]

\* Find by UDID, identifier or name; create what is not found.
Ensure(k, next) ==
  \/ created[k] > 0 /\ UNCHANGED created /\ (Goto(next) \/ Fault)
  \/ created[k] = 0 /\ Created(k) /\ (Goto(next) \/ Fault)
  \/ created[k] = 0 /\ UNCHANGED created /\ Fault

EnsureDevelopmentDevice ==
  /\ pc = "device"
  /\ Ensure("device", "bundleId")
  /\ UNCHANGED <<certs, minted, listed, files, locals, runs, budget>>

EnsureBundleID ==
  /\ pc = "bundleId"
  /\ Ensure("bundleId", "certificate")
  /\ UNCHANGED <<certs, minted, listed, files, locals, runs, budget>>

-----------------------------------------------------------------------------
\* ensureCertificate, as far as the certificate.
Recorded == serial # Absent /\ p12 # NoKey /\ password # Absent

FindDevelopmentCertificate ==
  /\ pc = "certificate"
  /\ Recorded
  /\ \/ serial \in certs /\ cert' = serial /\ reused' = TRUE /\ Goto("profile")
     \/ serial \notin certs /\ Goto("mint") /\ UNCHANGED locals
     \/ Fault /\ UNCHANGED locals
  /\ UNCHANGED <<team, files, runs, budget>>

\* Mutant: the serial is recorded with the certificate, before its key is on disk.
Create_RecordsFirst ==
  /\ \/ pc = "mint"
     \/ pc = "certificate" /\ ~Recorded
  /\ minted < MaxCerts
  /\ minted' = minted + 1 /\ certs' = certs \union {minted'}
  /\ cert' = minted' /\ serial' = minted' /\ Goto("password")
  /\ UNCHANGED <<created, listed, password, p12, profile, reused, runs, budget>>

CreateDevelopmentCertificate ==
  /\ \/ pc = "mint"
     \/ pc = "certificate" /\ ~Recorded
  /\ minted < MaxCerts
  /\ \/ /\ minted' = minted + 1 /\ certs' = certs \union {minted'}
        /\ \/ cert' = minted' /\ Goto("password")
           \/ Fault /\ UNCHANGED cert
     \/ Fault /\ UNCHANGED <<minted, certs, cert>>
  /\ UNCHANGED <<created, listed, files, reused, runs, budget>>

\* writeLeafP12: a new password, in place of the old one.
WritePassword ==
  /\ pc = "password"
  /\ \/ password' = cert /\ Goto("p12")
     \/ Fault /\ password' \in {password, Torn}
  /\ UNCHANGED <<team, p12, serial, profile, locals, runs, budget>>

\* Mutant: the key is wrapped with the password of an earlier run.
ExportP12_OldPassword ==
  /\ pc = "p12"
  /\ p12' = [cert |-> cert, password |-> IF serial = Absent THEN password ELSE serial]
  /\ Goto("serial")
  /\ UNCHANGED <<team, password, serial, profile, locals, runs, budget>>

\* writeLeafP12: openssl reads the password from its file.
ExportP12 ==
  /\ pc = "p12"
  /\ \/ p12' = [cert |-> cert, password |-> password] /\ Goto("serial")
     \/ Fault /\ p12' \in {p12, TornKey}
  /\ UNCHANGED <<team, password, serial, profile, locals, runs, budget>>

\* Mutant: the next run cannot tell which certificate the key belongs to.
RecordSerial_Never ==
  /\ pc = "serial"
  /\ Goto("profile")
  /\ UNCHANGED <<team, files, locals, runs, budget>>

\* ensureCertificate: the serial, for the next run.
RecordSerial ==
  /\ pc = "serial"
  /\ \/ serial' = cert /\ Goto("profile")
     \/ Fault /\ UNCHANGED serial
  /\ UNCHANGED <<team, password, p12, profile, locals, runs, budget>>

\* The profile is looked up by its name alone.
EnsureDevelopmentProfile ==
  /\ pc = "profile"
  /\ Ensure("profile", "download")
  /\ listed' = IF created'["profile"] > created["profile"] THEN cert ELSE listed
  /\ UNCHANGED <<certs, minted, files, locals, runs, budget>>

DownloadProfile ==
  /\ pc = "download"
  /\ \/ profile' = listed /\ Return("ok") /\ UNCHANGED faults
     \/ Fault /\ profile' \in {profile, Torn}
  /\ UNCHANGED <<team, password, p12, serial, locals, runs, budget>>

Generate ==
  \/ EnsureDevelopmentDevice \/ EnsureBundleID \/ FindDevelopmentCertificate
  \/ CreateDevelopmentCertificate \/ WritePassword \/ ExportP12 \/ RecordSerial
  \/ EnsureDevelopmentProfile \/ DownloadProfile

-----------------------------------------------------------------------------
\* The environment: the process dies, a file is deleted (the paths of the shipped
\* policy are under /tmp), a certificate is revoked.
Crash ==
  /\ pc # "idle"
  /\ crashes < MaxCrashes
  /\ crashes' = crashes + 1
  /\ Return("killed")
  /\ UNCHANGED <<team, files, locals, runs, faults, losses>>

Lose ==
  /\ pc = "idle"
  /\ losses < MaxLosses
  /\ losses' = losses + 1
  /\ \/ password # Absent /\ password' = Absent /\ UNCHANGED <<p12, serial, profile>>
     \/ p12 # NoKey /\ p12' = NoKey /\ UNCHANGED <<password, serial, profile>>
     \/ serial # Absent /\ serial' = Absent /\ UNCHANGED <<password, p12, profile>>
     \/ profile # Absent /\ profile' = Absent /\ UNCHANGED <<password, p12, serial>>
  /\ outcome' = "none"
  /\ UNCHANGED <<team, pc, locals, runs, faults, crashes>>

Revoke ==
  /\ losses < MaxLosses
  /\ losses' = losses + 1
  /\ \E c \in certs : certs' = certs \ {c}
  /\ outcome' = "none"
  /\ UNCHANGED <<created, minted, listed, files, pc, locals, runs, faults, crashes>>

Next == Warn \/ Generate \/ Crash \/ Lose \/ Revoke

Spec == Init /\ [][Next]_vars

-----------------------------------------------------------------------------
\* A generation that is retried does not mint a second certificate for a key that is
\* there: as long as nothing was deleted or revoked, the first serial on record stays,
\* and no certificate is created beside it, over failed requests, lost responses, failed
\* exports and kills at any step (the lookup and the record of ensureCertificate).
CertificateIsKept ==
  [][losses' = 0 /\ serial # Absent => serial' = serial /\ minted' = minted]_vars

\* What a successful generation leaves fits together. The key of a certificate it
\* minted opens with the password beside it and is the one its serial names,
\* whatever earlier runs, failures and deletions left there; and as long as nothing
\* was deleted or revoked, the profile lists the key's certificate, over every
\* retry of a generation that failed or was killed half-way. (After a loss it may
\* not: the profile is found by its name, and lists the certificate of before.)
AssetsFitTogether ==
  outcome = "ok" =>
    /\ ~reused => p12 = [cert |-> cert, password |-> password] /\ serial = cert
    /\ losses = 0 => profile = p12.cert /\ p12.password = password
=============================================================================
