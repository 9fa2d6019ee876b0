--------------------------- MODULE IdentityProofs ---------------------------
(***************************************************************************)
(* The key is replaced only where it was not read, and as long as that did *)
(* not happen and mgr_init was not repeated the certificate belongs to it, *)
(* for any number of keys, power cycles, failed saves and failed reads of  *)
(* the certificate.  With the hosts of Trust around it the device behaves  *)
(* the same, the two ends of a secured session derive its key from the     *)
(* same pairs, and a host presents one certificate, for any number of      *)
(* hosts and identities.                                                   *)
(***************************************************************************)
EXTENDS Trust, TLAPS

\* What is in memory once the settings are loaded: no key other than the stored
\* one if that was read, and a key is generated only when none was.
KeyInv ==
  /\ pc \in Pcs
  /\ flashKey # 0 /\ pc # "load" /\ unread # "now" => priv_raw = flashKey
  /\ pc = "save key" => flashKey = 0 \/ unread = "now"

\* As long as mgr_init was not repeated and the stored key was read.
Regular == again = "no" /\ unread = "no"

\* Memory then mirrors the settings at each step of mgr_init, but for a
\* certificate that was not read, and a stored certificate is the stored key's.
MirrorInv ==
  /\ pc \in Pcs
  /\ keys \in Nat
  /\ flashCert # 0 => flashCert = flashKey
  /\ first # 0 => first = flashKey
  /\ pc = "load" => priv_raw = 0 /\ cert_der = 0
  /\ pc = "ensure" => priv_raw = flashKey /\ cert_der \in {0, flashCert}
  /\ pc = "save key" => flashKey = 0 /\ priv_raw # 0
  /\ pc \in {"cert", "save cert", "ready", "running"} =>
       flashKey # 0 /\ identity_key = flashKey /\ priv_raw = flashKey
  /\ pc = "cert" => cert_der \in {0, flashCert}
  /\ pc = "save cert" => cert_der = identity_key
  /\ pc \in {"ready", "running"} => cert_der = identity_key /\ first # 0

\* Counting on from the keys generated so far.
LEMMA Succ == \A k \in Nat : /\ k + 1 \in Nat /\ k + 1 # 0 /\ k + 1 \in 0..(k + 1)
                             /\ 0 \in 0..k
                             /\ \A x \in 0..k : x \in 0..(k + 1)
OBVIOUS

\* Every value in memory or in the settings is one there was before, none, or the
\* key just generated.
LEMMA TypeStep == TypeOK /\ [Next]_vars => TypeOK'
<1> SUFFICES ASSUME TypeOK, [Next]_vars PROVE TypeOK'
  OBVIOUS
<1> DEFINE Drawn == 0..keys
<1>0. /\ pc \in Pcs /\ again \in {"no", "yes"} /\ unread \in {"no", "now", "before"} /\ keys \in Nat /\ boots \in Nat
      /\ flashKey \in Drawn /\ flashCert \in Drawn /\ priv_raw \in Drawn
      /\ cert_der \in Drawn /\ identity_key \in Drawn /\ first \in Drawn /\ 0 \in Drawn
  BY Succ DEF TypeOK
<1>1. ASSUME keys' = keys, boots' \in Nat, pc' \in Pcs, again' \in {"no", "yes"},
             unread' \in {"no", "now", "before"},
             flashKey' \in Drawn, flashCert' \in Drawn, priv_raw' \in Drawn,
             cert_der' \in Drawn, identity_key' \in Drawn, first' \in Drawn
      PROVE TypeOK'
  BY <1>0, <1>1 DEF TypeOK
<1>2. CASE Generate
  <2>1. keys' = keys + 1 /\ priv_raw' = keys + 1 /\ pc' = "save key"
    BY <1>2 DEF Generate
  <2>2. UNCHANGED <<flashKey, flashCert, cert_der, identity_key, boots, first, again, unread>>
    BY <1>2 DEF Generate, flash
  <2> QED
    BY <1>0, <2>1, <2>2, Succ DEF TypeOK, Pcs
<1> HIDE DEF Drawn
<1>3. CASE InitLoad \/ StartLoad
  BY <1>0, <1>1, <1>3 DEF InitLoad, StartLoad, Load, Loaded, flash, Pcs
<1>4. CASE Restore \/ SaveKey \/ SaveKeyFails \/ ImportFails \/ InitAgain
  BY <1>0, <1>1, <1>4 DEF Restore, SaveKey, SaveKeyFails, ImportFails, InitAgain, flash, ram, Pcs
<1>8. CASE EnsureFails \/ CertFails \/ PouchInitFails
  BY <1>0, <1>1, <1>8 DEF EnsureFails, CertFails, PouchInitFails, flash, ram, Pcs
<1>5. CASE PowerCycle
  BY <1>0, <1>1, <1>5, Succ DEF PowerCycle, flash, Pcs
<1>6. CASE CertRestored \/ CertBuild \/ SaveCert \/ SaveCertFails
  BY <1>0, <1>1, <1>6 DEF CertRestored, CertBuild, SaveCert, SaveCertFails, Ready, flash, ram, Pcs
<1>7. CASE UNCHANGED vars
  BY <1>0, <1>1, <1>7 DEF vars
<1> QED
  BY <1>2, <1>3, <1>4, <1>5, <1>6, <1>7, <1>8 DEF Next

\* Type correctness of the identity's state.
THEOREM TypeCorrect == Spec => []TypeOK
<1>1. Init => TypeOK
  BY DEF Init, TypeOK, Pcs
<1> QED
  BY <1>1, TypeStep, PTL DEF Spec

\* KeyInv is inductive: only SaveKey and ImportFails write the
\* key, and only from "save key".
LEMMA KeyStep ==
  KeyInv /\ [Next]_vars => KeyInv' /\ (flashKey # 0 /\ flashKey' # flashKey => unread = "now")
<1> SUFFICES ASSUME KeyInv, [Next]_vars
             PROVE KeyInv' /\ (flashKey # 0 /\ flashKey' # flashKey => unread = "now")
  OBVIOUS
<1> USE DEF KeyInv, Pcs, flash, ram, vars
<1>1. CASE InitLoad \/ StartLoad
  BY <1>1 DEF InitLoad, StartLoad, Load, Loaded
<1>2. CASE Restore \/ Generate \/ SaveKey \/ SaveKeyFails \/ InitAgain \/ PowerCycle
  BY <1>2 DEF Restore, Generate, SaveKey, SaveKeyFails, InitAgain, PowerCycle
<1>3. CASE CertRestored \/ CertBuild \/ SaveCert \/ SaveCertFails
  BY <1>3 DEF CertRestored, CertBuild, SaveCert, SaveCertFails, Ready
<1>4. CASE EnsureFails \/ ImportFails \/ CertFails \/ PouchInitFails
  BY <1>4 DEF EnsureFails, ImportFails, CertFails, PouchInitFails
<1>5. CASE UNCHANGED vars
  BY <1>5
<1> QED
  BY <1>1, <1>2, <1>3, <1>4, <1>5 DEF Next

\* A stored key is replaced only by an mgr_init that could not read it, with or
\* without retries of mgr_init.
THEOREM KeyNeverReplacedCorrect == Spec => KeyNeverReplaced
<1>1. Init => KeyInv
  BY DEF Init, KeyInv, Pcs
<1>2. KeyInv /\ [Next]_vars => [flashKey # 0 /\ flashKey' # flashKey => unread = "now"]_vars
  BY KeyStep
<1> QED
  BY <1>1, <1>2, KeyStep, PTL DEF Spec, KeyNeverReplaced

\* Only a repeated mgr_init and a stored key that was not read are recorded.
LEMMA RegularStep ==
  [Next]_vars /\ Regular' =>
    /\ Regular /\ ~InitAgain
    /\ InitLoad \/ StartLoad => priv_raw' = flashKey \/ flashKey = 0
<1> SUFFICES ASSUME [Next]_vars, Regular'
             PROVE /\ Regular /\ ~InitAgain
                   /\ InitLoad \/ StartLoad => priv_raw' = flashKey \/ flashKey = 0
  OBVIOUS
<1> USE DEF Regular
<1>1. ~InitAgain
  BY DEF InitAgain
<1>2. CASE InitLoad \/ StartLoad
  BY <1>1, <1>2 DEF InitLoad, StartLoad, Load
<1>3. CASE Restore \/ Generate \/ SaveKey \/ SaveKeyFails \/ PowerCycle
  BY <1>1, <1>3 DEF InitLoad, StartLoad, Restore, Generate, SaveKey, SaveKeyFails, PowerCycle
<1>4. CASE CertRestored \/ CertBuild \/ SaveCert \/ SaveCertFails
  BY <1>1, <1>4 DEF InitLoad, StartLoad, CertRestored, CertBuild, SaveCert, SaveCertFails
<1>5. CASE EnsureFails \/ ImportFails \/ CertFails \/ PouchInitFails
  BY <1>1, <1>5 DEF InitLoad, StartLoad, EnsureFails, ImportFails, CertFails, PouchInitFails, Ready
<1>6. CASE UNCHANGED vars
  BY <1>1, <1>6 DEF InitLoad, StartLoad, vars
<1> QED
  BY <1>1, <1>2, <1>3, <1>4, <1>5, <1>6 DEF Next

\* MirrorInv is inductive when mgr_init is not repeated and reads the stored key.
LEMMA MirrorStep ==
  ASSUME MirrorInv, [Next]_vars, ~InitAgain,
         InitLoad \/ StartLoad => priv_raw' = flashKey \/ flashKey = 0
  PROVE MirrorInv'
<1> USE DEF MirrorInv, Pcs, flash, ram, vars
<1>1. CASE InitLoad
  BY <1>1 DEF InitLoad, Load, Loaded
<1>2. CASE StartLoad
  BY <1>2 DEF StartLoad, Load, Loaded
<1>3. CASE Restore \/ SaveKeyFails
  BY <1>3 DEF Restore, SaveKeyFails
<1>9. CASE PowerCycle
  BY <1>9 DEF PowerCycle
<1>10. CASE Generate
  <2>2. keys' = keys + 1 /\ priv_raw' = keys + 1 /\ pc' = "save key" /\ pc = "ensure"
    BY <1>10 DEF Generate
  <2>3. UNCHANGED <<flashKey, flashCert, cert_der, identity_key, boots, first, again, unread>>
    BY <1>10 DEF Generate
  <2>4. flashKey = 0
    BY <1>10 DEF Generate
  <2> QED
    BY Succ, <2>2, <2>3, <2>4
<1>4. CASE SaveKey
  BY <1>4 DEF SaveKey
<1>5. CASE CertRestored
  BY <1>5 DEF CertRestored, Ready
<1>6. CASE CertBuild \/ SaveCertFails
  BY <1>6 DEF CertBuild, SaveCertFails
<1>7. CASE SaveCert
  BY <1>7 DEF SaveCert, Ready
<1>8. CASE UNCHANGED vars
  BY <1>8
<1>11. CASE EnsureFails \/ ImportFails \/ CertFails \/ PouchInitFails
  BY <1>11 DEF EnsureFails, ImportFails, CertFails, PouchInitFails
<1> QED
  BY <1>1, <1>2, <1>3, <1>4, <1>5, <1>6, <1>7, <1>8, <1>9, <1>10, <1>11 DEF Next

\* The initial state mirrors empty settings.
LEMMA MirrorInit == Init => MirrorInv
BY DEF Init, MirrorInv, Pcs

\* As long as mgr_init was not repeated and read the stored key, memory mirrors
\* the settings.
THEOREM Mirrors == Spec => [](Regular => MirrorInv)
<1>1. (Regular => MirrorInv) /\ [Next]_vars => (Regular => MirrorInv)'
  BY RegularStep, MirrorStep
<1> QED
  BY <1>1, MirrorInit, PTL DEF Spec

\* Unless mgr_init was repeated or did not read the stored key, the certificate
\* handed to pouch is that of its key; a certificate that was not read does no
\* harm.
THEOREM CertCorrect == Spec => []CertMatchesKey
<1>1. (Regular => MirrorInv) => CertMatchesKey
  BY DEF MirrorInv, Regular, CertMatchesKey
<1> QED
  BY <1>1, Mirrors, PTL

\* Unless mgr_init was repeated or did not read the stored key, a device keeps the
\* key it first came up with.
THEOREM KeyKept == Spec => []KeyIsKept
<1>1. (Regular => MirrorInv) => KeyIsKept
  BY DEF MirrorInv, Regular, KeyIsKept
<1> QED
  BY <1>1, Mirrors, PTL

-----------------------------------------------------------------------------
(* Trust on first use.                                                     *)

\* Where a command holds an identity, and where that identity is also on file.
Held == {"cert", "cert written", "key", "loaded", "push", "collect", "secure"}
OnFile == {"loaded", "push", "collect", "secure"}

\* The types of the hosts' state.
HostTypes ==
  /\ at \in [Homes -> Held \cup {"idle", "connected"}]
  /\ certFile \in [Homes -> Nat \cup {Torn}] /\ keyFile \in [Homes -> Nat \cup {Torn}]
  /\ idCert \in [Homes -> Nat] /\ idKey \in [Homes -> Nat]
  /\ device_der \in [Homes -> Nat]
  /\ server_cert \in Nat /\ ids \in Nat
  /\ shown \in [Homes -> Nat]

\* The files of a host: a key file is only ever there with the certificate it
\* belongs to, and once a certificate was presented both are complete.
FilesInv(h) ==
  /\ keyFile[h] # 0 => certFile[h] \in Nat \ {0} /\ keyFile[h] \in {Torn, certFile[h]}
  /\ at[h] \in {"cert", "cert written"} => keyFile[h] = 0
  /\ at[h] = "cert written" => certFile[h] = idCert[h]
  /\ at[h] = "key" => keyFile[h] = Torn /\ certFile[h] = idCert[h]
  /\ at[h] \in Held => idKey[h] = idCert[h] /\ idCert[h] # 0
  /\ at[h] \in OnFile => keyFile[h] = idKey[h]
  /\ shown[h] # 0 => keyFile[h] = shown[h]

\* What the host that is connected knows of the device.
LinkInv(h) ==
  link = h =>
    /\ pc = "running"
    /\ at[h] \in {"collect", "secure"} => server_cert = idCert[h]
    /\ at[h] = "secure" => device_der[h] = cert_der

TrustInv == HostTypes /\ \A h \in Homes : FilesInv(h) /\ LinkInv(h)

\* Nothing a host does moves the device, and the device itself takes the steps of
\* Identity.
LEMMA DeviceSteps == [TrustNext]_<<vars, client>> => [Next]_vars
<1>1. Device => Next
  BY DEF Device, Next
<1>2. Reboot => Next
  BY DEF Reboot, Next
<1>3. LinkLost => UNCHANGED vars
  BY DEF LinkLost
<1>4. ASSUME NEW h \in Homes, Host(h) PROVE UNCHANGED vars
  BY <1>4 DEF Host, Connect, LoadIdentity, Create, WriteCert, OpenKey, WriteKey, ReadInfo,
              Push, PushUnknown, Collect, End
<1>5. UNCHANGED <<vars, client>> => UNCHANGED vars
  OBVIOUS
<1> QED
  BY <1>1, <1>2, <1>3, <1>4, <1>5 DEF TrustNext

\* With hosts around it the device is the device of Identity.
THEOREM DeviceIsIdentity == TrustSpec => Spec
<1>1. TrustInit => Init
  BY DEF TrustInit
<1> QED
  BY <1>1, DeviceSteps, PTL DEF TrustSpec, Spec

\* At first no host has anything.
LEMMA TrustStart == TrustInit => TrustInv
BY TrustAssumption DEF TrustInit, TrustInv, HostTypes, FilesInv, LinkInv, Held, OnFile

\* The steps of the device leave the files alone, and while a host is connected
\* there is only the power cycle, which drops the link.
LEMMA TrustDevice == TrustInv /\ (Device \/ Reboot) => TrustInv'
<1> SUFFICES ASSUME TrustInv, Device \/ Reboot PROVE TrustInv'
  OBVIOUS
<1>1. CASE Device
  <2>1. UNCHANGED client
    BY <1>1 DEF Device
  <2>2. pc # "running"
    BY <1>1 DEF Device, InitLoad, StartLoad, Restore, EnsureFails, Generate, SaveKey, SaveKeyFails,
         ImportFails, CertRestored, CertBuild, CertFails, SaveCert, SaveCertFails, PouchInitFails, InitAgain
  <2> QED
    BY <2>1, <2>2 DEF TrustInv, HostTypes, FilesInv, LinkInv, client, files, identity
<1>2. CASE Reboot
  <2>1. /\ UNCHANGED <<at, certFile, keyFile, idCert, idKey, device_der, ids, shown>>
        /\ link' = Nobody /\ server_cert' \in {0, server_cert}
    BY <1>2 DEF Reboot, files, identity
  <2>2. HostTypes'
    BY <2>1 DEF TrustInv, HostTypes
  <2>3. ASSUME NEW h \in Homes PROVE FilesInv(h)' /\ LinkInv(h)'
    BY <2>1, TrustAssumption DEF TrustInv, FilesInv, LinkInv
  <2> QED
    BY <2>2, <2>3 DEF TrustInv
<1> QED
  BY <1>1, <1>2

\* A host's step keeps what holds of its own files, and of the other hosts'.
LEMMA TrustFiles ==
  ASSUME TrustInv, NEW h \in Homes, Host(h), cert_der \in Nat
  PROVE HostTypes' /\ \A g \in Homes : FilesInv(g)'
<1> USE TrustAssumption DEF TrustInv, HostTypes, FilesInv, Held, OnFile, Step, files, identity
<1>1. CASE Connect(h)
  BY <1>1 DEF Connect
<1>2. CASE LoadIdentity(h)
  BY <1>2 DEF LoadIdentity, Exists
<1>3. CASE Create(h)
  <2>0. keyFile[h] = 0
    BY <1>3 DEF Create, Exists
  <2>1. keyFile[h] = 0 /\ ids + 1 \in Nat /\ ids + 1 # 0
    <3>1. ids \in Nat
      OBVIOUS
    <3> QED
      BY <2>0, <3>1, Succ
  <2>2. HostTypes'
    BY <1>3, <2>1 DEF Create
  <2>3. ASSUME NEW g \in Homes, g # h PROVE FilesInv(g)'
    BY <1>3, <2>3 DEF Create
  <2>4. /\ at'[h] = "cert" /\ keyFile'[h] = 0 /\ shown'[h] = shown[h]
        /\ idKey'[h] = ids + 1 /\ idCert'[h] = ids + 1
    BY <1>3, <2>1 DEF Create
  <2>5. FilesInv(h)'
    BY <2>1, <2>4
  <2> QED
    BY <2>2, <2>3, <2>5
<1>4. CASE WriteCert(h)
  BY <1>4 DEF WriteCert
<1>5. CASE OpenKey(h)
  BY <1>5 DEF OpenKey
<1>6. CASE WriteKey(h)
  <2>1. HostTypes'
    BY <1>6 DEF WriteKey
  <2>2. ASSUME NEW g \in Homes, g # h PROVE FilesInv(g)'
    BY <1>6, <2>2 DEF WriteKey
  <2>3. /\ at[h] = "key" /\ at'[h] = "loaded"
        /\ keyFile'[h] = idKey[h] /\ idKey'[h] = idKey[h]
        /\ idCert'[h] = idCert[h] /\ certFile'[h] = certFile[h] /\ shown'[h] = shown[h]
    BY <1>6 DEF WriteKey
  <2>4. shown[h] = 0 /\ idKey[h] = certFile[h] /\ idCert[h] # 0 /\ idCert[h] = idKey[h]
    <3>1. shown[h] \in Nat /\ keyFile[h] = Torn /\ certFile[h] = idCert[h]
      BY <2>3
    <3>2. shown[h] = 0
      BY <3>1
    <3> QED
      BY <2>3, <3>1, <3>2
  <2>5. FilesInv(h)'
    BY <2>3, <2>4
  <2> QED
    BY <2>1, <2>2, <2>5
<1>7. CASE ReadInfo(h)
  BY <1>7 DEF ReadInfo
<1>8. CASE Push(h)
  BY <1>8 DEF Push, Present
<1>9. CASE PushUnknown(h)
  BY <1>9 DEF PushUnknown, Present
<1>10. CASE Collect(h)
  BY <1>10 DEF Collect
<1>11. CASE End(h)
  BY <1>11 DEF End
<1> QED
  BY <1>1, <1>2, <1>3, <1>4, <1>5, <1>6, <1>7, <1>8, <1>9, <1>10, <1>11 DEF Host

\* Only the connected host changes what the device stores, and only to its own
\* certificate.
LEMMA TrustLink ==
  ASSUME TrustInv, NEW h \in Homes, Host(h)
  PROVE \A g \in Homes : LinkInv(g)'
<1> USE TrustAssumption DEF TrustInv, HostTypes, LinkInv, Held, Step, files, identity, vars
<1>1. CASE Connect(h)
  BY <1>1 DEF Connect
<1>2. CASE LoadIdentity(h) \/ Create(h)
  BY <1>2 DEF LoadIdentity, Create
<1>3. CASE WriteCert(h) \/ OpenKey(h) \/ WriteKey(h)
  BY <1>3 DEF WriteCert, OpenKey, WriteKey
<1>4. CASE ReadInfo(h)
  BY <1>4 DEF ReadInfo, Differs
<1>5. CASE Push(h)
  BY <1>5 DEF Push, Present
<1>6. CASE PushUnknown(h)
  BY <1>6 DEF PushUnknown
<1>7. CASE Collect(h)
  BY <1>7 DEF Collect
<1>8. CASE End(h)
  BY <1>8 DEF End
<1> QED
  BY <1>1, <1>2, <1>3, <1>4, <1>5, <1>6, <1>7, <1>8 DEF Host

\* TrustInv is inductive.
LEMMA TrustStep == TrustInv /\ TypeOK /\ [TrustNext]_<<vars, client>> => TrustInv'
<1> SUFFICES ASSUME TrustInv, TypeOK, [TrustNext]_<<vars, client>> PROVE TrustInv'
  OBVIOUS
<1>0. cert_der \in Nat
  BY DEF TypeOK
<1>1. CASE LinkLost
  BY <1>1, TrustAssumption DEF LinkLost, TrustInv, HostTypes, FilesInv, LinkInv, files, identity
<1>2. ASSUME NEW h \in Homes, Host(h) PROVE TrustInv'
  BY <1>0, <1>2, TrustFiles, TrustLink DEF TrustInv
<1>3. CASE UNCHANGED <<vars, client>>
  BY <1>3 DEF TrustInv, HostTypes, FilesInv, LinkInv, vars, client, files, identity
<1> QED
  BY <1>1, <1>2, <1>3, TrustDevice DEF TrustNext

\* The device's types, and the invariant of the hosts on top of them.
THEOREM TrustHolds == TrustSpec => []TrustInv
<1> QED
  BY TrustStart, TrustStep, TypeCorrect, DeviceIsIdentity, PTL DEF TrustSpec

\* The two ends of a secured session derive its key from the same pairs, unless
\* mgr_init was repeated or did not read the stored key.
THEOREM SessionCorrect == TrustSpec => []KeysAgree
<1>1. TrustInv /\ CertMatchesKey => KeysAgree
  BY DEF TrustInv, FilesInv, LinkInv, Held, CertMatchesKey, KeysAgree
<1> QED
  BY <1>1, TrustHolds, CertCorrect, DeviceIsIdentity, PTL

\* A host that has presented a certificate presents no other.
THEOREM PresentedCorrect == TrustSpec => []SameCertificate
<1>1. TrustInv => SameCertificate
  <2> SUFFICES ASSUME TrustInv, NEW h \in Homes, at[h] \in Held, shown[h] # 0
               PROVE idCert[h] = shown[h]
    BY DEF SameCertificate, Held
  <2>1. FilesInv(h) /\ shown[h] \in Nat
    BY DEF TrustInv, HostTypes
  <2>2. keyFile[h] # 0 /\ keyFile[h] # Torn
    BY <2>1, TrustAssumption DEF FilesInv
  <2>3. at[h] \in OnFile
    BY <2>1, <2>2 DEF FilesInv, Held, OnFile
  <2> QED
    BY <2>1, <2>3 DEF FilesInv
<1> QED
  BY <1>1, TrustHolds, PTL

\* With hosts around it too, the device keeps the key it first came up with, with
\* the same two exceptions.
THEOREM KeyKeptInTrust == TrustSpec => []KeyIsKept
BY KeyKept, DeviceIsIdentity, PTL

\* With hosts around it too, a stored key is replaced only where it was not read.
THEOREM KeyNeverReplacedInTrust == TrustSpec => KeyNeverReplaced
BY KeyNeverReplacedCorrect, DeviceIsIdentity, PTL
=============================================================================
