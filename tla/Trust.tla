------------------------------- MODULE Trust --------------------------------
(***************************************************************************)
(* Trust on first use (src/cli/src/pouchprov/tofu.py) between the device   *)
(* of Identity and the state directories of several hosts: each host       *)
(* creates its server identity on first use, in two files written one      *)
(* after the other, presents its certificate to the device and collects    *)
(* the device's.  A command may be killed and a link may drop at any step, *)
(* and the device may be switched off and on.                              *)
(*                                                                         *)
(* A server identity is a number, 0 is none, both as a certificate and as  *)
(* the private key that belongs to it.  Of the serial number only equality *)
(* matters.  A state directory is used by one command at a time.           *)
(***************************************************************************)
EXTENDS Identity

CONSTANTS
  Homes,    \* state directories, one per host
  Nobody,   \* no host is connected
  Torn,     \* a file that is open for writing, or was when its writer died
  MaxIds    \* bound on server identities generated

ASSUME TrustAssumption == Nobody \notin Homes /\ Torn \notin Nat /\ MaxIds \in Nat

VARIABLES
  at,           \* where the command of a host is
  certFile,     \* server_identity.crt.pem
  keyFile,      \* server_identity.key.pem
  idCert,       \* identity.cert_der
  idKey,        \* identity.private_key
  device_der,   \* device_der
  link,         \* the host connected to the device
  server_cert,  \* the certificate the device stores
  ids,          \* server identities generated
  \* History, read by no action:
  shown         \* the first certificate each host presented

files == <<certFile, keyFile>>
identity == <<idCert, idKey>>
client == <<at, files, identity, device_der, link, server_cert, ids, shown>>

TrustInit ==
  /\ Init
  /\ at = [h \in Homes |-> "idle"]
  /\ certFile = [h \in Homes |-> 0] /\ keyFile = [h \in Homes |-> 0]
  /\ idCert = [h \in Homes |-> 0] /\ idKey = [h \in Homes |-> 0]
  /\ device_der = [h \in Homes |-> 0]
  /\ link = Nobody /\ server_cert = 0 /\ ids = 0
  /\ shown = [h \in Homes |-> 0]

Step(h, from, to) == at[h] = from /\ at' = [at EXCEPT ![h] = to]

\* _open_session connects first; the device takes one link at a time.
Connect(h) ==
  /\ Step(h, "idle", "connected")
  /\ pc = "running"
  /\ link = Nobody
  /\ link' = h
  /\ UNCHANGED <<vars, files, identity, device_der, server_cert, ids, shown>>

-----------------------------------------------------------------------------
\* load_or_create_server_identity.
Exists(h) == certFile[h] # 0 /\ keyFile[h] # 0

\* A torn file cannot be parsed: the command then ends (End).
LoadIdentity(h) ==
  /\ Step(h, "connected", "loaded")
  /\ Exists(h)
  /\ Torn \notin {certFile[h], keyFile[h]}
  /\ idKey' = [idKey EXCEPT ![h] = keyFile[h]]
  /\ idCert' = [idCert EXCEPT ![h] = certFile[h]]
  /\ UNCHANGED <<vars, files, device_der, link, server_cert, ids, shown>>

\* A new identity; write_bytes first empties the file.
Create(h) ==
  /\ Step(h, "connected", "cert")
  /\ ~Exists(h)
  /\ ids < MaxIds
  /\ ids' = ids + 1
  /\ idKey' = [idKey EXCEPT ![h] = ids + 1]
  /\ idCert' = [idCert EXCEPT ![h] = ids + 1]
  /\ certFile' = [certFile EXCEPT ![h] = Torn]
  /\ UNCHANGED <<vars, keyFile, device_der, link, server_cert, shown>>

WriteCert(h) ==
  /\ Step(h, "cert", "cert written")
  /\ certFile' = [certFile EXCEPT ![h] = idCert[h]]
  /\ UNCHANGED <<vars, keyFile, identity, device_der, link, server_cert, ids, shown>>

OpenKey(h) ==
  /\ Step(h, "cert written", "key")
  /\ keyFile' = [keyFile EXCEPT ![h] = Torn]
  /\ UNCHANGED <<vars, certFile, identity, device_der, link, server_cert, ids, shown>>

\* Mutant: the key is not written.
WriteKeySkipped(h) ==
  /\ Step(h, "key", "loaded")
  /\ keyFile' = [keyFile EXCEPT ![h] = 0]
  /\ UNCHANGED <<vars, certFile, identity, device_der, link, server_cert, ids, shown>>

WriteKey(h) ==
  /\ Step(h, "key", "loaded")
  /\ keyFile' = [keyFile EXCEPT ![h] = idKey[h]]
  /\ UNCHANGED <<vars, certFile, identity, device_der, link, server_cert, ids, shown>>

-----------------------------------------------------------------------------
\* exchange_certs.
\* Mutant: a certificate is pushed only to a device that has none.
DiffersIfNone(h) == server_cert = 0

Differs(h) == server_cert = 0 \/ server_cert # idCert[h]

ReadInfo(h) ==
  /\ link = h
  /\ Step(h, "loaded", IF Differs(h) THEN "push" ELSE "collect")
  /\ UNCHANGED <<vars, files, identity, device_der, link, server_cert, ids, shown>>

Present(h) ==
  /\ server_cert' = idCert[h]
  /\ shown' = [shown EXCEPT ![h] = IF @ = 0 THEN idCert[h] ELSE @]

\* sar_write returns only when the device has the whole certificate
\* (RequestDelivered of Exchange).  If its FIN is lost the device has closed its
\* end with the certificate, or the link is gone (sar.py:88-91) and the command
\* gets no further.
Push(h) ==
  /\ link = h
  /\ Step(h, "push", "collect")
  /\ Present(h)
  /\ UNCHANGED <<vars, files, identity, device_der, link, ids>>

\* The device has it, but the command fails before it knows.
PushUnknown(h) ==
  /\ link = h
  /\ Step(h, "push", "idle")
  /\ Present(h)
  /\ link' = Nobody
  /\ UNCHANGED <<vars, files, identity, device_der, ids>>

\* sar_read of device_cert, and enable_encryption with what it brought.
Collect(h) ==
  /\ link = h
  /\ Step(h, "collect", "secure")
  /\ device_der' = [device_der EXCEPT ![h] = cert_der]
  /\ UNCHANGED <<vars, files, identity, link, server_cert, ids, shown>>

\* The command is done, fails or is killed.
End(h) ==
  /\ at[h] # "idle"
  /\ at' = [at EXCEPT ![h] = "idle"]
  /\ link' = IF link = h THEN Nobody ELSE link
  /\ UNCHANGED <<vars, files, identity, device_der, server_cert, ids, shown>>

LinkLost ==
  /\ link # Nobody
  /\ link' = Nobody
  /\ UNCHANGED <<vars, at, files, identity, device_der, server_cert, ids, shown>>

-----------------------------------------------------------------------------
\* Whether pouch keeps the server certificate over a power cycle is left open.
Reboot ==
  /\ PowerCycle
  /\ link' = Nobody
  /\ server_cert' \in {0, server_cert}
  /\ UNCHANGED <<at, files, identity, device_der, ids, shown>>

\* The steps of mgr_init and mgr_start.
Device ==
  /\ \/ InitLoad \/ StartLoad
     \/ Restore \/ EnsureFails \/ Generate \/ SaveKey \/ SaveKeyFails \/ ImportFails
     \/ CertRestored \/ CertBuild \/ CertFails \/ SaveCert \/ SaveCertFails
     \/ PouchInitFails \/ InitAgain
  /\ UNCHANGED client

Host(h) ==
  \/ Connect(h) \/ LoadIdentity(h) \/ Create(h) \/ WriteCert(h) \/ OpenKey(h) \/ WriteKey(h)
  \/ ReadInfo(h) \/ Push(h) \/ PushUnknown(h) \/ Collect(h) \/ End(h)

TrustNext == Device \/ Reboot \/ LinkLost \/ \E h \in Homes : Host(h)

TrustSpec == TrustInit /\ [][TrustNext]_<<vars, client>>

-----------------------------------------------------------------------------
\* A secured session works: what the client derives its key from (its private
\* key and the device certificate it was given) and what the device derives it
\* from (the server certificate it stores and its own key) are two halves of
\* the same pairs, whichever host was connected before, wherever an earlier
\* command was killed and whenever the device was switched off (tofu.py:112,
\* 127-137).  An mgr_init that was repeated or did not read the stored key is left
\* out: there the device's certificate may be another key's (README, "What does
\* not hold").
KeysAgree ==
  again = "no" /\ unread = "no" =>
    \A h \in Homes : at[h] = "secure" /\ link = h =>
      idKey[h] = server_cert /\ device_der[h] = identity_key

\* tofu.py:54-55: "Created on first use, then reused so devices keep trusting the
\* same certificate".  A host that has presented a certificate presents no other,
\* although an identity whose key was not written yet is thrown away.
SameCertificate ==
  \A h \in Homes :
    at[h] \in {"cert", "cert written", "key", "loaded", "push", "collect", "secure"} /\ shown[h] # 0
      => idCert[h] = shown[h]
=============================================================================
