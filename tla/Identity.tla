------------------------------ MODULE Identity ------------------------------
(***************************************************************************)
(* The device identity (src/src/identity.c) as pouch_prov_mgr_init and     *)
(* pouch_prov_mgr_start use it: a key and a self-signed certificate that   *)
(* are generated once, saved one after the other and restored from the     *)
(* settings.  A save or the reading of a stored value may fail, and power  *)
(* may go at any step.                                                     *)
(*                                                                         *)
(* A key is a number, 0 is none; a certificate is the key it was made for. *)
(***************************************************************************)
EXTENDS Naturals

CONSTANTS
  MaxKeys,   \* bound on keys generated
  MaxBoots   \* bound on power cycles

ASSUME IdentityAssumption == MaxKeys \in Nat /\ MaxBoots \in Nat

VARIABLES
  pc,         \* where mgr_init is
  flashKey,   \* pnp/id/key
  flashCert,  \* pnp/id/cert
  priv_raw,   \* priv_raw
  cert_der,   \* cert_der
  identity_key,  \* identity_key
  keys,       \* keys generated
  boots,      \* power cycles
  \* History, read by no action:
  first,      \* the key of the first successful mgr_init
  again,      \* "yes" once mgr_init was called again after a failure
  unread      \* whether a stored key was not read: "no", "now" (by the last
              \* load) or "before"

flash == <<flashKey, flashCert>>
ram == <<priv_raw, cert_der, identity_key>>
vars == <<pc, flashKey, flashCert, priv_raw, cert_der, identity_key, keys, boots, first, again, unread>>

Init ==
  /\ pc = "load"
  /\ flashKey = 0 /\ flashCert = 0
  /\ priv_raw = 0 /\ cert_der = 0 /\ identity_key = 0
  /\ keys = 0 /\ boots = 0 /\ first = 0 /\ again = "no" /\ unread = "no"

\* id_set: what the settings hold replaces what is in memory, unless it cannot
\* be read: mgr_init drops that error and mgr_start logs it.
Loaded(old, stored) == {old} \cup ({stored} \ {0})

Load ==
  /\ priv_raw' \in Loaded(priv_raw, flashKey)
  /\ cert_der' \in Loaded(cert_der, flashCert)
  /\ unread' = IF flashKey \notin {0, priv_raw'} THEN "now"
               ELSE IF unread = "no" THEN "no" ELSE "before"
  /\ UNCHANGED <<flash, identity_key, keys, boots, first, again>>

\* Mutant: mgr_init does not load the settings.
InitLoadNothing == pc = "load" /\ pc' = "ensure" /\ UNCHANGED <<flash, ram, keys, boots, first, again, unread>>

\* mgr_init loads the settings; mgr_start does so again.
InitLoad == pc = "load" /\ pc' = "ensure" /\ Load

StartLoad == pc = "ready" /\ pc' = "running" /\ Load

-----------------------------------------------------------------------------
\* pouch_prov_identity_ensure.
Restore ==
  /\ pc = "ensure"
  /\ priv_raw # 0
  /\ identity_key' = priv_raw
  /\ pc' = "cert"
  /\ UNCHANGED <<flash, priv_raw, cert_der, keys, boots, first, again, unread>>

\* The crypto is not there, the import of the key or its generation fails.
EnsureFails ==
  /\ pc = "ensure"
  /\ pc' = "failed"
  /\ identity_key' \in {identity_key} \cup (IF priv_raw # 0 THEN {0} ELSE {})
  /\ UNCHANGED <<flash, priv_raw, cert_der, keys, boots, first, again, unread>>

Generate ==
  /\ pc = "ensure"
  /\ priv_raw = 0
  /\ keys < MaxKeys
  /\ keys' = keys + 1
  /\ priv_raw' = keys + 1
  /\ pc' = "save key"
  /\ UNCHANGED <<flash, cert_der, identity_key, boots, first, again, unread>>

\* Mutant: the key is not saved.
SaveKeySkipped ==
  /\ pc = "save key"
  /\ identity_key' = priv_raw
  /\ cert_der' = 0
  /\ pc' = "cert"
  /\ UNCHANGED <<flash, priv_raw, keys, boots, first, again, unread>>

SaveKey ==
  /\ pc = "save key"
  /\ flashKey' = priv_raw
  /\ identity_key' = priv_raw
  /\ cert_der' = 0
  /\ pc' = "cert"
  /\ UNCHANGED <<flashCert, priv_raw, keys, boots, first, again, unread>>

\* The save fails; priv_raw keeps the key.
SaveKeyFails ==
  /\ pc = "save key"
  /\ pc' = "failed"
  /\ UNCHANGED <<flash, ram, keys, boots, first, again, unread>>

\* The key is saved but not imported.
ImportFails ==
  /\ pc = "save key"
  /\ flashKey' = priv_raw
  /\ identity_key' = 0
  /\ pc' = "failed"
  /\ UNCHANGED <<flashCert, priv_raw, cert_der, keys, boots, first, again, unread>>

Ready == pc' = "ready" /\ first' = IF first = 0 THEN identity_key ELSE first

CertRestored ==
  /\ pc = "cert"
  /\ cert_der # 0
  /\ Ready
  /\ UNCHANGED <<flash, ram, keys, boots, again, unread>>

CertBuild ==
  /\ pc = "cert"
  /\ cert_der = 0
  /\ cert_der' = identity_key
  /\ pc' = "save cert"
  /\ UNCHANGED <<flash, priv_raw, identity_key, keys, boots, first, again, unread>>

CertFails ==
  /\ pc = "cert"
  /\ cert_der = 0
  /\ pc' = "failed"
  /\ UNCHANGED <<flash, ram, keys, boots, first, again, unread>>

SaveCert ==
  /\ pc = "save cert"
  /\ flashCert' = cert_der
  /\ Ready
  /\ UNCHANGED <<flashKey, ram, keys, boots, again, unread>>

SaveCertFails ==
  /\ pc = "save cert"
  /\ pc' = "failed"
  /\ UNCHANGED <<flash, ram, keys, boots, first, again, unread>>

-----------------------------------------------------------------------------
\* The rest of mgr_init fails although the identity is there.
PouchInitFails ==
  /\ pc = "ready"
  /\ pc' = "failed"
  /\ UNCHANGED <<flash, ram, keys, boots, first, again, unread>>

\* initialized is still false: mgr_init may be called again.
InitAgain ==
  /\ pc = "failed"
  /\ pc' = "load"
  /\ again' = "yes"
  /\ UNCHANGED <<flash, ram, keys, boots, first, unread>>

PowerCycle ==
  /\ boots < MaxBoots
  /\ boots' = boots + 1
  /\ pc' = "load"
  /\ priv_raw' = 0 /\ cert_der' = 0 /\ identity_key' = 0
  /\ UNCHANGED <<flash, keys, first, again, unread>>

-----------------------------------------------------------------------------
Next ==
  \/ InitLoad \/ StartLoad
  \/ Restore \/ EnsureFails \/ Generate \/ SaveKey \/ SaveKeyFails \/ ImportFails
  \/ CertRestored \/ CertBuild \/ CertFails \/ SaveCert \/ SaveCertFails
  \/ PouchInitFails \/ InitAgain \/ PowerCycle

Spec == Init /\ [][Next]_vars

-----------------------------------------------------------------------------
Pcs == {"load", "ensure", "save key", "cert", "save cert", "ready", "running", "failed"}

\* The types of the identity's state; every key was generated.
TypeOK ==
  /\ pc \in Pcs
  /\ keys \in Nat /\ boots \in Nat /\ again \in {"no", "yes"}
  /\ unread \in {"no", "now", "before"}
  /\ \A k \in {flashKey, flashCert, priv_raw, cert_der, identity_key, first} : k \in 0..keys

\* As long as mgr_init has not been repeated and has found the stored key, the
\* certificate handed to pouch is the one of its key, whatever saves failed,
\* whether or not the stored certificate was read and wherever power went
\* (identity.c:234, 245-247).
CertMatchesKey ==
  again = "no" /\ unread = "no" /\ pc \in {"ready", "running"} =>
    identity_key # 0 /\ cert_der = identity_key

\* Then too, a device that has once come up keeps its key: a client that has seen
\* its certificate will find the same key after every later boot (identity.c:127).
KeyIsKept ==
  again = "no" /\ unread = "no" /\ pc \in {"ready", "running"} => identity_key = first

\* A stored key is replaced only by an mgr_init that could not read it, also when
\* mgr_init is repeated after a failure (identity.c:219).
KeyNeverReplaced == [][flashKey # 0 /\ flashKey' # flashKey => unread = "now"]_vars

\* identity.c:5: "on first boot, generate a P-256 key pair".
\* The code does not keep to it: see "What does not hold" in README.md.
GeneratedOnce == [][flashKey # 0 => flashKey' = flashKey]_vars

\* identity.c:7: "Both the raw private key and the certificate are persisted via
\* the settings subsystem".
\* The code does not keep to it: see "What does not hold" in README.md.
Persisted == pc = "ready" => flashKey = identity_key /\ flashCert = identity_key
=============================================================================
