-------------------------- MODULE CredStoreSessions --------------------------
(***************************************************************************)
(* CredStore with two pieces of history: which kinds the client of the     *)
(* current BLE session has written, and what was stored when the running   *)
(* finalize began.  It is the frame for the statements the repository      *)
(* makes about finalize: that it stores what was provided in this session, *)
(* and that it stores it atomically.                                       *)
(***************************************************************************)
EXTENDS CredStore

VARIABLES
  session,   \* kinds whose current write began in this BLE session
  before     \* flash when the running finalize began

sessionVars == <<vars, session, before>>

SessionInit == Init /\ session = {} /\ before = flash

BeginsWrite(k, off, total) == off = 0 /\ total <= Cap[k]

\* The BLE link drops: pouch_prov_mgr_session_ended leaves the store alone.
Disconnect ==
  /\ session' = {}
  /\ UNCHANGED <<vars, before>>

SessionNext ==
  \/ \E k \in Kinds : \E off \in 0..Cap[k], total \in 0 .. Cap[k] + 1, data \in Chunks :
        /\ Write(k, off, total, data)
        /\ session' = session \union {x \in {k} : BeginsWrite(k, off, total)}
        /\ UNCHANGED before
  \/ FinalizeBegin /\ before' = flash /\ UNCHANGED session
  \/ PowerCycle /\ session' = {} /\ UNCHANGED before
  \/ /\ \/ FinalizeRefused
        \/ FinalizeSkip
        \/ FinalizeSave
        \/ FinalizeCommit
        \/ FinalizeSaveFails
        \/ \E t \in Threads : WipeBegin(t) \/ WipeDelete(t) \/ WipeClear(t)
        \/ ReloadBegin
        \/ ReloadKind
     /\ UNCHANGED <<session, before>>
  \/ Disconnect

SessionSpec == SessionInit /\ [][SessionNext]_sessionVars

-----------------------------------------------------------------------------
\* What the running finalize would leave if nothing went wrong.
Finalized ==
  [k \in Kinds |-> IF Complete(k) THEN Prefix(buf[k], staged[k]) ELSE before[k]]

\* The statement of cred_store.c:6 and protocol.md:159: finalize persists
\* atomically.  A finalize that ends - answered, failed or cut by a power
\* loss - leaves either all it had to store or what was there before.
\* The code does not keep to it: see "What does not hold" in README.md.
FinalizeAllOrNothing ==
  [][loop["wq"].op = "save" /\ loop'["wq"] = Idle
       => flash' \in {before, Finalized}]_sessionVars

\* The comment of cred_store.c:164: what finalize persists was provided this
\* session.  A finalize that starts to store finds only such kinds complete.
\* The code does not keep to it: see "What does not hold" in README.md.
FinalizeStoresThisSession ==
  [][loop["wq"] = Idle /\ loop'["wq"].op = "save"
       => \A k \in Kinds : Complete(k) => k \in session]_sessionVars

\* The comment of prov.cddl:146: cred-get-status reports the stored DER
\* lengths.
\* The code does not keep to it: see "What does not hold" in README.md.
StatusReportsStored ==
  \A k \in Kinds : (IF k \in DOMAIN CredStatus THEN CredStatus[k] ELSE 0) = Len(flash[k])
=============================================================================
