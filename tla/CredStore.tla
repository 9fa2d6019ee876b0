------------------------------ MODULE CredStore ------------------------------
(***************************************************************************)
(* The cloud credential store of the device: src/src/cred_store.c and its  *)
(* endpoint handler src/src/handlers/cred.c.                               *)
(*                                                                         *)
(* Each kind of credential has one static RAM buffer.  The buffer holds    *)
(* the persisted blob AND receives the chunks of the next one.  The        *)
(* handler runs on the pouch work queue ("wq"); the application ("app")    *)
(* may wipe the store (pouch_prov_mgr_reset) or restart the manager        *)
(* (settings_load in pouch_prov_mgr_start) at any time.  finalize,         *)
(* delete_all and the settings load touch the settings backend once per    *)
(* kind.  A step of the model runs up to the return of one such call: the  *)
(* other thread, an I/O failure or a power loss may come between the call  *)
(* and the RAM update that follows it, and between two kinds.  The         *)
(* settings subsystem's own mutex keeps a save or delete out of a load.    *)
(*                                                                         *)
(* Bytes are abstracted to cells: a cell of a DER blob is the name of the  *)
(* blob it comes from, and lengths count cells.                            *)
(***************************************************************************)
EXTENDS Naturals, Sequences

CONSTANTS
  Blobs,      \* the DER blobs a client may push
  DerLen,     \* [Blobs -> Nat]: the length each blob's DER header announces
  Cap,        \* [Kinds -> Nat]: DEVICE_CERT_MAX, PRIVATE_KEY_MAX, CA_CERT_MAX
  MaxChunk,   \* cells in the largest chunk of one cred-write
  Zero        \* the cell of a buffer that was never written

Kinds == {"cert", "key", "ca"}

ASSUME CapAssumption == Cap \in [Kinds -> Nat]
ASSUME BlobAssumption == DerLen \in [Blobs -> Nat] /\ Zero \notin Blobs
ASSUME ChunkAssumption == MaxChunk \in Nat

\* The order of blobs[] and setting_key[]: finalize and delete_all follow it.
KindOrder == <<"cert", "key", "ca">>

Cell == Blobs \union {Zero}

VARIABLES
  buf,       \* [Kinds -> cells]       blobs[k].buf
  len,       \* [Kinds -> Nat]         blobs[k].len, the persisted length
  staged,    \* [Kinds -> Nat]         blobs[k].staged
  expected,  \* [Kinds -> Nat]         blobs[k].expected
  flash,     \* [Kinds -> Seq(Cell)]   the settings backend, <<>> when absent
  loop,      \* [thread -> the loop it is in and the kind it is at]
  rsp,       \* the last answer of .prov/cred
  \* History, read by no action:
  sent,      \* [Kinds -> Seq(Cell)]   the accepted chunks of the current write
  reloaded   \* kinds whose buffer a settings load overwrote during that write

ram == <<buf, len, staged, expected>>
hist == <<sent, reloaded>>
vars == <<buf, len, staged, expected, flash, loop, rsp, sent, reloaded>>

Threads == {"wq", "app"}
Idle == [op |-> "idle", at |-> 0]
At(op, i) == [op |-> op, at |-> i]
Enter(t, op) == loop' = [loop EXCEPT ![t] = At(op, 1)]

\* The loop over blobs[]: on to the next kind, or out of the loop.
Advance(t, op) ==
  loop' = [loop EXCEPT ![t] = IF @.at < 3 THEN At(op, @.at + 1) ELSE Idle]

\* Behind the settings call for the kind, before the RAM update.
Resume(t, op) == loop' = [loop EXCEPT ![t] = At(op, @.at)]

Leave(t) == loop' = [loop EXCEPT ![t] = Idle]
\* settings_load holds the settings mutex from the first kind to the last.
SettingsFree == loop["app"].op # "load"
LastKind(t) == loop[t].at = 3
KindAt(t) == KindOrder[loop[t].at]

Prefix(f, n) == [i \in 1..n |-> f[i]]
Overwrite(f, from, data) ==
  [i \in DOMAIN f |-> IF i \in from + 1 .. from + Len(data) THEN data[i - from] ELSE f[i]]
Fill(n, b) == [i \in 1..n |-> b]

\* An accepted write is answered with the staged count as well.
Answer(op, status) == [op |-> op, status |-> status]
NoAnswer == Answer("none", "ok")
NothingStored == [k \in Kinds |-> <<>>]

-----------------------------------------------------------------------------
\* Blank RAM, then whatever the settings backend holds (cred_set).
BootRam(stored) ==
  /\ buf' = [k \in Kinds |-> Overwrite(Fill(Cap[k], Zero), 0, stored[k])]
  /\ len' = [k \in Kinds |-> Len(stored[k])]
  /\ staged' = [k \in Kinds |-> 0]
  /\ expected' = [k \in Kinds |-> 0]

Init ==
  /\ buf = [k \in Kinds |-> Fill(Cap[k], Zero)]
  /\ len = [k \in Kinds |-> 0]
  /\ staged = [k \in Kinds |-> 0]
  /\ expected = [k \in Kinds |-> 0]
  /\ flash = NothingStored
  /\ loop = [t \in Threads |-> Idle]
  /\ rsp = NoAnswer
  /\ sent = [k \in Kinds |-> <<>>]
  /\ reloaded = {}

-----------------------------------------------------------------------------
\* cred-write: pouch_prov_cred_stage.  Offset 0 restarts the write of the
\* kind before the chunk is checked, so a refused first chunk still does.
StageTooLong(k, total) ==
  /\ total > Cap[k]
  /\ rsp' = Answer("write", "invalid-argument")
  /\ UNCHANGED <<ram, hist>>

StageRestart(k, off) == IF off = 0 THEN 0 ELSE staged[k]
StageAnnounced(k, off, total) == IF off = 0 THEN total ELSE expected[k]
\* Mutant: the announced total is not enforced.
StageUnbounded(k, off, total, data) == off = StageRestart(k, off)
StageInOrder(k, off, total, data) ==
  /\ off = StageRestart(k, off)
  /\ StageRestart(k, off) + Len(data) <= StageAnnounced(k, off, total)

StageRefused(k, off, total, data) ==
  /\ total <= Cap[k]
  /\ ~StageInOrder(k, off, total, data)
  /\ staged' = [staged EXCEPT ![k] = StageRestart(k, off)]
  /\ expected' = [expected EXCEPT ![k] = StageAnnounced(k, off, total)]
  /\ rsp' = Answer("write", "invalid-argument")
  /\ sent' = [sent EXCEPT ![k] = IF off = 0 THEN <<>> ELSE @]
  /\ reloaded' = IF off = 0 THEN reloaded \ {k} ELSE reloaded
  /\ UNCHANGED <<buf, len>>

\* Mutant: every chunk is copied to the start of the buffer.
StageAcceptedAtStart(k, off, total, data) ==
  /\ total <= Cap[k]
  /\ StageInOrder(k, off, total, data)
  /\ buf' = [buf EXCEPT ![k] = Overwrite(@, 0, data)]
  /\ staged' = [staged EXCEPT ![k] = StageRestart(k, off) + Len(data)]
  /\ expected' = [expected EXCEPT ![k] = StageAnnounced(k, off, total)]
  /\ rsp' = Answer("write", "ok")
  /\ sent' = [sent EXCEPT ![k] = (IF off = 0 THEN <<>> ELSE @) \o data]
  /\ reloaded' = IF off = 0 THEN reloaded \ {k} ELSE reloaded
  /\ UNCHANGED len

StageAccepted(k, off, total, data) ==
  /\ total <= Cap[k]
  /\ StageInOrder(k, off, total, data)
  /\ buf' = [buf EXCEPT ![k] = Overwrite(@, StageRestart(k, off), data)]
  /\ staged' = [staged EXCEPT ![k] = StageRestart(k, off) + Len(data)]
  /\ expected' = [expected EXCEPT ![k] = StageAnnounced(k, off, total)]
  /\ rsp' = Answer("write", "ok")
  /\ sent' = [sent EXCEPT ![k] = (IF off = 0 THEN <<>> ELSE @) \o data]
  /\ reloaded' = IF off = 0 THEN reloaded \ {k} ELSE reloaded
  /\ UNCHANGED len

Write(k, off, total, data) ==
  /\ loop["wq"] = Idle
  /\ \/ StageTooLong(k, total)
     \/ StageRefused(k, off, total, data)
     \/ StageAccepted(k, off, total, data)
  /\ UNCHANGED <<flash, loop>>

-----------------------------------------------------------------------------
\* cred-finalize: pouch_prov_cred_finalize.
Complete(k) == staged[k] # 0 /\ staged[k] = expected[k]

\* der_sequence_len_ok: the outer SEQUENCE spans exactly the staged bytes.
DerSequenceLenOk(f, n) == n > 0 /\ f[1] # Zero /\ DerLen[f[1]] = n

FinalizeRefused ==
  /\ loop["wq"] = Idle
  /\ ~( /\ Complete("cert")
        /\ Complete("key")
        /\ DerSequenceLenOk(buf["cert"], staged["cert"]) )
  /\ rsp' = Answer("finalize", "invalid-argument")
  /\ UNCHANGED <<ram, flash, loop, hist>>

FinalizeBegin ==
  /\ loop["wq"] = Idle
  /\ Complete("cert")
  /\ Complete("key")
  /\ DerSequenceLenOk(buf["cert"], staged["cert"])
  /\ Enter("wq", "save")
  /\ UNCHANGED <<ram, flash, rsp, hist>>

\* One turn of the loop; the last one emits CLOUD_CRED_STORED and answers ok.
FinalizeTurn ==
  /\ Advance("wq", "save")
  /\ rsp' = IF LastKind("wq") THEN Answer("finalize", "ok") ELSE rsp
  /\ UNCHANGED <<buf, staged, expected, flash, hist>>

FinalizeSkip ==
  /\ loop["wq"].op = "save"
  /\ ~Complete(KindAt("wq"))
  /\ FinalizeTurn
  /\ UNCHANGED len

\* Mutant: the length of the previous blob is saved with the new bytes.
FinalizeSavesOldLength ==
  LET k == KindAt("wq") IN
  /\ loop["wq"].op = "save"
  /\ Complete(k)
  /\ SettingsFree
  /\ flash' = [flash EXCEPT ![k] = Prefix(buf[k], len[k])]
  /\ Resume("wq", "commit")
  /\ UNCHANGED <<ram, rsp, hist>>

FinalizeSave ==
  LET k == KindAt("wq") IN
  /\ loop["wq"].op = "save"
  /\ Complete(k)
  /\ SettingsFree
  /\ flash' = [flash EXCEPT ![k] = Prefix(buf[k], staged[k])]
  /\ Resume("wq", "commit")
  /\ UNCHANGED <<ram, rsp, hist>>

\* b->len = b->staged, the staged count of now.
FinalizeCommit ==
  LET k == KindAt("wq") IN
  /\ loop["wq"].op = "commit"
  /\ len' = [len EXCEPT ![k] = staged[k]]
  /\ FinalizeTurn

\* Mutant: the RAM length is set before the result of the save is known.
FinalizeSaveFailsLate ==
  LET k == KindAt("wq") IN
  /\ loop["wq"].op = "save"
  /\ Complete(k)
  /\ Leave("wq")
  /\ len' = [len EXCEPT ![k] = staged[k]]
  /\ rsp' = Answer("finalize", "internal-error")
  /\ UNCHANGED <<buf, staged, expected, flash, hist>>

\* Mutant: a failed save is logged and the loop goes on.
FinalizeSaveIgnored ==
  /\ loop["wq"].op = "save"
  /\ Complete(KindAt("wq"))
  /\ FinalizeTurn
  /\ UNCHANGED len

\* settings_save_one fails: -EIO, answered internal-error.
FinalizeSaveFails ==
  /\ loop["wq"].op = "save"
  /\ Complete(KindAt("wq"))
  /\ Leave("wq")
  /\ rsp' = Answer("finalize", "internal-error")
  /\ UNCHANGED <<ram, flash, hist>>

\* cred-get-status: the non-zero counts of pouch_prov_cred_received.
CredStatus == [k \in {x \in Kinds : staged[x] # 0} |-> staged[k]]

-----------------------------------------------------------------------------
\* pouch_prov_cred_delete_all, called by .prov/ctrl reprovision on the work
\* queue and by pouch_prov_mgr_reset in the application.
WipeBegin(t) ==
  /\ loop[t] = Idle
  /\ Enter(t, "wipe")
  /\ UNCHANGED <<ram, flash, rsp, hist>>

\* The result of settings_delete is ignored: RAM forgets the kind anyway.
WipeDelete(t) ==
  /\ loop[t].op = "wipe"
  /\ SettingsFree
  /\ \/ flash' = [flash EXCEPT ![KindAt(t)] = <<>>]
     \/ UNCHANGED flash
  /\ Resume(t, "clear")
  /\ UNCHANGED <<ram, rsp, hist>>

WipeClear(t) ==
  LET k == KindAt(t) IN
  /\ loop[t].op = "clear"
  /\ len' = [len EXCEPT ![k] = 0]
  /\ staged' = [staged EXCEPT ![k] = 0]
  /\ expected' = [expected EXCEPT ![k] = 0]
  /\ sent' = [sent EXCEPT ![k] = <<>>]
  /\ reloaded' = reloaded \ {k}
  /\ Advance(t, "wipe")
  /\ UNCHANGED <<buf, flash, rsp>>

-----------------------------------------------------------------------------
\* settings_load in pouch_prov_mgr_start: cred_set runs for each stored kind,
\* whatever has been staged into the buffer meanwhile.
ReloadBegin ==
  /\ loop["app"] = Idle
  /\ Enter("app", "load")
  /\ UNCHANGED <<ram, flash, rsp, hist>>

ReloadKind ==
  LET k == KindAt("app") IN
  /\ loop["app"].op = "load"
  /\ IF flash[k] = <<>>
     THEN UNCHANGED <<buf, len, reloaded>>
     ELSE /\ buf' = [buf EXCEPT ![k] = Overwrite(@, 0, flash[k])]
          /\ len' = [len EXCEPT ![k] = Len(flash[k])]
          /\ reloaded' = reloaded \union {k}
  /\ Advance("app", "load")
  /\ UNCHANGED <<staged, expected, flash, rsp, sent>>

\* Power loss at any point; at boot the settings are loaded before a client
\* can connect.
PowerCycle ==
  /\ BootRam(flash)
  /\ loop' = [t \in Threads |-> Idle]
  /\ rsp' = NoAnswer
  /\ sent' = [k \in Kinds |-> <<>>]
  /\ reloaded' = {}
  /\ UNCHANGED flash

-----------------------------------------------------------------------------
Chunks == UNION {{Fill(n, b) : b \in Blobs} : n \in 0..MaxChunk}

Next ==
  \/ \E k \in Kinds : \E off \in 0..Cap[k], total \in 0 .. Cap[k] + 1, data \in Chunks :
        Write(k, off, total, data)
  \/ FinalizeRefused
  \/ FinalizeBegin
  \/ FinalizeSkip
  \/ FinalizeSave
  \/ FinalizeCommit
  \/ FinalizeSaveFails
  \/ \E t \in Threads : WipeBegin(t) \/ WipeDelete(t) \/ WipeClear(t)
  \/ ReloadBegin
  \/ ReloadKind
  \/ PowerCycle

Spec == Init /\ [][Next]_vars

-----------------------------------------------------------------------------
LoopOps == {"save", "commit", "wipe", "clear", "load"}
LoopStates == {Idle} \union [op : LoopOps, at : 1..3]
Answers == [op : {"none", "write", "finalize"},
            status : {"ok", "invalid-argument", "internal-error"}]

\* Types, with the bounds that keep memcpy inside the static buffers: never
\* more is staged than was announced, never more announced or stored than the
\* buffer of the kind holds.
TypeOK ==
  /\ buf \in [Kinds -> Seq(Cell)]
  /\ \A k \in Kinds : Len(buf[k]) = Cap[k]
  /\ flash \in [Kinds -> Seq(Cell)]
  /\ len \in [Kinds -> Nat]
  /\ staged \in [Kinds -> Nat]
  /\ expected \in [Kinds -> Nat]
  /\ \A k \in Kinds : staged[k] <= expected[k] /\ expected[k] <= Cap[k]
  /\ \A k \in Kinds : len[k] <= Cap[k] /\ Len(flash[k]) <= Cap[k]
  /\ loop \in [Threads -> LoopStates]
  /\ loop["wq"].op # "load" /\ loop["app"].op \notin {"save", "commit"}
  /\ rsp \in Answers
  /\ sent \in [Kinds -> Seq(Cell)]
  /\ reloaded \subseteq Kinds

\* A thread is between the settings call for a kind and its RAM update.
Midway(t, k) == loop[t].op \in {"commit", "clear"} /\ KindAt(t) = k

\* A credential pouch_prov_cred_present reports is in the settings backend
\* with that very length, so it is still there after a reboot, whatever the
\* order in which finalize, the two wipes and the reload took their steps and
\* whichever of the saves and deletes failed (cred_store.c:166-172, 205-206).
PresentIsStored ==
  \A k \in Kinds :
    (\A t \in Threads : ~Midway(t, k)) /\ len[k] > 0 => Len(flash[k]) = len[k]

\* Why it holds although finalize and a wipe interleave: the length finalize
\* is about to set is the one it has saved, unless a wipe has cleared the
\* kind in the meantime or is about to.
CommitIsSaved ==
  \A k \in Kinds :
    Midway("wq", k) /\ loop["wq"].op = "commit" =>
      \/ Len(flash[k]) = staged[k]
      \/ staged[k] = 0
      \/ Midway("app", k)

\* The staged prefix of a buffer is exactly what the client sent since offset
\* 0 of the current write, in order and complete, across refused chunks,
\* restarts of the write, sessions and wipes by the other thread - unless a
\* restart of the manager reloaded the buffer underneath it
\* (cred_store.c:123-132).
StagedIsSent ==
  \A k \in Kinds \ reloaded :
    /\ staged[k] = Len(sent[k])
    /\ Prefix(buf[k], staged[k]) = sent[k]

\* A finalize answered ok has stored what was staged: at that step the
\* settings hold the certificate and the key of the staging buffers, under
\* lengths the store reports - unless a wipe got in between, in which case
\* nothing is staged any more (cred_store.c:160-176).
FinalizedIsStored ==
  [][loop["wq"].op \in {"save", "commit"} /\ rsp'.op = "finalize" /\ rsp'.status = "ok"
       => \A k \in {"cert", "key"} \ reloaded :
            \/ staged[k] = 0
            \/ loop["app"].op \in {"wipe", "clear"}
            \/ flash'[k] = Prefix(buf[k], staged[k]) /\ len'[k] = staged[k]]_vars
=============================================================================
