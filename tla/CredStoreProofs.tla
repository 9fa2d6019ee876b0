--------------------------- MODULE CredStoreProofs ---------------------------
(***************************************************************************)
(* Proofs about CredStore, for every set of blobs and every capacity.      *)
(***************************************************************************)
EXTENDS CredStore, TLAPS

\* The first n cells of a buffer are a sequence of cells.
LEMMA PrefixType ==
  ASSUME NEW f \in Seq(Cell), NEW n \in Nat, n <= Len(f)
  PROVE  Prefix(f, n) \in Seq(Cell) /\ Len(Prefix(f, n)) = n
  BY DEF Prefix

\* A buffer filled from a stored value is a sequence of cells.
LEMMA FillType ==
  ASSUME NEW n \in Nat, NEW x \in Cell
  PROVE  Fill(n, x) \in Seq(Cell) /\ Len(Fill(n, x)) = n
  BY DEF Fill

\* Overwriting part of a buffer leaves a sequence of cells.
LEMMA OverwriteType ==
  ASSUME NEW f \in Seq(Cell), NEW d \in Seq(Cell), NEW n \in Nat
  PROVE  Overwrite(f, n, d) \in Seq(Cell) /\ Len(Overwrite(f, n, d)) = Len(f)
<1>1. \A i \in 1..Len(f) :
        (IF i \in n + 1 .. n + Len(d) THEN d[i - n] ELSE f[i]) \in Cell
  OBVIOUS
<1>2. Overwrite(f, n, d) =
        [i \in 1..Len(f) |-> IF i \in n + 1 .. n + Len(d) THEN d[i - n] ELSE f[i]]
  BY DEF Overwrite
<1> QED BY <1>1, <1>2

\* Appending d to the first n cells is what overwriting behind them leaves.
LEMMA OverwritePrefix ==
  ASSUME NEW f \in Seq(Cell), NEW d \in Seq(Cell), NEW n \in Nat, n + Len(d) <= Len(f)
  PROVE  Prefix(Overwrite(f, n, d), n + Len(d)) = Prefix(f, n) \o d
<1> DEFINE g == Prefix(Overwrite(f, n, d), n + Len(d))
           h == Prefix(f, n) \o d
<1>1. Prefix(f, n) \in Seq(Cell) /\ Len(Prefix(f, n)) = n
  BY PrefixType
<1>2. h \in Seq(Cell) /\ Len(h) = n + Len(d)
  BY <1>1
<1>3. g \in Seq(Cell) /\ Len(g) = n + Len(d)
  BY OverwriteType, PrefixType
<1>4. ASSUME NEW i \in 1 .. n + Len(d) PROVE g[i] = h[i]
  <2>1. CASE i <= n
    BY <2>1, <1>1 DEF Prefix, Overwrite
  <2>2. CASE i > n
    BY <2>2, <1>1 DEF Prefix, Overwrite
  <2>3. i <= n \/ i > n
    OBVIOUS
  <2> HIDE DEF g, h
  <2> QED BY <2>1, <2>2, <2>3
<1> QED BY <1>2, <1>3, <1>4

-----------------------------------------------------------------------------
\* A chunk a client sends is a sequence of cells.
LEMMA ChunkType == \A d \in Chunks : d \in Seq(Cell)
<1> SUFFICES ASSUME NEW n \in 0..MaxChunk, NEW x \in Blobs PROVE Fill(n, x) \in Seq(Cell)
  BY DEF Chunks
<1> QED BY ChunkAssumption, FillType DEF Cell

\* The initial state is well-typed.
LEMMA TypeInit == Init => TypeOK
<1> SUFFICES ASSUME Init PROVE TypeOK
  OBVIOUS
<1>1. Zero \in Cell
  BY DEF Cell
<1>2. \A k \in Kinds : Fill(Cap[k], Zero) \in Seq(Cell) /\ Len(Fill(Cap[k], Zero)) = Cap[k]
  BY <1>1, FillType, CapAssumption
<1>3. NothingStored \in [Kinds -> Seq(Cell)]
  BY DEF NothingStored
<1> QED
  BY <1>2, <1>3, CapAssumption
  DEF Init, TypeOK, NothingStored, LoopStates, Answers, NoAnswer, Answer, Threads, Idle, Kinds

\* Where a loop stands is a kind.
LEMMA KindAtType ==
  ASSUME TypeOK, NEW t \in Threads, loop[t].op \in LoopOps
  PROVE  /\ KindAt(t) \in Kinds
         /\ loop[t].at \in 1..3
<1>1. loop[t] \in [op : LoopOps, at : 1..3]
  BY DEF TypeOK, LoopStates, Idle, LoopOps
<1>2. loop[t].at \in 1..3
  BY <1>1
<1> QED BY <1>2 DEF KindAt, KindOrder, Kinds

\* A turn of a loop by the thread it belongs to keeps the loop well-typed.
LEMMA AdvanceType ==
  ASSUME TypeOK, NEW t \in Threads, loop[t].op \in LoopOps, NEW op \in LoopOps,
         t = "wq" => op # "load", t = "app" => op \notin {"save", "commit"},
         Advance(t, op) \/ Resume(t, op)
  PROVE  /\ loop' \in [Threads -> LoopStates]
         /\ loop'["wq"].op # "load" /\ loop'["app"].op \notin {"save", "commit"}
<1>1. loop[t].at \in 1..3 /\ loop \in [Threads -> LoopStates]
  BY KindAtType DEF TypeOK
<1>2. /\ (IF loop[t].at < 3 THEN At(op, loop[t].at + 1) ELSE Idle) \in LoopStates
      /\ At(op, loop[t].at) \in LoopStates
  BY <1>1 DEF At, LoopStates
<1> QED BY <1>1, <1>2 DEF Advance, Resume, TypeOK, Threads, At, Idle

\* The restart of a write and its announced total stay within the buffer.
LEMMA StageBounds ==
  ASSUME TypeOK, NEW k \in Kinds, NEW off \in Nat, NEW total \in Nat, total <= Cap[k]
  PROVE  /\ StageRestart(k, off) \in Nat
         /\ StageAnnounced(k, off, total) \in Nat
         /\ StageRestart(k, off) <= StageAnnounced(k, off, total)
         /\ StageAnnounced(k, off, total) <= Cap[k]
  BY CapAssumption DEF TypeOK, StageRestart, StageAnnounced

\* A write request, accepted or refused, keeps the types and the buffer bounds.
LEMMA WriteType ==
  ASSUME TypeOK, NEW k \in Kinds, NEW off \in Nat, NEW total \in Nat, NEW data \in Seq(Cell),
         Write(k, off, total, data)
  PROVE  TypeOK'
<1>1. CASE StageTooLong(k, total)
  BY <1>1 DEF StageTooLong, Write, TypeOK, ram, hist, Answer, Answers
<1>2. CASE StageRefused(k, off, total, data)
  <2>1. <<>> \in Seq(Cell)
    OBVIOUS
  <2> QED BY <1>2, <2>1, StageBounds DEF StageRefused, Write, TypeOK, Answer, Answers
<1>3. CASE StageAccepted(k, off, total, data)
  <2>0. /\ total <= Cap[k]
        /\ StageRestart(k, off) + Len(data) <= StageAnnounced(k, off, total)
    BY <1>3 DEF StageAccepted, StageInOrder
  <2>1. /\ Overwrite(buf[k], StageRestart(k, off), data) \in Seq(Cell)
        /\ Len(Overwrite(buf[k], StageRestart(k, off), data)) = Cap[k]
    BY <2>0, StageBounds, OverwriteType DEF TypeOK
  <2>2. (IF off = 0 THEN <<>> ELSE sent[k]) \o data \in Seq(Cell)
    BY DEF TypeOK
  <2>3. StageRestart(k, off) + Len(data) \in Nat
    <3>1. Len(data) \in Nat /\ StageRestart(k, off) \in Nat
      BY <2>0, StageBounds
    <3> QED BY <3>1
  <2> QED BY <1>3, <2>0, <2>1, <2>2, <2>3, StageBounds
          DEF StageAccepted, Write, TypeOK, Answer, Answers
<1> QED BY <1>1, <1>2, <1>3 DEF Write

\* What a boot loads from the settings is well-typed.
LEMMA BootType ==
  ASSUME TypeOK, BootRam(flash)
  PROVE  /\ buf' \in [Kinds -> Seq(Cell)]
         /\ \A k \in Kinds : Len(buf'[k]) = Cap[k]
         /\ len' \in [Kinds -> Nat]
         /\ \A k \in Kinds : len'[k] <= Cap[k]
<1>1. ASSUME NEW k \in Kinds
      PROVE  /\ Overwrite(Fill(Cap[k], Zero), 0, flash[k]) \in Seq(Cell)
             /\ Len(Overwrite(Fill(Cap[k], Zero), 0, flash[k])) = Cap[k]
  <2>1. Zero \in Cell /\ Cap[k] \in Nat /\ flash[k] \in Seq(Cell)
    BY CapAssumption DEF TypeOK, Cell
  <2>2. Fill(Cap[k], Zero) \in Seq(Cell) /\ Len(Fill(Cap[k], Zero)) = Cap[k]
    BY <2>1, FillType
  <2> QED BY <2>1, <2>2, OverwriteType
<1> QED BY <1>1 DEF BootRam, TypeOK

\* Every step keeps the types and the buffer bounds.
LEMMA TypeStep == TypeOK /\ [Next]_vars => TypeOK'
<1> SUFFICES ASSUME TypeOK, [Next]_vars PROVE TypeOK'
  OBVIOUS
<1>1. ASSUME NEW k \in Kinds, NEW off \in 0..Cap[k], NEW total \in 0 .. Cap[k] + 1,
             NEW data \in Chunks, Write(k, off, total, data)
      PROVE  TypeOK'
  BY <1>1, WriteType, ChunkType, CapAssumption
<1>2. CASE FinalizeRefused
  BY <1>2 DEF FinalizeRefused, TypeOK, ram, hist, Answer, Answers
<1>3. CASE FinalizeBegin
  BY <1>3 DEF FinalizeBegin, TypeOK, ram, hist, Enter, At, LoopStates, LoopOps, Threads
<1>4. CASE FinalizeSkip
  BY <1>4, AdvanceType
  DEF FinalizeSkip, FinalizeTurn, TypeOK, hist, Answer, Answers, Threads, LoopOps
<1>5. CASE FinalizeSave
  <2>1. KindAt("wq") \in Kinds
    BY <1>5, KindAtType DEF FinalizeSave, Threads, LoopOps
  <2>2. /\ Prefix(buf[KindAt("wq")], staged[KindAt("wq")]) \in Seq(Cell)
        /\ Len(Prefix(buf[KindAt("wq")], staged[KindAt("wq")])) = staged[KindAt("wq")]
        /\ staged[KindAt("wq")] <= Cap[KindAt("wq")]
    BY <2>1, PrefixType, CapAssumption DEF TypeOK
  <2>3. /\ loop' \in [Threads -> LoopStates]
        /\ loop'["wq"].op # "load" /\ loop'["app"].op \notin {"save", "commit"}
    BY <1>5, AdvanceType DEF FinalizeSave, Threads, LoopOps
  <2> QED BY <1>5, <2>1, <2>2, <2>3 DEF FinalizeSave, TypeOK, ram, hist
<1>6. CASE FinalizeCommit
  <2>1. KindAt("wq") \in Kinds
    BY <1>6, KindAtType DEF FinalizeCommit, Threads, LoopOps
  <2>2. /\ loop' \in [Threads -> LoopStates]
        /\ loop'["wq"].op # "load" /\ loop'["app"].op \notin {"save", "commit"}
    BY <1>6, AdvanceType DEF FinalizeCommit, FinalizeTurn, Threads, LoopOps
  <2>3. rsp' \in Answers
    BY <1>6 DEF FinalizeCommit, FinalizeTurn, TypeOK, Answer, Answers
  <2>4. len' \in [Kinds -> Nat] /\ \A k \in Kinds : len'[k] <= Cap[k]
    BY <1>6, <2>1, CapAssumption DEF FinalizeCommit, TypeOK
  <2>5. UNCHANGED <<buf, staged, expected, flash, hist>>
    BY <1>6 DEF FinalizeCommit, FinalizeTurn
  <2> QED BY <2>2, <2>3, <2>4, <2>5 DEF TypeOK, hist
<1>7. CASE FinalizeSaveFails
  BY <1>7 DEF FinalizeSaveFails, TypeOK, ram, hist, Leave, LoopStates, Threads, Idle, Answer, Answers
<1>8. ASSUME NEW t \in Threads, WipeBegin(t) PROVE TypeOK'
  BY <1>8 DEF WipeBegin, TypeOK, ram, hist, Enter, At, LoopStates, LoopOps, Threads
<1>13. ASSUME NEW t \in Threads, WipeDelete(t) PROVE TypeOK'
  <2>1. KindAt(t) \in Kinds
    BY <1>13, KindAtType DEF WipeDelete, LoopOps
  <2>2. <<>> \in Seq(Cell) /\ Len(<<>>) = 0
    OBVIOUS
  <2>3. /\ loop' \in [Threads -> LoopStates]
        /\ loop'["wq"].op # "load" /\ loop'["app"].op \notin {"save", "commit"}
    BY <1>13, AdvanceType DEF WipeDelete, LoopOps
  <2>4. \A k \in Kinds : flash'[k] \in {flash[k], <<>>}
    BY <1>13, <2>1 DEF WipeDelete, TypeOK
  <2>5. flash' \in [Kinds -> Seq(Cell)] /\ \A k \in Kinds : Len(flash'[k]) <= Cap[k]
    <3>1. DOMAIN flash' = Kinds /\ flash' = [k \in Kinds |-> flash'[k]]
      BY <1>13 DEF WipeDelete, TypeOK
    <3>2. ASSUME NEW k \in Kinds PROVE flash'[k] \in Seq(Cell) /\ Len(flash'[k]) <= Cap[k]
      <4>1. CASE flash'[k] = flash[k]
        BY <4>1 DEF TypeOK
      <4>2. CASE flash'[k] = <<>>
        <5>1. Cap[k] \in Nat
          BY CapAssumption
        <5> QED BY <4>2, <2>2, <5>1
      <4> QED BY <2>4, <4>1, <4>2
    <3> QED BY <3>1, <3>2
  <2> QED BY <1>13, <2>3, <2>5 DEF WipeDelete, TypeOK, ram, hist
<1>14. ASSUME NEW t \in Threads, WipeClear(t) PROVE TypeOK'
  <2>1. KindAt(t) \in Kinds
    BY <1>14, KindAtType DEF WipeClear, LoopOps
  <2>2. <<>> \in Seq(Cell)
    OBVIOUS
  <2>3. /\ loop' \in [Threads -> LoopStates]
        /\ loop'["wq"].op # "load" /\ loop'["app"].op \notin {"save", "commit"}
    BY <1>14, AdvanceType DEF WipeClear, LoopOps
  <2>4. sent' \in [Kinds -> Seq(Cell)] /\ len' \in [Kinds -> Nat]
    BY <1>14, <2>1, <2>2 DEF WipeClear, TypeOK
  <2> QED BY <1>14, <2>1, <2>3, <2>4, CapAssumption DEF WipeClear, TypeOK
<1>9. CASE ReloadBegin
  BY <1>9 DEF ReloadBegin, TypeOK, ram, hist, Enter, At, LoopStates, LoopOps, Threads
<1>10. CASE ReloadKind
  <2>1. KindAt("app") \in Kinds
    BY <1>10, KindAtType DEF ReloadKind, Threads, LoopOps
  <2>2. /\ Overwrite(buf[KindAt("app")], 0, flash[KindAt("app")]) \in Seq(Cell)
        /\ Len(Overwrite(buf[KindAt("app")], 0, flash[KindAt("app")])) = Cap[KindAt("app")]
    BY <2>1, OverwriteType DEF TypeOK
  <2>3. /\ loop' \in [Threads -> LoopStates]
        /\ loop'["wq"].op # "load" /\ loop'["app"].op \notin {"save", "commit"}
    BY <1>10, AdvanceType DEF ReloadKind, Threads, LoopOps
  <2>4. CASE flash[KindAt("app")] = <<>>
    BY <1>10, <2>3, <2>4 DEF ReloadKind, TypeOK
  <2>5. CASE flash[KindAt("app")] # <<>>
    <3>1. /\ buf' = [buf EXCEPT ![KindAt("app")] = Overwrite(@, 0, flash[KindAt("app")])]
          /\ len' = [len EXCEPT ![KindAt("app")] = Len(flash[KindAt("app")])]
          /\ reloaded' = reloaded \union {KindAt("app")}
          /\ UNCHANGED <<staged, expected, flash, rsp, sent>>
      BY <1>10, <2>5 DEF ReloadKind
    <3>2. buf' \in [Kinds -> Seq(Cell)] /\ \A k \in Kinds : Len(buf'[k]) = Cap[k]
      BY <3>1, <2>1, <2>2 DEF TypeOK
    <3>3. len' \in [Kinds -> Nat] /\ \A k \in Kinds : len'[k] <= Cap[k]
      BY <3>1, <2>1 DEF TypeOK
    <3> QED BY <3>1, <3>2, <3>3, <2>1, <2>3 DEF TypeOK
  <2> QED BY <2>4, <2>5
<1>11. CASE PowerCycle
  <2>1. <<>> \in Seq(Cell)
    OBVIOUS
  <2> QED BY <1>11, <2>1, BootType, CapAssumption
          DEF PowerCycle, BootRam, TypeOK, LoopStates, Idle, Threads, NoAnswer, Answer, Answers
<1>12. CASE UNCHANGED vars
  BY <1>12 DEF vars, TypeOK
<1> QED
  BY <1>1, <1>2, <1>3, <1>4, <1>5, <1>6, <1>7, <1>8, <1>9, <1>10, <1>11, <1>12,
     <1>13, <1>14 DEF Next

\* Types and buffer bounds hold in every reachable state: whatever a client
\* announces and sends, and whatever fails, memcpy in pouch_prov_cred_stage
\* stays inside the static buffer of the kind.
THEOREM TypeCorrect == Spec => []TypeOK
<1>1. Init => TypeOK
  BY TypeInit
<1>2. TypeOK /\ [Next]_vars => TypeOK'
  BY TypeStep
<1> QED BY <1>1, <1>2, PTL DEF Spec

-----------------------------------------------------------------------------
\* PresentIsStored is not inductive: what finalize is about to write to len is
\* only known through CommitIsSaved.
StoredInv == TypeOK /\ PresentIsStored /\ CommitIsSaved

\* A step that is outside every save and delete: no thread enters or leaves
\* the gap between a settings call and its RAM update.
LEMMA QuietStep ==
  ASSUME StoredInv, UNCHANGED <<len, flash>>,
         \A t \in Threads, k \in Kinds : Midway(t, k)' <=> Midway(t, k),
         loop'["wq"].op = "commit" => staged' = staged /\ loop["wq"].op = "commit"
  PROVE  PresentIsStored' /\ CommitIsSaved'
  BY DEF StoredInv, PresentIsStored, CommitIsSaved, Threads

\* Only the thread that moves may enter or leave a gap.
LEMMA MidwayOther ==
  ASSUME TypeOK, NEW t \in Threads, NEW r, loop' = [loop EXCEPT ![t] = r],
         NEW u \in Threads \ {t}, NEW k \in Kinds
  PROVE  Midway(u, k)' <=> Midway(u, k)
  BY DEF TypeOK, Midway, KindAt

\* A thread that moves outside the gaps leaves Midway as it is.
LEMMA MidwayOutside ==
  ASSUME TypeOK, NEW t \in Threads, NEW r, loop' = [loop EXCEPT ![t] = r],
         loop[t].op \notin {"commit", "clear"}, r.op \notin {"commit", "clear"}
  PROVE  \A u \in Threads, k \in Kinds : Midway(u, k)' <=> Midway(u, k)
<1>1. \A k \in Kinds : ~Midway(t, k) /\ ~Midway(t, k)'
  BY DEF TypeOK, Midway
<1> QED BY <1>1, MidwayOther

\* The same for a turn of a loop that is outside the gaps.
LEMMA MidwayAdvance ==
  ASSUME TypeOK, NEW t \in Threads, NEW op \in LoopOps, Advance(t, op),
         loop[t].op \notin {"commit", "clear"}, op \notin {"commit", "clear"}
  PROVE  /\ \A u \in Threads, k \in Kinds : Midway(u, k)' <=> Midway(u, k)
         /\ loop'[t].op # "commit"
         /\ \A u \in Threads \ {t} : loop'[u] = loop[u]
<1> DEFINE r == IF loop[t].at < 3 THEN At(op, loop[t].at + 1) ELSE Idle
<1>1. loop' = [loop EXCEPT ![t] = r]
  BY DEF Advance
<1>2. r.op \notin {"commit", "clear"}
  BY DEF At, Idle
<1> HIDE DEF r
<1> QED BY <1>1, <1>2, MidwayOutside DEF TypeOK

\* Entering a loop is outside the gaps.
LEMMA MidwayBegin ==
  ASSUME TypeOK, NEW t \in Threads, NEW op, op \notin {"commit", "clear"},
         loop[t] = Idle, Enter(t, op)
  PROVE  /\ \A u \in Threads, k \in Kinds : Midway(u, k)' <=> Midway(u, k)
         /\ loop'[t].op # "commit"
         /\ \A u \in Threads \ {t} : loop'[u] = loop[u]
<1> DEFINE r == At(op, 1)
<1>1. loop' = [loop EXCEPT ![t] = r]
  BY DEF Enter
<1>2. r.op \notin {"commit", "clear"} /\ loop[t].op \notin {"commit", "clear"}
  BY DEF At, Idle
<1> HIDE DEF r
<1> QED BY <1>1, <1>2, MidwayOutside DEF TypeOK

\* A turn by a thread that was in the gap of a kind takes it out of the gap.
LEMMA MidwayLeave ==
  ASSUME TypeOK, NEW t \in Threads, NEW op \in LoopOps, Advance(t, op),
         op \notin {"commit", "clear"}
  PROVE  /\ \A k \in Kinds : ~Midway(t, k)'
         /\ \A u \in Threads \ {t}, k \in Kinds : Midway(u, k)' <=> Midway(u, k)
         /\ \A u \in Threads \ {t} : loop'[u] = loop[u]
         /\ loop'[t].op # "commit"
<1> DEFINE r == IF loop[t].at < 3 THEN At(op, loop[t].at + 1) ELSE Idle
<1>1. loop' = [loop EXCEPT ![t] = r]
  BY DEF Advance
<1>2. r.op \notin {"commit", "clear"}
  BY DEF At, Idle
<1> HIDE DEF r
<1>3. \A k \in Kinds : ~Midway(t, k)'
  BY <1>1, <1>2 DEF TypeOK, Midway
<1> QED BY <1>1, <1>2, <1>3, MidwayOther DEF TypeOK

\* Returning from the settings call for a kind enters the gap of that kind.
LEMMA MidwayEnter ==
  ASSUME TypeOK, NEW t \in Threads, NEW op \in {"commit", "clear"}, Resume(t, op)
  PROVE  /\ \A k \in Kinds : Midway(t, k)' <=> k = KindAt(t)
         /\ \A u \in Threads \ {t}, k \in Kinds : Midway(u, k)' <=> Midway(u, k)
         /\ \A u \in Threads \ {t} : loop'[u] = loop[u]
         /\ loop'[t].op = op
<1> DEFINE r == At(op, loop[t].at)
<1>1. loop' = [loop EXCEPT ![t] = r]
  BY DEF Resume
<1>2. r.op = op /\ r.at = loop[t].at
  BY DEF At
<1> HIDE DEF r
<1>3. \A k \in Kinds : Midway(t, k)' <=> k = KindAt(t)
  BY <1>1, <1>2 DEF TypeOK, Midway, KindAt
<1> QED BY <1>1, <1>2, <1>3, MidwayOther DEF TypeOK

\* Every step of finalize, the wipes, the reload and the writes keeps the
\* reported lengths those of the settings backend.
LEMMA StoredStep == StoredInv /\ [Next]_vars => PresentIsStored' /\ CommitIsSaved'
<1> SUFFICES ASSUME StoredInv, [Next]_vars PROVE PresentIsStored' /\ CommitIsSaved'
  OBVIOUS
<1> USE DEF Threads, LoopOps
<1>0. TypeOK
  BY DEF StoredInv
<1>1. ASSUME NEW k \in Kinds, NEW off \in 0..Cap[k], NEW total \in 0 .. Cap[k] + 1,
             NEW data \in Chunks, Write(k, off, total, data)
      PROVE  PresentIsStored' /\ CommitIsSaved'
  <2>1. UNCHANGED <<len, flash, loop>> /\ loop["wq"] = Idle
    BY <1>1 DEF Write, StageTooLong, StageRefused, StageAccepted, ram
  <2> QED BY <2>1, QuietStep DEF Midway, KindAt, Idle
<1>2. CASE FinalizeRefused \/ UNCHANGED vars
  <2>1. UNCHANGED <<len, staged, flash, loop>>
    BY <1>2 DEF FinalizeRefused, vars, ram
  <2> QED BY <2>1, QuietStep DEF Midway, KindAt
<1>3. CASE FinalizeBegin
  BY <1>0, <1>3, MidwayBegin, QuietStep DEF FinalizeBegin, ram
<1>4. CASE FinalizeSkip
  BY <1>0, <1>4, MidwayAdvance, QuietStep DEF FinalizeSkip, FinalizeTurn
<1>5. CASE FinalizeSave
  <2> DEFINE k == KindAt("wq")
  <2>1. k \in Kinds
    BY <1>0, <1>5, KindAtType DEF FinalizeSave
  <2>2. Len(Prefix(buf[k], staged[k])) = staged[k]
    <3>1. buf[k] \in Seq(Cell) /\ staged[k] \in Nat /\ staged[k] <= Len(buf[k])
      BY <1>0, <2>1, CapAssumption DEF TypeOK
    <3> QED BY <3>1, PrefixType
  <2>3. /\ flash' = [flash EXCEPT ![k] = Prefix(buf[k], staged[k])]
        /\ UNCHANGED <<len, staged>>
        /\ loop["wq"].op = "save"
        /\ \A x \in Kinds : Midway("wq", x)' <=> x = k
        /\ \A x \in Kinds : Midway("app", x)' <=> Midway("app", x)
    BY <1>0, <1>5, MidwayEnter DEF FinalizeSave, ram
  <2>4. \A x \in Kinds : ~Midway("wq", x)
    BY <2>3 DEF Midway
  <2>5. flash'[k] = Prefix(buf[k], staged[k]) /\ \A x \in Kinds \ {k} : flash'[x] = flash[x]
    BY <1>0, <2>1, <2>3 DEF TypeOK
  <2> HIDE DEF k
  <2> QED BY <2>1, <2>2, <2>3, <2>4, <2>5 DEF StoredInv, PresentIsStored, CommitIsSaved
<1>6. CASE FinalizeCommit
  <2> DEFINE k == KindAt("wq")
  <2>1. k \in Kinds
    BY <1>0, <1>6, KindAtType DEF FinalizeCommit
  <2>2. /\ UNCHANGED <<flash, staged>>
        /\ len' = [len EXCEPT ![k] = staged[k]]
        /\ loop["wq"].op = "commit" /\ loop'["wq"].op # "commit"
        /\ \A x \in Kinds : ~Midway("wq", x)'
        /\ \A x \in Kinds : Midway("app", x)' <=> Midway("app", x)
    BY <1>0, <1>6, MidwayLeave DEF FinalizeCommit, FinalizeTurn
  <2>3. \A x \in Kinds : Midway("wq", x) <=> x = k
    BY <2>2 DEF Midway
  <2>4. len'[k] = staged[k] /\ \A x \in Kinds \ {k} : len'[x] = len[x]
    BY <1>0, <2>1, <2>2 DEF TypeOK
  <2> HIDE DEF k
  <2> QED BY <2>1, <2>2, <2>3, <2>4 DEF StoredInv, PresentIsStored, CommitIsSaved
<1>7. CASE FinalizeSaveFails
  BY <1>0, <1>7, MidwayOutside, QuietStep DEF FinalizeSaveFails, Leave, Idle, ram, TypeOK
<1>8. ASSUME NEW t \in Threads, WipeBegin(t) PROVE PresentIsStored' /\ CommitIsSaved'
  <2>1. \A u \in Threads, x \in Kinds : Midway(u, x)' <=> Midway(u, x)
    BY <1>0, <1>8, MidwayBegin DEF WipeBegin
  <2>2. UNCHANGED <<len, flash, staged>> /\ (loop'["wq"].op = "commit" => loop["wq"].op = "commit")
    BY <1>0, <1>8, MidwayBegin DEF WipeBegin, ram
  <2> QED BY <2>1, <2>2, QuietStep
<1>9. ASSUME NEW t \in Threads, WipeDelete(t) PROVE PresentIsStored' /\ CommitIsSaved'
  <2> DEFINE k == KindAt(t)
  <2>1. k \in Kinds
    BY <1>0, <1>9, KindAtType DEF WipeDelete
  <2>2. /\ UNCHANGED <<len, staged>>
        /\ loop[t].op = "wipe" /\ loop'[t].op = "clear"
        /\ \A x \in Kinds : Midway(t, x)' <=> x = k
        /\ \A u \in Threads \ {t}, x \in Kinds : Midway(u, x)' <=> Midway(u, x)
        /\ \A u \in Threads \ {t} : loop'[u] = loop[u]
    BY <1>0, <1>9, MidwayEnter DEF WipeDelete, ram
  <2>3. \A x \in Kinds : ~Midway(t, x)
    BY <2>2 DEF Midway
  <2>4. \A x \in Kinds \ {k} : flash'[x] = flash[x]
    BY <1>0, <1>9, <2>1 DEF WipeDelete, TypeOK
  <2> HIDE DEF k
  <2>5. PresentIsStored'
    BY <2>1, <2>2, <2>3, <2>4 DEF StoredInv, PresentIsStored
  <2>6. CommitIsSaved'
    BY <2>1, <2>2, <2>3, <2>4 DEF StoredInv, CommitIsSaved
  <2> QED BY <2>5, <2>6
<1>10. ASSUME NEW t \in Threads, WipeClear(t) PROVE PresentIsStored' /\ CommitIsSaved'
  <2> DEFINE k == KindAt(t)
  <2>1. k \in Kinds
    BY <1>0, <1>10, KindAtType DEF WipeClear
  <2>2. /\ flash' = flash
        /\ loop[t].op = "clear" /\ loop'[t].op # "commit"
        /\ \A x \in Kinds : ~Midway(t, x)'
        /\ \A u \in Threads \ {t}, x \in Kinds : Midway(u, x)' <=> Midway(u, x)
        /\ \A u \in Threads \ {t} : loop'[u] = loop[u]
    BY <1>0, <1>10, MidwayLeave DEF WipeClear
  <2>3. \A x \in Kinds : Midway(t, x) <=> x = k
    BY <2>2 DEF Midway
  <2>4. /\ len'[k] = 0 /\ staged'[k] = 0
        /\ \A x \in Kinds \ {k} : len'[x] = len[x] /\ staged'[x] = staged[x]
    BY <1>0, <1>10, <2>1 DEF WipeClear, TypeOK
  <2> HIDE DEF k
  <2>5. PresentIsStored'
    BY <2>1, <2>2, <2>3, <2>4 DEF StoredInv, PresentIsStored
  <2>6. CommitIsSaved'
    BY <2>1, <2>2, <2>3, <2>4 DEF StoredInv, CommitIsSaved
  <2> QED BY <2>5, <2>6
<1>11. CASE ReloadBegin
  BY <1>0, <1>11, MidwayBegin, QuietStep DEF ReloadBegin, ram
<1>12. CASE ReloadKind
  <2> DEFINE k == KindAt("app")
  <2>1. k \in Kinds
    BY <1>0, <1>12, KindAtType DEF ReloadKind
  <2>2. /\ UNCHANGED <<flash, staged>>
        /\ len' = len \/ len' = [len EXCEPT ![k] = Len(flash[k])]
        /\ loop'["wq"] = loop["wq"]
        /\ \A u \in Threads, x \in Kinds : Midway(u, x)' <=> Midway(u, x)
    BY <1>0, <1>12, MidwayAdvance DEF ReloadKind
  <2> HIDE DEF k
  <2>3. \A x \in Kinds : len'[x] = len[x] \/ len'[x] = Len(flash[x])
    BY <1>0, <2>1, <2>2 DEF TypeOK
  <2> QED BY <2>2, <2>3 DEF StoredInv, PresentIsStored, CommitIsSaved
<1>13. CASE PowerCycle
  BY <1>13 DEF PowerCycle, BootRam, PresentIsStored, CommitIsSaved, Midway, Idle
<1> QED
  BY <1>1, <1>2, <1>3, <1>4, <1>5, <1>6, <1>7, <1>8, <1>9, <1>10, <1>11, <1>12, <1>13 DEF Next

\* A credential reported present is in the settings backend with the same
\* length, in every reachable state outside a running save or delete of it
\* (cred_store.c:166-172, 186-189, 205-206).
THEOREM PresentCorrect == Spec => []PresentIsStored
<1>1. Init => PresentIsStored /\ CommitIsSaved
  BY DEF Init, PresentIsStored, CommitIsSaved, Midway, Idle, Threads
<1>2. TypeOK /\ PresentIsStored /\ CommitIsSaved /\ [Next]_vars => PresentIsStored' /\ CommitIsSaved'
  BY StoredStep DEF StoredInv
<1> QED BY <1>1, <1>2, TypeCorrect, PTL DEF Spec

\* Whatever length finalize is about to set is that of the value it has saved,
\* unless a wipe by the application has cleared the kind since or is about to
\* (cred_store.c:166-172 against 205-210).
THEOREM CommitCorrect == Spec => []CommitIsSaved
<1>1. Init => PresentIsStored /\ CommitIsSaved
  BY DEF Init, PresentIsStored, CommitIsSaved, Midway, Idle, Threads
<1>2. TypeOK /\ PresentIsStored /\ CommitIsSaved /\ [Next]_vars => PresentIsStored' /\ CommitIsSaved'
  BY StoredStep DEF StoredInv
<1> QED BY <1>1, <1>2, TypeCorrect, PTL DEF Spec

-----------------------------------------------------------------------------
\* Nothing staged is the empty prefix.
LEMMA PrefixEmpty ==
  ASSUME NEW f PROVE Prefix(f, 0) = <<>> /\ Len(<<>>) = 0
  BY DEF Prefix

\* Forgetting what was staged of one kind is forgetting what was sent of it.
LEMMA ClearedIsSent ==
  ASSUME StagedIsSent, NEW k \in Kinds, buf' = buf, staged'[k] = 0, sent'[k] = <<>>,
         \A x \in Kinds \ {k} : staged'[x] = staged[x] /\ sent'[x] = sent[x],
         \A x \in Kinds \ {k} : x \in reloaded' <=> x \in reloaded
  PROVE  StagedIsSent'
<1>1. staged'[k] = Len(sent'[k]) /\ Prefix(buf'[k], staged'[k]) = sent'[k]
  <2>1. Prefix(buf'[k], 0) = <<>> /\ Len(<<>>) = 0
    BY PrefixEmpty
  <2> QED BY <2>1
<1>2. ASSUME NEW x \in Kinds \ {k}, x \notin reloaded'
      PROVE  staged'[x] = Len(sent'[x]) /\ Prefix(buf'[x], staged'[x]) = sent'[x]
  BY <1>2 DEF StagedIsSent
<1> QED BY <1>1, <1>2 DEF StagedIsSent

\* An accepted chunk extends the staged prefix by exactly the chunk.
LEMMA AcceptedIsSent ==
  ASSUME TypeOK, StagedIsSent, NEW k \in Kinds, NEW off \in Nat, NEW total \in Nat,
         NEW data \in Seq(Cell), StageAccepted(k, off, total, data)
  PROVE  StagedIsSent'
<1> DEFINE n == StageRestart(k, off)
           s == IF off = 0 THEN <<>> ELSE sent[k]
<1>1. /\ buf[k] \in Seq(Cell) /\ Len(buf[k]) = Cap[k]
      /\ n \in Nat /\ n + Len(data) <= Len(buf[k])
  <2>1. total <= Cap[k] /\ n + Len(data) <= StageAnnounced(k, off, total)
    BY DEF StageAccepted, StageInOrder
  <2>2. n \in Nat /\ StageAnnounced(k, off, total) \in Nat /\ StageAnnounced(k, off, total) <= Cap[k]
    BY <2>1, StageBounds
  <2>3. buf[k] \in Seq(Cell) /\ Len(buf[k]) = Cap[k] /\ Cap[k] \in Nat /\ Len(data) \in Nat
    BY CapAssumption DEF TypeOK
  <2> HIDE DEF n
  <2> QED BY <2>1, <2>2, <2>3
<1>2. Prefix(Overwrite(buf[k], n, data), n + Len(data)) = Prefix(buf[k], n) \o data
  BY <1>1, OverwritePrefix
<1>3. /\ buf'[k] = Overwrite(buf[k], n, data) /\ staged'[k] = n + Len(data)
      /\ sent'[k] = s \o data
      /\ \A x \in Kinds \ {k} : buf'[x] = buf[x] /\ staged'[x] = staged[x] /\ sent'[x] = sent[x]
  BY DEF TypeOK, StageAccepted
<1>4. ASSUME k \notin reloaded'
      PROVE  Prefix(buf[k], n) = s /\ n = Len(s) /\ s \in Seq(Cell)
  <2>1. CASE off = 0
    <3>1. n = 0 /\ s = <<>>
      BY <2>1 DEF StageRestart
    <3> HIDE DEF n, s
    <3> QED BY <3>1, PrefixEmpty
  <2>2. CASE off # 0
    <3>1. n = staged[k] /\ s = sent[k] /\ k \notin reloaded
      BY <2>2, <1>4 DEF StageRestart, StageAccepted
    <3> HIDE DEF n, s
    <3> QED BY <3>1 DEF StagedIsSent, TypeOK
  <2> QED BY <2>1, <2>2
<1>5. \A x \in Kinds \ {k} : x \in reloaded' <=> x \in reloaded
  BY DEF StageAccepted
<1> HIDE DEF n, s
<1>6. ASSUME k \notin reloaded' PROVE staged'[k] = Len(sent'[k]) /\ Prefix(buf'[k], staged'[k]) = sent'[k]
  <2>1. Len(s \o data) = Len(s) + Len(data)
    BY <1>4, <1>6
  <2> QED BY <1>2, <1>3, <1>4, <1>6, <2>1
<1> QED BY <1>3, <1>5, <1>6 DEF StagedIsSent

\* Every step keeps the staged prefix what the client sent.
LEMMA SentStep == TypeOK /\ StagedIsSent /\ [Next]_vars => StagedIsSent'
<1> SUFFICES ASSUME TypeOK, StagedIsSent, [Next]_vars PROVE StagedIsSent'
  OBVIOUS
<1>1. ASSUME NEW k \in Kinds, NEW off \in 0..Cap[k], NEW total \in 0 .. Cap[k] + 1,
             NEW data \in Chunks, Write(k, off, total, data)
      PROVE  StagedIsSent'
  <2>1. CASE StageTooLong(k, total)
    BY <2>1 DEF StageTooLong, ram, hist, StagedIsSent
  <2>2. CASE StageRefused(k, off, total, data)
    <3>1. CASE off = 0
      <4>1. /\ buf' = buf /\ staged'[k] = 0 /\ sent'[k] = <<>>
            /\ \A x \in Kinds \ {k} : staged'[x] = staged[x] /\ sent'[x] = sent[x]
            /\ \A x \in Kinds \ {k} : x \in reloaded' <=> x \in reloaded
        BY <2>2, <3>1 DEF StageRefused, StageRestart, TypeOK
      <4> QED BY <4>1, ClearedIsSent
    <3>2. CASE off # 0
      BY <2>2, <3>2 DEF StageRefused, StageRestart, StagedIsSent, TypeOK
    <3> QED BY <3>1, <3>2
  <2>3. CASE StageAccepted(k, off, total, data)
    BY <2>3, AcceptedIsSent, ChunkType, CapAssumption
  <2> QED BY <1>1, <2>1, <2>2, <2>3 DEF Write
<1>2. CASE FinalizeRefused \/ FinalizeBegin \/ FinalizeSkip \/ FinalizeSave \/ FinalizeCommit
           \/ FinalizeSaveFails \/ ReloadBegin \/ UNCHANGED vars
  <2>1. UNCHANGED <<buf, staged, sent, reloaded>>
    BY <1>2 DEF FinalizeRefused, FinalizeBegin, FinalizeSkip, FinalizeSave, FinalizeCommit,
                FinalizeSaveFails, FinalizeTurn, ReloadBegin, vars, ram, hist
  <2> QED BY <2>1 DEF StagedIsSent
<1>3. ASSUME NEW t \in Threads, WipeBegin(t) \/ WipeDelete(t) PROVE StagedIsSent'
  BY <1>3 DEF WipeBegin, WipeDelete, ram, hist, StagedIsSent
<1>4. ASSUME NEW t \in Threads, WipeClear(t) PROVE StagedIsSent'
  <2> DEFINE k == KindAt(t)
  <2>1. k \in Kinds
    BY <1>4, KindAtType DEF WipeClear, LoopOps
  <2>2. /\ buf' = buf /\ staged'[k] = 0 /\ sent'[k] = <<>>
        /\ \A x \in Kinds \ {k} : staged'[x] = staged[x] /\ sent'[x] = sent[x]
        /\ \A x \in Kinds \ {k} : x \in reloaded' <=> x \in reloaded
    BY <1>4, <2>1 DEF WipeClear, TypeOK
  <2> HIDE DEF k
  <2> QED BY <2>1, <2>2, ClearedIsSent
<1>5. CASE ReloadKind
  <2> DEFINE k == KindAt("app")
  <2>1. k \in Kinds
    BY <1>5, KindAtType DEF ReloadKind, LoopOps, Threads
  <2>2. /\ UNCHANGED <<staged, sent>>
        /\ reloaded \subseteq reloaded'
        /\ \A x \in Kinds \ reloaded' : buf'[x] = buf[x]
    BY <1>5, <2>1 DEF ReloadKind, TypeOK
  <2> QED BY <2>2 DEF StagedIsSent
<1>6. CASE PowerCycle
  BY <1>6, PrefixEmpty DEF PowerCycle, BootRam, StagedIsSent
<1> QED BY <1>1, <1>2, <1>3, <1>4, <1>5, <1>6 DEF Next

\* What is staged is what the client sent, in order and complete, for every
\* chunk size and every history of refused chunks, restarts, wipes and power
\* cycles, outside the kinds a manager restart reloaded
\* (cred_store.c:123-132).
THEOREM StagedCorrect == Spec => []StagedIsSent
<1>1. Init => StagedIsSent
  BY PrefixEmpty DEF Init, StagedIsSent
<1>2. TypeOK /\ StagedIsSent /\ [Next]_vars => StagedIsSent'
  BY SentStep
<1> QED BY <1>1, <1>2, TypeCorrect, PTL DEF Spec

-----------------------------------------------------------------------------
\* Nothing is staged for the i-th kind any more, or a wipe has still to clear it.
Gone(i) ==
  \/ staged[KindOrder[i]] = 0
  \/ \E t \in Threads : loop[t].op \in {"wipe", "clear"} /\ loop[t].at <= i

Saved(k) == flash[k] = Prefix(buf[k], staged[k])

Stored(i) ==
  LET k == KindOrder[i] IN
  k \in reloaded \/ Gone(i) \/ (Saved(k) /\ len[k] = staged[k])

\* What finalize has achieved for the i-th kind, certificate or key: it is
\* still complete or wiped, and once the loop is past it, it is stored.
FinalizePassed(i) ==
  LET k == KindOrder[i] IN
  /\ staged[k] = 0 \/ Complete(k)
  /\ i < loop["wq"].at => Stored(i)
  /\ i = loop["wq"].at /\ loop["wq"].op = "commit" => k \in reloaded \/ Gone(i) \/ Saved(k)

Finalizing == loop["wq"].op \in {"save", "commit"}
FinalizeInv == Finalizing => \A i \in 1..2 : FinalizePassed(i)

\* As long as its ok is the last answer of .prov/cred, what finalize stored is
\* what is staged.
AnsweredInv == rsp = Answer("finalize", "ok") => \A i \in 1..2 : Stored(i)

\* Names of the kinds finalize insists on.
LEMMA TwoKinds ==
  /\ \A i \in 1..2 : KindOrder[i] \in {"cert", "key"}
  /\ \A k \in {"cert", "key"} : \E i \in 1..2 : KindOrder[i] = k
  /\ \A i, j \in 1..3 : KindOrder[i] = KindOrder[j] => i = j
  /\ \A i \in 1..3 : KindOrder[i] \in Kinds
<1>1. KindOrder[1] = "cert" /\ KindOrder[2] = "key" /\ KindOrder[3] = "ca"
  BY DEF KindOrder
<1>2. 1..2 = {1, 2} /\ 1..3 = {1, 2, 3}
  OBVIOUS
<1> QED BY <1>1, <1>2 DEF Kinds

\* A turn of finalize's loop moves past one kind and leaves the rest alone.
LEMMA TurnPast ==
  ASSUME TypeOK, Finalizing, FinalizeTurn, Finalizing'
  PROVE  /\ loop'["wq"].op = "save" /\ loop'["wq"].at = loop["wq"].at + 1
         /\ loop'["app"] = loop["app"] /\ loop["wq"].at \in 1..2
<1>1. loop["wq"].at \in 1..3
  BY KindAtType DEF Finalizing, LoopOps, Threads
<1>2. loop' = [loop EXCEPT !["wq"] = IF @.at < 3 THEN At("save", @.at + 1) ELSE Idle]
  BY DEF FinalizeTurn, Advance
<1>3. loop["wq"].at < 3
  BY <1>1, <1>2 DEF Finalizing, TypeOK, Threads, Idle, At
<1> QED BY <1>1, <1>2, <1>3 DEF TypeOK, Threads, At

\* What a step leaves of the i-th kind: nothing staged, or the counts of
\* before, and the bytes and lengths of before unless it was reloaded or is
\* being wiped.
Undisturbed(i) ==
  LET k == KindOrder[i] IN
  \/ staged'[k] = 0
  \/ /\ staged'[k] = staged[k] /\ expected'[k] = expected[k]
     /\ k \in reloaded => k \in reloaded'
     /\ \/ k \in reloaded'
        \/ Gone(i)'
        \/ /\ buf'[k] = buf[k] /\ len'[k] = len[k] /\ flash'[k] = flash[k]
           /\ Gone(i) => Gone(i)'

\* Such a step keeps a stored kind stored.
LEMMA UndisturbedStored ==
  ASSUME NEW i \in 1..2, Undisturbed(i), Stored(i)
  PROVE  Stored(i)'
<1>1. CASE staged'[KindOrder[i]] = 0
  BY <1>1 DEF Stored, Gone
<1>2. CASE staged'[KindOrder[i]] # 0
  BY <1>2 DEF Undisturbed, Stored, Saved
<1> QED BY <1>1, <1>2

\* And finalize where it was with it.
LEMMA UndisturbedPassed ==
  ASSUME NEW i \in 1..2, Undisturbed(i), FinalizePassed(i), loop'["wq"] = loop["wq"]
  PROVE  FinalizePassed(i)'
<1>1. (i < loop["wq"].at => Stored(i))'
  BY UndisturbedStored DEF FinalizePassed
<1>2. CASE staged'[KindOrder[i]] = 0
  BY <1>1, <1>2 DEF FinalizePassed, Gone
<1>3. CASE staged'[KindOrder[i]] # 0
  <2>1. (staged[KindOrder[i]] = 0 \/ Complete(KindOrder[i]))'
    BY <1>3 DEF Undisturbed, FinalizePassed, Complete
  <2> QED BY <1>1, <1>3, <2>1 DEF Undisturbed, FinalizePassed, Saved
<1> QED BY <1>2, <1>3

\* The steps of the wipes and of the reload are of this kind.
LEMMA WipeUndisturbed ==
  ASSUME TypeOK, NEW t \in Threads, WipeBegin(t) \/ WipeDelete(t) \/ WipeClear(t)
  PROVE  \A i \in 1..2 : Undisturbed(i)
<1> USE DEF LoopOps
<1>1. CASE WipeBegin(t)
  <2>1. /\ UNCHANGED <<buf, len, staged, expected, flash, reloaded>>
        /\ \A u \in Threads \ {t} : loop'[u] = loop[u]
        /\ loop[t] = Idle
    BY <1>1 DEF WipeBegin, ram, hist, Enter, TypeOK
  <2>2. \A i \in 1..2 : Gone(i) => Gone(i)'
    BY <2>1 DEF Gone, Idle
  <2> QED BY <2>1, <2>2 DEF Undisturbed
<1>2. CASE WipeDelete(t)
  <2> DEFINE x == KindAt(t)
  <2>1. /\ \A u \in Threads \ {t} : loop'[u] = loop[u]
        /\ loop[t].op = "wipe"
        /\ loop'[t].op = "clear" /\ loop'[t].at = loop[t].at
        /\ UNCHANGED <<buf, len, staged, expected, reloaded>>
    BY <1>2 DEF WipeDelete, Resume, TypeOK, At, ram, hist
  <2>2. x \in Kinds /\ loop[t].at \in 1..3
    BY <2>1, KindAtType
  <2>3. \A y \in Kinds \ {x} : flash'[y] = flash[y]
    BY <1>2, <2>2 DEF WipeDelete, TypeOK
  <2>4. ASSUME NEW i \in 1..2, Gone(i) PROVE Gone(i)'
    BY <2>1, <2>4 DEF Gone
  <2>5. ASSUME NEW i \in 1..2 PROVE Gone(i)' \/ KindOrder[i] \in Kinds \ {x}
    <3>1. CASE i = loop[t].at
      BY <2>1, <3>1 DEF Gone
    <3>2. CASE i # loop[t].at
      BY <2>2, <3>2, TwoKinds DEF KindAt
    <3> QED BY <3>1, <3>2
  <2> QED BY <2>1, <2>3, <2>4, <2>5 DEF Undisturbed
<1>3. CASE WipeClear(t)
  <2> DEFINE x == KindAt(t)
  <2>1. /\ loop[t].op = "clear" /\ UNCHANGED <<buf, flash>>
        /\ reloaded' = reloaded \ {x}
    BY <1>3 DEF WipeClear
  <2>2. x \in Kinds /\ loop[t].at \in 1..3
    BY <2>1, KindAtType
  <2>3. /\ staged'[x] = 0
        /\ \A y \in Kinds \ {x} : /\ staged'[y] = staged[y] /\ expected'[y] = expected[y]
                                  /\ len'[y] = len[y]
    BY <1>3, <2>2 DEF WipeClear, TypeOK
  <2>4. /\ \A u \in Threads \ {t} : loop'[u] = loop[u]
        /\ loop[t].at < 3 => /\ loop'[t].op = "wipe"
                             /\ loop'[t].at = loop[t].at + 1
    BY <1>3 DEF WipeClear, Advance, TypeOK, At
  <2>5. ASSUME NEW i \in 1..2, KindOrder[i] # x
        PROVE  KindOrder[i] \in Kinds \ {x} /\ (Gone(i) => Gone(i)')
    <3>1. KindOrder[i] \in Kinds \ {x} /\ i # loop[t].at
      BY <2>5, TwoKinds DEF KindAt
    <3>2. CASE staged[KindOrder[i]] = 0
      BY <3>1, <3>2, <2>3 DEF Gone
    <3>3. CASE loop[t].at <= i
      <4>1. loop[t].at < 3 /\ loop[t].at + 1 <= i
        BY <2>2, <3>1, <3>3
      <4> QED BY <3>1, <4>1, <2>4 DEF Gone
    <3>4. ASSUME NEW u \in Threads \ {t}, loop[u].op \in {"wipe", "clear"}, loop[u].at <= i
          PROVE  Gone(i)'
      BY <3>4, <2>4 DEF Gone
    <3> QED BY <3>1, <3>2, <3>3, <3>4 DEF Gone
  <2> QED BY <2>1, <2>3, <2>5 DEF Undisturbed
<1> QED BY <1>1, <1>2, <1>3

\* The same for a reload: what it changes of a kind it marks.
LEMMA ReloadUndisturbed ==
  ASSUME TypeOK, ReloadBegin \/ ReloadKind
  PROVE  \A i \in 1..2 : Undisturbed(i)
<1>1. \A i \in 1..2 : KindOrder[i] \in Kinds
  BY TwoKinds DEF Kinds
<1>2. CASE ReloadBegin
  <2>1. /\ UNCHANGED <<buf, len, staged, expected, flash, reloaded>>
        /\ loop'["wq"] = loop["wq"] /\ loop["app"] = Idle
    BY <1>2 DEF ReloadBegin, ram, hist, Enter, TypeOK, Threads
  <2>2. \A i \in 1..2 : Gone(i) => Gone(i)'
    BY <2>1 DEF Gone, Idle, Threads
  <2> QED BY <2>1, <2>2 DEF Undisturbed
<1>3. CASE ReloadKind
  <2> DEFINE x == KindAt("app")
  <2>1. loop["app"].op = "load" /\ UNCHANGED <<staged, expected, flash>> /\ loop'["wq"] = loop["wq"]
    BY <1>3 DEF ReloadKind, Advance, TypeOK, Threads
  <2>2. x \in Kinds
    BY <2>1, KindAtType DEF LoopOps, Threads
  <2>3. /\ reloaded \subseteq reloaded'
        /\ \A y \in Kinds \ reloaded' : buf'[y] = buf[y] /\ len'[y] = len[y]
    BY <1>3, <2>2 DEF ReloadKind, TypeOK
  <2>4. \A i \in 1..2 : Gone(i) => Gone(i)'
    BY <2>1 DEF Gone, Threads
  <2> QED BY <1>1, <2>1, <2>3, <2>4 DEF Undisturbed
<1> QED BY <1>2, <1>3

\* Every step keeps the kinds finalize is past stored, reloaded or wiped.
LEMMA FinalizeStep == TypeOK /\ FinalizeInv /\ [Next]_vars => FinalizeInv'
<1> SUFFICES ASSUME TypeOK, FinalizeInv, [Next]_vars PROVE FinalizeInv'
  OBVIOUS
<1> USE DEF Threads, LoopOps
<1>1. CASE loop'["wq"].op \notin {"save", "commit"}
  BY <1>1 DEF FinalizeInv, Finalizing
<1>2. ASSUME NEW k \in Kinds, NEW off \in 0..Cap[k], NEW total \in 0 .. Cap[k] + 1,
             NEW data \in Chunks, Write(k, off, total, data)
      PROVE  FinalizeInv'
  BY <1>2 DEF Write, FinalizeInv, Finalizing, Idle
<1>3. CASE FinalizeRefused
  BY <1>3 DEF FinalizeRefused, FinalizeInv, Finalizing, Idle
<1>4. CASE UNCHANGED vars
  BY <1>4 DEF vars, FinalizeInv, Finalizing, FinalizePassed, Stored, Gone, Saved, Complete
<1>5. CASE FinalizeBegin
  <2>1. loop'["wq"] = At("save", 1)
    BY <1>5 DEF FinalizeBegin, Enter, TypeOK
  <2>2. \A i \in 1..2 : Complete(KindOrder[i])'
    BY <1>5, TwoKinds DEF FinalizeBegin, Complete, ram
  <2>3. loop'["wq"].at = 1 /\ loop'["wq"].op = "save"
    BY <2>1 DEF At
  <2>4. \A i \in 1..2 : ~(i < 1)
    OBVIOUS
  <2> QED BY <2>2, <2>3, <2>4 DEF FinalizeInv, FinalizePassed
<1>6. CASE FinalizeSkip /\ Finalizing'
  <2>1. Finalizing /\ FinalizeTurn /\ loop["wq"].op = "save" /\ len' = len
    BY <1>6 DEF FinalizeSkip, Finalizing
  <2>2. /\ loop'["wq"].op = "save" /\ loop'["wq"].at = loop["wq"].at + 1
        /\ loop'["app"] = loop["app"] /\ loop["wq"].at \in 1..2
    BY <1>6, <2>1, TurnPast
  <2>3. UNCHANGED <<buf, len, staged, expected, flash, reloaded>>
    BY <2>1 DEF FinalizeTurn, hist
  <2> SUFFICES ASSUME NEW i \in 1..2 PROVE FinalizePassed(i)'
    BY DEF FinalizeInv
  <2>4. FinalizePassed(i)
    BY <2>1 DEF FinalizeInv
  <2>5. Gone(i)' <=> Gone(i)
    BY <2>1, <2>2, <2>3 DEF Gone
  <2>6. CASE i = loop["wq"].at
    <3>1. staged[KindOrder[i]] = 0
      BY <1>6, <2>4, <2>6 DEF FinalizeSkip, KindAt, FinalizePassed
    <3> QED BY <3>1, <2>3 DEF FinalizePassed, Stored, Gone
  <2>7. CASE i # loop["wq"].at
    <3>1. i < loop'["wq"].at => i < loop["wq"].at
      BY <2>2, <2>7
    <3> QED BY <2>2, <2>3, <2>4, <2>5, <3>1 DEF FinalizePassed, Stored, Saved, Complete
  <2> QED BY <2>6, <2>7
<1>7. CASE FinalizeSave
  <2> DEFINE x == KindAt("wq")
  <2>1. /\ loop'["wq"].op = "commit" /\ loop'["wq"].at = loop["wq"].at
        /\ loop'["app"] = loop["app"] /\ loop["wq"].op = "save"
    BY <1>7 DEF FinalizeSave, Resume, TypeOK, At
  <2>2. x \in Kinds /\ loop["wq"].at \in 1..3
    BY <2>1, KindAtType
  <2>3. /\ UNCHANGED <<buf, len, staged, expected, reloaded>>
        /\ flash' = [flash EXCEPT ![x] = Prefix(buf[x], staged[x])]
    BY <1>7 DEF FinalizeSave, ram, hist
  <2>4. /\ flash'[x] = Prefix(buf[x], staged[x])
        /\ \A y \in Kinds \ {x} : flash'[y] = flash[y]
    BY <2>2, <2>3 DEF TypeOK
  <2> SUFFICES ASSUME NEW i \in 1..2 PROVE FinalizePassed(i)'
    BY DEF FinalizeInv
  <2>5. FinalizePassed(i)
    BY <2>1 DEF FinalizeInv, Finalizing
  <2>6. Gone(i)' <=> Gone(i)
    BY <2>1, <2>3 DEF Gone
  <2>7. CASE i = loop["wq"].at
    <3>1. KindOrder[i] = x /\ ~(i < loop["wq"].at)
      BY <2>2, <2>7 DEF KindAt
    <3>2. Saved(KindOrder[i])'
      BY <3>1, <2>3, <2>4 DEF Saved
    <3> QED BY <2>1, <2>3, <2>5, <3>1, <3>2 DEF FinalizePassed, Complete
  <2>8. CASE i # loop["wq"].at
    <3>1. KindOrder[i] # x /\ KindOrder[i] \in Kinds
      BY <2>2, <2>8, TwoKinds DEF KindAt
    <3> QED BY <2>1, <2>3, <2>4, <2>5, <2>6, <2>8, <3>1 DEF FinalizePassed, Stored, Saved, Complete
  <2> QED BY <2>7, <2>8
<1>8. CASE FinalizeCommit /\ Finalizing'
  <2> DEFINE x == KindAt("wq")
  <2>1. Finalizing /\ FinalizeTurn /\ loop["wq"].op = "commit"
    BY <1>8 DEF FinalizeCommit, Finalizing
  <2>2. /\ loop'["wq"].op = "save" /\ loop'["wq"].at = loop["wq"].at + 1
        /\ loop'["app"] = loop["app"] /\ loop["wq"].at \in 1..2
    BY <1>8, <2>1, TurnPast
  <2>3. /\ UNCHANGED <<buf, staged, expected, flash, reloaded>>
        /\ len' = [len EXCEPT ![x] = staged[x]]
    BY <1>8, <2>1 DEF FinalizeTurn, FinalizeCommit, hist
  <2>4. x \in Kinds
    BY <2>1, KindAtType
  <2>5. len'[x] = staged[x] /\ \A y \in Kinds \ {x} : len'[y] = len[y]
    BY <2>3, <2>4 DEF TypeOK
  <2> SUFFICES ASSUME NEW i \in 1..2 PROVE FinalizePassed(i)'
    BY DEF FinalizeInv
  <2>6. FinalizePassed(i)
    BY <2>1 DEF FinalizeInv
  <2>7. Gone(i)' <=> Gone(i)
    BY <2>1, <2>2, <2>3 DEF Gone
  <2>8. CASE i = loop["wq"].at
    <3>1. KindOrder[i] = x /\ i # loop'["wq"].at
      BY <2>2, <2>8 DEF KindAt
    <3> QED BY <2>1, <2>2, <2>3, <2>5, <2>6, <2>7, <2>8, <3>1 DEF FinalizePassed, Stored, Saved, Complete
  <2>9. CASE i # loop["wq"].at
    <3>1. i < loop'["wq"].at => i < loop["wq"].at
      BY <2>2, <2>9
    <3>2. KindOrder[i] # x /\ KindOrder[i] \in Kinds
      BY <2>2, <2>9, TwoKinds DEF KindAt
    <3> QED BY <2>2, <2>3, <2>5, <2>6, <2>7, <3>1, <3>2 DEF FinalizePassed, Stored, Saved, Complete
  <2> QED BY <2>8, <2>9
<1>9. CASE FinalizeSaveFails \/ PowerCycle
  <2>1. loop'["wq"] = Idle
    BY <1>9 DEF FinalizeSaveFails, Leave, PowerCycle, TypeOK
  <2> QED BY <2>1 DEF FinalizeInv, Finalizing, Idle
<1>10. CASE WipeBegin("wq") \/ WipeDelete("wq") \/ WipeClear("wq")
  <2>1. loop'["wq"].op \in {"idle", "wipe", "clear"}
    BY <1>10 DEF WipeBegin, WipeDelete, WipeClear, Enter, Resume, Advance, TypeOK, At, Idle
  <2> QED BY <2>1 DEF FinalizeInv, Finalizing
<1>11. CASE /\ WipeBegin("app") \/ WipeDelete("app") \/ WipeClear("app") \/ ReloadBegin \/ ReloadKind
            /\ Finalizing
  <2>1. loop'["wq"] = loop["wq"]
    BY <1>11 DEF WipeBegin, ReloadBegin, WipeDelete, WipeClear, ReloadKind, Enter, Resume, Advance, TypeOK
  <2>2. \A i \in 1..2 : Undisturbed(i)
    BY <1>11, WipeUndisturbed, ReloadUndisturbed
  <2> QED BY <1>11, <2>1, <2>2, UndisturbedPassed DEF FinalizeInv
<1>15. Finalizing \/ loop'["wq"].op \notin {"save", "commit"}
         \/ ~(WipeBegin("app") \/ ReloadBegin \/ WipeDelete("app") \/ WipeClear("app") \/ ReloadKind)
  <2>1. loop'["wq"] = loop["wq"] \/ ~(WipeBegin("app") \/ ReloadBegin \/ WipeDelete("app")
                                       \/ WipeClear("app") \/ ReloadKind)
    BY DEF WipeBegin, ReloadBegin, WipeDelete, WipeClear, ReloadKind, Enter, Resume, Advance, TypeOK
  <2> QED BY <2>1 DEF Finalizing
<1>16. Finalizing' \/ loop'["wq"].op \notin {"save", "commit"}
  BY DEF Finalizing
<1> QED
  BY <1>1, <1>2, <1>3, <1>4, <1>5, <1>6, <1>7, <1>8, <1>9, <1>10, <1>11, <1>15, <1>16 DEF Next

\* A stored kind stays stored until the next answer of .prov/cred, and the
\* answer ok of finalize comes when both kinds are.
LEMMA AnsweredStep == TypeOK /\ FinalizeInv /\ AnsweredInv /\ [Next]_vars => AnsweredInv'
<1> SUFFICES ASSUME TypeOK, FinalizeInv, AnsweredInv, [Next]_vars,
                    rsp' = Answer("finalize", "ok"), NEW i \in 1..2
             PROVE  Stored(i)'
  BY DEF AnsweredInv
<1> USE DEF Threads, LoopOps
<1>1. ASSUME NEW k \in Kinds, NEW off \in 0..Cap[k], NEW total \in 0 .. Cap[k] + 1,
             NEW data \in Chunks, Write(k, off, total, data)
      PROVE  FALSE
  BY <1>1 DEF Write, StageTooLong, StageRefused, StageAccepted, Answer
<1>2. CASE FinalizeRefused \/ FinalizeSaveFails \/ PowerCycle
  BY <1>2 DEF FinalizeRefused, FinalizeSaveFails, PowerCycle, NoAnswer, Answer
<1>3. ASSUME NEW t \in Threads, WipeBegin(t) \/ WipeDelete(t) \/ WipeClear(t)
      PROVE  Stored(i)'
  <2>1. rsp' = rsp
    BY <1>3 DEF WipeBegin, WipeDelete, WipeClear
  <2> QED BY <1>3, <2>1, WipeUndisturbed, UndisturbedStored DEF AnsweredInv
<1>4. CASE ReloadBegin \/ ReloadKind
  <2>1. rsp' = rsp
    BY <1>4 DEF ReloadBegin, ReloadKind
  <2> QED BY <1>4, <2>1, ReloadUndisturbed, UndisturbedStored DEF AnsweredInv
<1>5. CASE UNCHANGED vars
  BY <1>5 DEF vars, AnsweredInv, Stored, Gone, Saved
<1>6. CASE FinalizeBegin
  <2>1. /\ UNCHANGED <<buf, len, staged, flash, rsp, reloaded>>
        /\ loop'["app"] = loop["app"] /\ loop["wq"] = Idle
    BY <1>6 DEF FinalizeBegin, ram, hist, Enter, TypeOK
  <2> QED BY <2>1 DEF AnsweredInv, Stored, Gone, Saved, Idle
<1>7. CASE FinalizeSave
  <2> DEFINE x == KindAt("wq")
  <2>1. /\ loop["wq"].op = "save" /\ loop'["app"] = loop["app"]
        /\ UNCHANGED <<buf, len, staged, rsp, reloaded>>
        /\ flash' = [flash EXCEPT ![x] = Prefix(buf[x], staged[x])]
    BY <1>7 DEF FinalizeSave, Resume, TypeOK, ram, hist
  <2>2. x \in Kinds /\ KindOrder[i] \in Kinds
    BY <2>1, KindAtType, TwoKinds
  <2>3. flash'[KindOrder[i]] = flash[KindOrder[i]] \/ Saved(KindOrder[i])'
    BY <2>1, <2>2 DEF Saved, TypeOK
  <2>4. Stored(i)
    BY <2>1 DEF AnsweredInv
  <2> QED BY <2>1, <2>3, <2>4 DEF Stored, Gone, Saved
<1>8. CASE FinalizeSkip \/ FinalizeCommit
  <2> DEFINE x == KindAt("wq")
  <2>1. /\ Finalizing /\ UNCHANGED <<buf, staged, flash, reloaded>>
        /\ rsp' = IF LastKind("wq") THEN Answer("finalize", "ok") ELSE rsp
        /\ loop'["app"] = loop["app"]
        /\ len' = len \/ len' = [len EXCEPT ![x] = staged[x]]
    BY <1>8 DEF FinalizeSkip, FinalizeCommit, FinalizeTurn, Finalizing, Advance, TypeOK, hist
  <2>2. x \in Kinds /\ KindOrder[i] \in Kinds /\ loop["wq"].at \in 1..3
    BY <2>1, KindAtType, TwoKinds DEF Finalizing
  <2>3. len'[KindOrder[i]] = len[KindOrder[i]] \/ len'[KindOrder[i]] = staged[KindOrder[i]]
    BY <2>1, <2>2 DEF TypeOK
  <2>4. Stored(i)
    <3>1. CASE LastKind("wq")
      <4>1. i < loop["wq"].at
        BY <3>1 DEF LastKind
      <4> QED BY <2>1, <4>1 DEF FinalizeInv, FinalizePassed
    <3>2. CASE ~LastKind("wq")
      BY <2>1, <3>2 DEF AnsweredInv
    <3> QED BY <3>1, <3>2
  <2> QED BY <2>1, <2>3, <2>4 DEF Stored, Gone, Saved, Finalizing
<1> QED BY <1>1, <1>2, <1>3, <1>4, <1>5, <1>6, <1>7, <1>8 DEF Next

\* A finalize answered ok has stored the certificate and the key it was given,
\* for every capacity, every blob and every interleaving with the wipe and the
\* reload of the application: the settings hold the staged bytes and the store
\* reports their length (cred_store.c:160-176).
THEOREM FinalizeCorrect == Spec => FinalizedIsStored
<1> DEFINE Stores ==
      loop["wq"].op \in {"save", "commit"} /\ rsp'.op = "finalize" /\ rsp'.status = "ok"
        => \A k \in {"cert", "key"} \ reloaded :
             \/ staged[k] = 0
             \/ loop["app"].op \in {"wipe", "clear"}
             \/ flash'[k] = Prefix(buf[k], staged[k]) /\ len'[k] = staged[k]
           Inv == FinalizeInv /\ AnsweredInv
<1>1. Init => Inv
  BY DEF Init, FinalizeInv, AnsweredInv, Finalizing, Idle, Threads, NoAnswer, Answer
<1>2. TypeOK /\ Inv /\ [Next]_vars => Inv'
  BY FinalizeStep, AnsweredStep
<1>3. TypeOK /\ Inv /\ [Next]_vars => [Stores]_vars
  <2> SUFFICES ASSUME TypeOK, Inv, Next, loop["wq"].op \in {"save", "commit"},
                      rsp'.op = "finalize", rsp'.status = "ok",
                      NEW i \in 1..2, KindOrder[i] \notin reloaded,
                      staged[KindOrder[i]] # 0, loop["app"].op \notin {"wipe", "clear"}
               PROVE  /\ flash'[KindOrder[i]] = Prefix(buf[KindOrder[i]], staged[KindOrder[i]])
                      /\ len'[KindOrder[i]] = staged[KindOrder[i]]
    BY TwoKinds
  <2> USE DEF Threads, LoopOps
  <2> DEFINE k == KindOrder[i]
             wx == KindAt("wq")
             ax == KindAt("app")
  <2>1. k \in Kinds /\ wx \in Kinds /\ loop["wq"].at \in 1..3 /\ ~Gone(i)
    BY KindAtType, TwoKinds DEF Gone
  <2>2. Stored(i) => Saved(k) /\ len[k] = staged[k]
    BY <2>1 DEF Stored
  <2>3. rsp = rsp' => Stored(i)
    <3>1. rsp = rsp' => rsp = Answer("finalize", "ok")
      BY DEF TypeOK, Answers, Answer
    <3> QED BY <3>1 DEF AnsweredInv
  <2>4. CASE FinalizeSkip \/ FinalizeCommit
    <3>1. /\ UNCHANGED flash
          /\ rsp' = IF LastKind("wq") THEN Answer("finalize", "ok") ELSE rsp
          /\ len' = len \/ len' = [len EXCEPT ![wx] = staged[wx]]
      BY <2>4 DEF FinalizeSkip, FinalizeCommit, FinalizeTurn
    <3>2. LastKind("wq") => i < loop["wq"].at
      BY DEF LastKind
    <3>3. Stored(i)
      BY <2>3, <3>1, <3>2 DEF FinalizeInv, FinalizePassed, Finalizing
    <3>4. len'[k] = len[k] \/ len'[k] = staged[k]
      BY <2>1, <3>1 DEF TypeOK
    <3> QED BY <2>2, <3>1, <3>3, <3>4 DEF Saved
  <2>5. CASE FinalizeSave
    <3>1. rsp' = rsp /\ len' = len /\ flash' = [flash EXCEPT ![wx] = Prefix(buf[wx], staged[wx])]
      BY <2>5 DEF FinalizeSave, ram
    <3>2. flash'[k] = flash[k] \/ flash'[k] = Prefix(buf[k], staged[k])
      BY <2>1, <3>1 DEF TypeOK
    <3> QED BY <2>2, <2>3, <3>1, <3>2 DEF Saved
  <2>6. CASE WipeBegin("app") \/ ReloadBegin
    <3>1. UNCHANGED <<rsp, len, flash>>
      BY <2>6 DEF WipeBegin, ReloadBegin, ram
    <3> QED BY <2>2, <2>3, <3>1 DEF Saved
  <2>7. CASE ReloadKind
    <3>1. /\ UNCHANGED <<rsp, flash>>
          /\ len' = len \/ len' = [len EXCEPT ![ax] = Len(flash[ax])]
      BY <2>7 DEF ReloadKind
    <3>2. ax \in Kinds
      BY <2>7, KindAtType DEF ReloadKind
    <3>3. len'[k] = len[k] \/ len'[k] = Len(flash[k])
      BY <2>1, <3>1, <3>2 DEF TypeOK
    <3>4. Len(Prefix(buf[k], staged[k])) = staged[k]
      <4>1. buf[k] \in Seq(Cell) /\ staged[k] \in Nat /\ staged[k] <= Len(buf[k])
        BY <2>1, CapAssumption DEF TypeOK
      <4> QED BY <4>1, PrefixType
    <3> QED BY <2>2, <2>3, <3>1, <3>3, <3>4 DEF Saved
  <2>8. /\ ~FinalizeRefused /\ ~FinalizeBegin /\ ~FinalizeSaveFails /\ ~PowerCycle
        /\ \A x, off, total, data : ~Write(x, off, total, data)
        /\ \A t \in Threads : WipeBegin(t) \/ WipeDelete(t) \/ WipeClear(t) => WipeBegin("app")
    BY DEF FinalizeRefused, FinalizeBegin, FinalizeSaveFails, PowerCycle, Write, WipeBegin,
           WipeDelete, WipeClear, Idle, NoAnswer, Answer
  <2> QED BY <2>4, <2>5, <2>6, <2>7, <2>8 DEF Next
<1> HIDE DEF Stores, Inv
<1>4. Spec => [][Stores]_vars
  BY <1>1, <1>2, <1>3, TypeCorrect, PTL DEF Spec
<1> QED BY <1>4 DEF FinalizedIsStored, Stores

-----------------------------------------------------------------------------
\* From the client to the settings: a finalize answered ok has stored, byte for
\* byte, the certificate and the key the client sent since offset 0 of its
\* writes, under the length the store reports.  This joins StagedCorrect and
\* FinalizeCorrect, with the same two exceptions: a wipe by the application, and
\* a kind that a restart of the manager reloaded (cred_store.c:116-132, 160-176).
THEOREM SentCorrect ==
  Spec => [][loop["wq"].op \in {"save", "commit"} /\ rsp'.op = "finalize" /\ rsp'.status = "ok"
               => \A k \in {"cert", "key"} \ reloaded :
                    \/ staged[k] = 0
                    \/ loop["app"].op \in {"wipe", "clear"}
                    \/ flash'[k] = sent[k] /\ len'[k] = Len(sent[k])]_vars
<1> DEFINE Ends == loop["wq"].op \in {"save", "commit"} /\ rsp'.op = "finalize" /\ rsp'.status = "ok"
<1>1. StagedIsSent
        /\ [Ends => \A k \in {"cert", "key"} \ reloaded :
              \/ staged[k] = 0
              \/ loop["app"].op \in {"wipe", "clear"}
              \/ flash'[k] = Prefix(buf[k], staged[k]) /\ len'[k] = staged[k]]_vars
        => [Ends => \A k \in {"cert", "key"} \ reloaded :
              \/ staged[k] = 0
              \/ loop["app"].op \in {"wipe", "clear"}
              \/ flash'[k] = sent[k] /\ len'[k] = Len(sent[k])]_vars
  BY DEF StagedIsSent, Kinds
<1> QED BY <1>1, StagedCorrect, FinalizeCorrect, PTL DEF FinalizedIsStored
=============================================================================
