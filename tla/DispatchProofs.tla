--------------------------- MODULE DispatchProofs ---------------------------
(***************************************************************************)
(* Proofs about Dispatch, for every buffer size, limit of attempts, width  *)
(* of the counter, and length and number of entries.                       *)
(***************************************************************************)
EXTENDS Dispatch, TLAPS

-----------------------------------------------------------------------------
\* What reassembly keeps between two pieces of an entry.  Nobody takes data of no
\* entry.  While an endpoint is set, the buffer holds bytes of the entry only, all
\* that have arrived unless it overflowed.  The entry started last has no answer
\* exactly while it is owed one, and pouch hands over nothing while the handler of
\* a right proof runs.
EntryInv ==
  /\ TypeOK
  /\ entry # NoEntry => entry.id \in 1..ids /\ entry.len \in 1..MaxLen
  /\ entry = NoEntry => active.endpoint = None
  /\ answer = "none" <=> Owed
  /\ verified = "yes" => entry = NoEntry
  /\ active.endpoint # None =>
       /\ active.endpoint = entry.path
       /\ \A i \in DOMAIN active.buf : active.buf[i] = entry.id
       /\ active.overflow = "no" => Len(active.buf) + entry.len = entry.size

\* The buffer after a piece of n bytes of entry e.
LEMMA Appended ==
  ASSUME NEW S, NEW b \in Seq(S), NEW e \in S, NEW n \in Nat
  PROVE  LET c == b \o [i \in 1..n |-> e]
         IN /\ c \in Seq(S)
            /\ Len(c) = Len(b) + n
            /\ (\A i \in DOMAIN b : b[i] = e) => \A i \in DOMAIN c : c[i] = e
<1> DEFINE d == [i \in 1..n |-> e]
<1>1. d \in Seq(S) /\ Len(d) = n
  OBVIOUS
<1>2. b \o d \in Seq(S) /\ Len(b \o d) = Len(b) + n
  BY <1>1
<1>3. ASSUME \A i \in DOMAIN b : b[i] = e, NEW i \in DOMAIN (b \o d)
      PROVE  (b \o d)[i] = e
  <2>1. i \in 1..(Len(b) + n)
    BY <1>2
  <2>2. CASE i <= Len(b)
    <3>1. i \in DOMAIN b /\ (b \o d)[i] = b[i]
      BY <1>1, <2>1, <2>2
    <3> QED BY <1>3, <3>1
  <2>3. CASE i > Len(b)
    <3>1. i - Len(b) \in 1..n /\ (b \o d)[i] = d[i - Len(b)]
      BY <1>1, <2>1, <2>3
    <3> QED BY <3>1
  <2> QED BY <2>1, <2>2, <2>3
<1> QED BY <1>2, <1>3

\* Copy keeps the buffer within MSG_MAX, and in it the bytes of the entry.
LEMMA CopyKeeps ==
  ASSUME EntryInv, entry # NoEntry, active.endpoint # None, NEW n \in 1..entry.len
  PROVE  /\ Copy(n) \in [endpoint : Endpoints \cup {None}, buf : Seq(1..MaxEntries), overflow : {"no", "yes"}]
         /\ Copy(n).endpoint = active.endpoint
         /\ Len(Copy(n).buf) <= MsgMax
         /\ \A i \in DOMAIN Copy(n).buf : Copy(n).buf[i] = entry.id
         /\ Copy(n).overflow = "no" => Len(Copy(n).buf) + (entry.len - n) = entry.size
<1> DEFINE b == active.buf
<1>1. /\ b \in Seq(1..MaxEntries) /\ entry.id \in 1..MaxEntries /\ n \in Nat /\ MsgMax \in Nat
      /\ entry.len \in Nat /\ entry.size \in Nat /\ Len(b) <= MsgMax /\ Len(b) \in Nat
      /\ \A i \in DOMAIN b : b[i] = entry.id
      /\ active.overflow = "no" => Len(b) + entry.len = entry.size
  BY BoundsAssumption DEF EntryInv, TypeOK
<1>2. CASE Len(b) + n > MsgMax
  BY <1>1, <1>2 DEF Copy, EntryInv, TypeOK
<1>3. CASE ~(Len(b) + n > MsgMax)
  <2> DEFINE c == b \o [i \in 1..n |-> entry.id]
  <2>1. /\ c \in Seq(1..MaxEntries) /\ Len(c) = Len(b) + n
        /\ \A i \in DOMAIN c : c[i] = entry.id
    BY <1>1, Appended
  <2>2. Copy(n) = [active EXCEPT !.buf = c]
    BY <1>3 DEF Copy
  <2> HIDE DEF c
  <2>3. Copy(n).buf = c /\ Copy(n).endpoint = active.endpoint /\ Copy(n).overflow = active.overflow
    BY <2>2 DEF EntryInv, TypeOK
  <2>4. Copy(n) \in [endpoint : Endpoints \cup {None}, buf : Seq(1..MaxEntries), overflow : {"no", "yes"}]
    BY <2>1, <2>2 DEF EntryInv, TypeOK
  <2>5. Len(c) <= MsgMax /\ (active.overflow = "no" => Len(c) + (entry.len - n) = entry.size)
    <3>1. Len(b) \in Nat /\ n \in Nat /\ entry.len \in Nat /\ entry.size \in Nat /\ MsgMax \in Nat
      BY <1>1
    <3>2. Len(c) = Len(b) + n
      BY <2>1
    <3>3. Len(c) <= MsgMax
      BY <1>3, <3>1, <3>2
    <3>4. ASSUME active.overflow = "no" PROVE Len(c) + (entry.len - n) = entry.size
      <4>1. Len(b) + entry.len = entry.size
        BY <1>1, <3>4
      <4> QED BY <3>1, <3>2, <4>1
    <3> QED BY <3>3, <3>4
  <2> QED BY <2>1, <2>3, <2>4, <2>5
<1> QED BY <1>2, <1>3

\* The rest of an entry after a piece of n bytes.
LEMMA AdvanceKeeps ==
  ASSUME EntryInv, entry # NoEntry, NEW n \in 1..entry.len, Advance(n)
  PROVE  /\ n = entry.len => entry' = NoEntry
         /\ n # entry.len => /\ entry' = [entry EXCEPT !.len = entry.len - n]
                             /\ entry.len - n \in 1..MaxLen
         /\ entry' \in [id : 0..MaxEntries, path : Endpoints \cup {"other", None},
                         op : Ops \cup {None}, of : Nat, len : 0..MaxLen, size : 0..MaxLen]
<1>1. entry.len \in 1..MaxLen /\ MaxLen \in Nat /\ MaxEntries \in Nat
  BY BoundsAssumption DEF EntryInv
<1>2. NoEntry \in [id : 0..MaxEntries, path : Endpoints \cup {"other", None},
                  op : Ops \cup {None}, of : Nat, len : 0..MaxLen, size : 0..MaxLen]
  BY <1>1 DEF NoEntry
<1>3. n # entry.len => entry.len - n \in 1..MaxLen
  BY <1>1
<1>4. n = entry.len => entry' = NoEntry
  BY DEF Advance
<1>5. n # entry.len => entry' = [entry EXCEPT !.len = entry.len - n]
  BY DEF Advance
<1>6. n # entry.len => entry.len - n \in 0..MaxLen
  BY <1>1, <1>3
<1>7. entry \in [id : 0..MaxEntries, path : Endpoints \cup {"other", None},
                op : Ops \cup {None}, of : Nat, len : 0..MaxLen, size : 0..MaxLen]
  BY DEF EntryInv, TypeOK
<1> QED BY <1>2, <1>3, <1>4, <1>5, <1>6, <1>7

\* What the last piece of an entry leaves.
LEMMA LastKeeps ==
  ASSUME EntryInv, NEW n \in 1..MaxLen, DataLast(n)
  PROVE  /\ entry # NoEntry /\ entry' = NoEntry /\ ids' = ids
         /\ entry.id \in 1..ids
         /\ active'.endpoint = None
         /\ active' \in [endpoint : Endpoints \cup {None}, buf : Seq(1..MaxEntries), overflow : {"no", "yes"}]
         /\ Len(active'.buf) <= MsgMax
         /\ \A i \in DOMAIN active'.buf : active'.buf[i] = entry.id
         /\ active'.overflow = "no" => Len(active'.buf) = entry.size
         /\ active.endpoint = entry.path /\ answer = "none" /\ verified = "no"
<1>1. entry # NoEntry /\ n = entry.len /\ active.endpoint # None /\ Advance(n) /\ ids' = ids
  BY DEF DataLast
<1>2. n \in 1..entry.len /\ entry.size \in Nat
  BY <1>1, BoundsAssumption DEF EntryInv, TypeOK
<1>3. entry' = NoEntry
  BY <1>1, <1>2, AdvanceKeeps
<1>4. active' = [Copy(n) EXCEPT !.endpoint = None]
  BY DEF DataLast
<1>5. active'.endpoint = None /\ active'.buf = Copy(n).buf /\ active'.overflow = Copy(n).overflow
  BY <1>1, <1>2, <1>4, CopyKeeps
<1>6. active' \in [endpoint : Endpoints \cup {None}, buf : Seq(1..MaxEntries), overflow : {"no", "yes"}]
  BY <1>1, <1>2, <1>4, CopyKeeps
<1>7. Len(Copy(n).buf) \in Nat
  BY <1>1, <1>2, CopyKeeps
<1>8. Len(Copy(n).buf) + (entry.len - n) = entry.size => Len(Copy(n).buf) = entry.size
  BY <1>1, <1>2, <1>7
<1>9. answer = "none" /\ verified = "no"
  BY <1>1 DEF EntryInv, TypeOK, Owed
<1> QED BY <1>1, <1>2, <1>3, <1>5, <1>6, <1>8, <1>9, CopyKeeps DEF EntryInv

-----------------------------------------------------------------------------
\* What the last piece of an entry leads to: its answer, or the rest of the handler
\* that will give it.
Answered ==
  /\ answer' \in Fates \ {"cut"}
  /\ \/ answer' # "none" /\ verified' = verified
     \/ answer' = answer /\ verified' = "yes"

\* Whoever takes the last piece answers the entry, and a handler gets it whole.
LEMMA LastStep ==
  ASSUME EntryInv, NEW n \in 1..MaxLen, Data(n), ~DataIgnored(n), ~DataMore(n)
  PROVE  /\ DataLast(n) /\ Answered
         /\ \/ handled' = handled
            \/ /\ active'.overflow = "no"
               /\ handled' = [id |-> entry.id, path |-> entry.path, buf |-> active'.buf, size |-> entry.size]
<1> USE DEF Answered, Answer, Fates
<1>1. CASE DataTooLong(n) \/ DataUnauthorized(n)
  BY <1>1 DEF DataTooLong, DataUnauthorized
<1>2. CASE HandlerRefuses(n) \/ HandleOther(n) \/ HandleChallenge(n)
  BY <1>2 DEF HandlerRefuses, HandleOther, HandleChallenge, Handler
<1>3. CASE ProofUnasked(n) \/ ProofExhausted(n)
  BY <1>3 DEF ProofUnasked, ProofExhausted, HandleProof, Handler
<1>4. CASE ProofFails(n) \/ ProofRejected(n)
  BY <1>4 DEF ProofFails, ProofRejected, ProofCounted, HandleProof, Handler
<1>5. CASE ProofAccepted(n)
  <2>1. DataLast(n)
    BY <1>5 DEF ProofAccepted, ProofCounted, HandleProof, Handler
  <2>2. answer = "none"
    BY <2>1, LastKeeps
  <2> QED BY <1>5, <2>1, <2>2 DEF ProofAccepted, ProofCounted, HandleProof, Handler
<1> QED BY <1>1, <1>2, <1>3, <1>4, <1>5 DEF Data

\* The counter stays within its width.
LEMMA AttemptType ==
  ASSUME TypeOK PROVE Attempt \in 0..(Width - 1)
<1>1. auth.attempts \in Nat /\ Width \in Nat /\ Width > 0
  BY BoundsAssumption DEF TypeOK
<1>2. \A a \in Nat : (a + 1) % Width \in 0..(Width - 1)
  BY <1>1
<1> QED BY <1>1, <1>2 DEF Attempt

\* The state of authorization keeps its types.
LEMMA AuthTypes ==
  ASSUME TypeOK, [Next]_vars
  PROVE  /\ authorized' \in {"no", "yes"} /\ verified' \in {"no", "yes"} /\ epoch' \in Nat
         /\ auth' \in [challenge : Nat, attempts : 0..(Width - 1)]
<1> USE DEF TypeOK
<1> DEFINE Goal == /\ authorized' \in {"no", "yes"} /\ verified' \in {"no", "yes"} /\ epoch' \in Nat
                   /\ auth' \in [challenge : Nat, attempts : 0..(Width - 1)]
<1>1. ASSUME NEW p, NEW op, NEW of, NEW k, Start(p, op, of, k) PROVE Goal
  BY <1>1 DEF Start
<1>2. ASSUME NEW n \in 1..MaxLen, Data(n) PROVE Goal
  <2>1. CASE DataIgnored(n) \/ DataMore(n)
    BY <2>1 DEF DataIgnored, DataMore
  <2>2. CASE DataTooLong(n) \/ DataUnauthorized(n) \/ HandlerRefuses(n) \/ HandleOther(n)
    BY <2>2 DEF DataTooLong, DataUnauthorized, HandlerRefuses, HandleOther
  <2>3. CASE HandleChallenge(n)
    <3>1. /\ epoch' = epoch + 1 /\ auth' = [auth EXCEPT !.challenge = epoch + 1]
          /\ UNCHANGED <<authorized, verified>>
      BY <2>3 DEF HandleChallenge
    <3>2. epoch + 1 \in Nat
      OBVIOUS
    <3> QED BY <3>1, <3>2
  <2>4. CASE ProofUnasked(n) \/ ProofExhausted(n)
    BY <2>4, AttemptType DEF ProofUnasked, ProofExhausted, HandleProof
  <2>5. CASE ProofFails(n) \/ ProofRejected(n) \/ ProofAccepted(n)
    BY <2>5, AttemptType DEF ProofFails, ProofRejected, ProofAccepted, ProofCounted, HandleProof
  <2> QED BY <1>2, <2>1, <2>2, <2>3, <2>4, <2>5 DEF Data
<1>3. CASE Authorize
  BY <1>3 DEF Authorize
<1>4. CASE SessionEnded \/ ManagerReset
  BY <1>4, BoundsAssumption DEF SessionEnded, ManagerReset, DispatchReset, NoAuth
<1>5. CASE UNCHANGED vars
  BY <1>5 DEF vars
<1> QED BY <1>1, <1>2, <1>3, <1>4, <1>5 DEF Next, Starts

\* What pouch hands over is a well-formed entry.
LEMMA StartKeeps ==
  ASSUME EntryInv, NEW p \in Endpoints \cup {"other"}, NEW op \in Ops \cup {None},
         NEW of \in Nat, NEW k \in 1..MaxLen, Start(p, op, of, k)
  PROVE  /\ entry' # NoEntry
         /\ entry' \in [id : 0..MaxEntries, path : Endpoints \cup {"other", None},
                         op : Ops \cup {None}, of : Nat, len : 0..MaxLen, size : 0..MaxLen]
         /\ entry'.id = ids' /\ entry'.len = k /\ entry'.size = k
         /\ ids' \in 1..MaxEntries
         /\ active' \in [endpoint : Endpoints \cup {None}, buf : Seq(1..MaxEntries), overflow : {"no", "yes"}]
         /\ active'.buf = <<>>
         /\ active'.endpoint # None => active'.endpoint = entry'.path
         /\ answer' \in Fates /\ verified' = "no"
         /\ answer' = "none" <=> active'.endpoint # None
<1>1. ids \in Nat /\ ids < MaxEntries /\ MaxEntries \in Nat /\ MaxLen \in Nat /\ ids' = ids + 1
  BY BoundsAssumption DEF EntryInv, TypeOK, Start
<1>2. entry' = [id |-> ids + 1, path |-> p, op |-> op, of |-> of, len |-> k, size |-> k]
  BY DEF Start
<1>3. ids + 1 \in 1..MaxEntries /\ ids + 1 # 0
  BY <1>1
<1>4. active' = [endpoint |-> IF p \in Endpoints THEN p ELSE None, buf |-> <<>>, overflow |-> "no"]
  BY DEF Start
<1>5. answer' \in Fates /\ verified' = "no"
  BY DEF Start, Fates
<1>6. answer' = "none" <=> active'.endpoint # None
  BY <1>4, NoneAssumption DEF Start
<1>7. entry' # NoEntry
  BY <1>2, <1>3 DEF NoEntry
<1> QED BY <1>1, <1>2, <1>3, <1>4, <1>5, <1>6, <1>7

\* Reassembly keeps its invariant.
LEMMA EntryStep == EntryInv /\ [Next]_vars => EntryInv'
<1> SUFFICES ASSUME EntryInv, [Next]_vars PROVE EntryInv'
  OBVIOUS
<1>0. /\ authorized' \in {"no", "yes"} /\ verified' \in {"no", "yes"} /\ epoch' \in Nat
      /\ auth' \in [challenge : Nat, attempts : 0..(Width - 1)]
  BY AuthTypes DEF EntryInv
<1>1. ASSUME NEW p \in Endpoints \cup {"other"}, NEW op \in Ops \cup {None}, NEW of \in Nat,
             NEW k \in 1..MaxLen, Start(p, op, of, k)
      PROVE  EntryInv'
  <2>1. /\ k \in Nat /\ ids' \in Nat /\ ids' \in 0..MaxEntries /\ ids' \in 1..ids' /\ MsgMax \in Nat
    BY <1>1, StartKeeps, BoundsAssumption
  <2>2. Len(active'.buf) = 0 /\ \A i \in DOMAIN active'.buf : active'.buf[i] = entry'.id
    BY <1>1, StartKeeps
  <2>3. Len(active'.buf) <= MsgMax /\ Len(active'.buf) + entry'.len = entry'.size
    <3>1. entry'.len = k /\ entry'.size = k
      BY <1>1, StartKeeps
    <3> QED BY <2>1, <2>2, <3>1
  <2>4. TypeOK'
    BY <1>0, <1>1, <2>1, <2>3, StartKeeps DEF TypeOK
  <2>5. /\ entry' # NoEntry /\ entry'.id = ids' /\ entry'.len \in 1..MaxLen
        /\ active'.endpoint # None => active'.endpoint = entry'.path
        /\ answer' = "none" <=> Owed'
        /\ verified' = "no"
    BY <1>1, StartKeeps DEF Owed
  <2> QED BY <2>1, <2>2, <2>3, <2>4, <2>5 DEF EntryInv
<1>2. ASSUME NEW n \in 1..MaxLen, DataIgnored(n) PROVE EntryInv'
  <2>1. /\ entry # NoEntry /\ n \in 1..entry.len /\ active.endpoint = None /\ Advance(n)
        /\ UNCHANGED <<active, ids, answer, verified>>
    BY <1>2 DEF DataIgnored
  <2>2. entry' # NoEntry => entry'.id \in 1..ids /\ entry'.len \in 1..MaxLen
    BY <2>1, AdvanceKeeps DEF EntryInv, TypeOK
  <2>3. TypeOK'
    BY <1>0, <2>1, AdvanceKeeps DEF EntryInv, TypeOK
  <2> QED BY <2>1, <2>2, <2>3 DEF EntryInv, Owed
<1>3. ASSUME NEW n \in 1..MaxLen, DataMore(n) PROVE EntryInv'
  <2>1. /\ entry # NoEntry /\ n \in 1..(entry.len - 1) /\ active.endpoint # None /\ Advance(n)
        /\ active' = Copy(n) /\ UNCHANGED <<ids, answer, verified>>
    BY <1>3 DEF DataMore
  <2>2. n \in 1..entry.len /\ n # entry.len
    BY <2>1, BoundsAssumption DEF EntryInv
  <2>3. entry' = [entry EXCEPT !.len = entry.len - n] /\ entry.len - n \in 1..MaxLen
    BY <2>1, <2>2, AdvanceKeeps
  <2>4. /\ entry'.id = entry.id /\ entry'.path = entry.path /\ entry'.size = entry.size
        /\ entry'.len = entry.len - n
    BY <2>3 DEF EntryInv, TypeOK
  <2>5. TypeOK'
    BY <1>0, <2>1, <2>2, AdvanceKeeps, CopyKeeps DEF EntryInv, TypeOK
  <2>6. entry' # NoEntry
    BY <2>1, <2>4 DEF EntryInv, TypeOK, NoEntry
  <2> QED BY <2>1, <2>2, <2>3, <2>4, <2>5, <2>6, CopyKeeps DEF EntryInv, Owed
<1>4. ASSUME NEW n \in 1..MaxLen, Data(n), ~DataIgnored(n), ~DataMore(n) PROVE EntryInv'
  <2>1. DataLast(n) /\ Answered
    BY <1>4, LastStep
  <2>2. answer' \in Fates /\ (answer' = "none" <=> Owed')
    BY <2>1, LastKeeps DEF Answered, Owed
  <2>3. TypeOK'
    BY <1>0, <2>1, <2>2, LastKeeps, BoundsAssumption DEF EntryInv, TypeOK, NoEntry
  <2> QED BY <2>1, <2>2, <2>3, LastKeeps DEF EntryInv
<1>5. CASE Authorize
  <2>1. active.endpoint = None /\ verified' = "no" /\ answer' \in {"ok", "lost"}
    BY <1>5 DEF Authorize, Answer, EntryInv
  <2> QED BY <1>0, <1>5, <2>1 DEF Authorize, EntryInv, TypeOK, Owed, Fates
<1>6. CASE SessionEnded \/ ManagerReset
  <2>1. /\ active' = [active EXCEPT !.endpoint = None] /\ entry' \in {entry, NoEntry}
        /\ answer' = (IF active.endpoint # None THEN "cut" ELSE answer)
        /\ UNCHANGED <<ids, verified>>
    BY <1>6 DEF SessionEnded, ManagerReset, DispatchReset, Forgotten
  <2>2. /\ active' \in [endpoint : Endpoints \cup {None}, buf : Seq(1..MaxEntries), overflow : {"no", "yes"}]
        /\ active'.endpoint = None /\ active'.buf = active.buf
    BY <2>1 DEF EntryInv, TypeOK
  <2>3. TypeOK'
    <3>1. answer' \in Fates /\ ids' \in 0..MaxEntries /\ Len(active'.buf) <= MsgMax
      BY <2>1, <2>2 DEF EntryInv, TypeOK, Fates
    <3>2. entry' \in [id : 0..MaxEntries, path : Endpoints \cup {"other", None},
                      op : Ops \cup {None}, of : Nat, len : 0..MaxLen, size : 0..MaxLen]
      BY <2>1, BoundsAssumption DEF EntryInv, TypeOK, NoEntry
    <3> QED BY <1>0, <2>2, <3>1, <3>2 DEF TypeOK
  <2>4. answer' = "none" <=> Owed'
    BY <2>1, <2>2 DEF EntryInv, Owed
  <2> QED BY <2>1, <2>2, <2>3, <2>4 DEF EntryInv
<1>7. CASE UNCHANGED vars
  BY <1>7 DEF vars, EntryInv, TypeOK, Owed
<1>8. ASSUME Starts PROVE EntryInv'
  <2>1. 1 \in 1..MaxLen /\ \A c \in 0..epoch : c \in Nat
    BY BoundsAssumption DEF EntryInv, TypeOK
  <2> QED BY <1>1, <1>8, <2>1 DEF Starts, Endpoints, Open, Gated, Ops
<1> QED BY <1>2, <1>3, <1>4, <1>5, <1>6, <1>7, <1>8 DEF Next

\* Nothing is being reassembled at first.
LEMMA EntryInit == Init => EntryInv
  BY BoundsAssumption DEF Init, EntryInv, TypeOK, NoEntry, Idle, NoAuth, Owed, Fates

\* The invariant of reassembly holds in every reachable state.
THEOREM Reassembly == Spec => []EntryInv
  BY EntryInit, EntryStep, PTL DEF Spec

\* Types hold in every reachable state; in particular the buffer never outgrows
\* POUCH_PROV_MSG_MAX, however the entries are cut (dispatch.c:136-141).
THEOREM TypeCorrect == Spec => []TypeOK
<1>1. EntryInv => TypeOK
  BY DEF EntryInv
<1> QED BY <1>1, Reassembly, PTL

\* A handler gets the bytes of one entry, all of them and no others, for every
\* way of cutting entries into pieces and wherever a reset falls
\* (dispatch.c:103-149).
THEOREM HandledCorrect == Spec => []HandledWhole
<1>1. Init => HandledWhole
  BY DEF Init, HandledWhole
<1>2. EntryInv /\ HandledWhole /\ [Next]_vars => HandledWhole'
  <2> SUFFICES ASSUME EntryInv, HandledWhole, [Next]_vars PROVE HandledWhole'
    OBVIOUS
  <2>1. ASSUME handled' = handled PROVE HandledWhole'
    BY <2>1 DEF HandledWhole
  <2>2. ASSUME NEW n \in 1..MaxLen, Data(n), ~DataIgnored(n), ~DataMore(n) PROVE HandledWhole'
    BY <2>1, <2>2, LastStep, LastKeeps DEF HandledWhole
  <2>3. ASSUME NEW n \in 1..MaxLen, DataIgnored(n) \/ DataMore(n) PROVE HandledWhole'
    BY <2>1, <2>3 DEF DataIgnored, DataMore
  <2>4. CASE Starts
    BY <2>1, <2>4 DEF Starts, Start
  <2>5. CASE Authorize \/ SessionEnded \/ ManagerReset \/ UNCHANGED vars
    BY <2>1, <2>5 DEF Authorize, SessionEnded, ManagerReset, vars
  <2> QED BY <2>2, <2>3, <2>4, <2>5 DEF Next
<1> QED BY <1>1, <1>2, Reassembly, PTL DEF Spec

\* For every way of cutting entries and wherever a reset falls, an entry on an
\* endpoint is answered when its last byte has arrived and its handler has
\* returned, once, and only a reset before its last byte cuts it; an answer without
\* memory counts as given and is lost (dispatch.c:143-182).
THEOREM AnsweredCorrect == Spec => AnsweredAtEnd
<1>1. EntryInv /\ [Next]_vars => [AnswersTheEntry]_vars
  <2> SUFFICES ASSUME EntryInv, Next PROVE AnswersTheEntry
    OBVIOUS
  <2>0. answer' = "none" <=> Owed'
    BY EntryStep DEF EntryInv
  <2>1. ASSUME answer' = answer \/ ids' # ids PROVE AnswersTheEntry
    BY <2>0, <2>1 DEF AnswersTheEntry
  <2>2. ASSUME NEW n \in 1..MaxLen, Data(n), ~DataIgnored(n), ~DataMore(n) PROVE AnswersTheEntry
    <3>1. DataLast(n) /\ answer' # "cut"
      BY <2>2, LastStep DEF Answered
    <3> QED BY <2>0, <3>1, LastKeeps DEF AnswersTheEntry
  <2>3. ASSUME NEW n \in 1..MaxLen, DataIgnored(n) \/ DataMore(n) PROVE AnswersTheEntry
    BY <2>1, <2>3 DEF DataIgnored, DataMore
  <2>4. CASE Starts
    BY <2>1, <2>4 DEF Starts, Start, EntryInv, TypeOK
  <2>5. CASE Authorize
    BY <2>0, <2>5 DEF Authorize, Answer, AnswersTheEntry, EntryInv, Owed
  <2>6. CASE SessionEnded \/ ManagerReset
    <3>1. DispatchReset /\ answer' = (IF active.endpoint # None THEN "cut" ELSE answer)
      BY <2>6 DEF SessionEnded, ManagerReset, Forgotten
    <3> QED BY <2>0, <3>1 DEF AnswersTheEntry, EntryInv, Owed
  <2> QED BY <2>2, <2>3, <2>4, <2>5, <2>6 DEF Next
<1> QED BY <1>1, Reassembly, PTL DEF Spec, AnsweredAtEnd

-----------------------------------------------------------------------------
\* A right proof is on record while its handler has yet to authorize the link.
ProvenInv ==
  /\ authorized \in {"no", "yes"} /\ verified \in {"no", "yes"}
  /\ verified = "yes" => proven # "no"
  /\ AuthorizedByProof

\* Every step keeps a proof on record for an authorized session.
LEMMA ProvenStep == ProvenInv /\ [Next]_vars => ProvenInv'
<1> SUFFICES ASSUME ProvenInv, [Next]_vars PROVE ProvenInv'
  OBVIOUS
<1> USE DEF ProvenInv, AuthorizedByProof
<1>1. ASSUME NEW p, NEW op, NEW of, NEW k, Start(p, op, of, k) PROVE ProvenInv'
  BY <1>1 DEF Start
<1>2. ASSUME NEW n \in 1..MaxLen, Data(n) PROVE ProvenInv'
  <2>1. CASE DataIgnored(n) \/ DataMore(n)
    BY <2>1 DEF DataIgnored, DataMore
  <2>2. CASE DataTooLong(n) \/ DataUnauthorized(n) \/ HandlerRefuses(n) \/ HandleOther(n)
    BY <2>2 DEF DataTooLong, DataUnauthorized, HandlerRefuses, HandleOther
  <2>3. CASE HandleChallenge(n) \/ ProofUnasked(n) \/ ProofExhausted(n)
    BY <2>3 DEF HandleChallenge, ProofUnasked, ProofExhausted
  <2>4. CASE ProofFails(n) \/ ProofRejected(n)
    BY <2>4 DEF ProofFails, ProofRejected, ProofCounted
  <2>5. CASE ProofAccepted(n)
    BY <2>5 DEF ProofAccepted, ProofCounted
  <2> QED BY <1>2, <2>1, <2>2, <2>3, <2>4, <2>5 DEF Data
<1>3. CASE Authorize
  BY <1>3 DEF Authorize
<1>4. CASE SessionEnded \/ ManagerReset
  BY <1>4 DEF SessionEnded, ManagerReset, DispatchReset, Forgotten
<1>5. CASE UNCHANGED vars
  BY <1>5 DEF vars
<1> QED BY <1>1, <1>2, <1>3, <1>4, <1>5 DEF Next, Starts

\* Gated endpoints run only after a right proof of a challenge of the same
\* session, or of one whose reset fell into that proof's handler, wherever the
\* resets of other threads fall (dispatch.c:56-73, auth.c:157-173).
THEOREM AuthorizedCorrect == Spec => []AuthorizedByProof
<1>1. Init => ProvenInv
  BY DEF Init, ProvenInv, AuthorizedByProof
<1>2. ProvenInv => AuthorizedByProof
  BY DEF ProvenInv
<1> QED BY <1>1, <1>2, ProvenStep, PTL DEF Spec

\* The handler of a gated endpoint starts only in a session in which a proof of
\* its own challenge was right, or in one whose reset fell into the handler of
\* such a proof, however pieces of entries, proofs and resets interleave
\* (dispatch.c:56-73, 155-163).
THEOREM GatedCorrect ==
  Spec => [][handled' # handled /\ handled'.path \in Gated => proven # "no"]_vars
<1>1. EntryInv /\ AuthorizedByProof /\ [Next]_vars
        => [handled' # handled /\ handled'.path \in Gated => proven # "no"]_vars
  <2> SUFFICES ASSUME EntryInv, AuthorizedByProof, Next,
                      handled' # handled, handled'.path \in Gated
               PROVE  proven # "no"
    OBVIOUS
  <2>1. PICK n \in 1..MaxLen : Handler(n)
    <3>1. PICK n \in 1..MaxLen : Data(n)
      BY DEF Next, Starts, Start, Authorize, SessionEnded, ManagerReset
    <3> QED
      BY <3>1 DEF Data, DataIgnored, DataMore, DataTooLong, DataUnauthorized, HandlerRefuses,
                  HandleOther, HandleChallenge, HandleProof, ProofUnasked, ProofExhausted,
                  ProofCounted, ProofFails, ProofRejected, ProofAccepted
  <2>2. active.endpoint # None /\ handled'.path = entry.path
    BY <2>1 DEF Handler, DataLast
  <2>3. active.endpoint \in Gated
    BY <2>2 DEF EntryInv
  <2> QED BY <2>1, <2>3 DEF Handler, AuthorizedByProof
<1> QED BY <1>1, Reassembly, AuthorizedCorrect, PTL DEF Spec

-----------------------------------------------------------------------------
\* Until it comes round, the counter is the number of proofs since the reset.
CountInv ==
  /\ counted \in Nat /\ compared \in Nat
  /\ counted < Width => /\ auth.attempts = counted
                        /\ compared <= counted
                        /\ compared <= MaxAttempts

\* The next value of a counter that does not come round yet.
LEMMA AttemptIs ==
  ASSUME CountInv, counted + 1 < Width
  PROVE  Attempt = counted + 1
<1>1. counted < Width /\ auth.attempts = counted
  BY BoundsAssumption DEF CountInv
<1>2. \A c \in Nat : c + 1 < Width => (c + 1) % Width = c + 1
  BY BoundsAssumption
<1> QED BY <1>1, <1>2 DEF Attempt, CountInv

\* Every step keeps the count of proofs, resets start it again.
LEMMA CountStep == TypeOK /\ CountInv /\ [Next]_vars => CountInv'
<1> SUFFICES ASSUME TypeOK, CountInv, [Next]_vars PROVE CountInv'
  OBVIOUS
<1>0. ASSUME UNCHANGED <<auth.attempts, counted, compared>> PROVE CountInv'
  BY <1>0 DEF CountInv
<1>1. ASSUME NEW p, NEW op, NEW of, NEW k, Start(p, op, of, k) PROVE CountInv'
  BY <1>0, <1>1 DEF Start
<1>2. ASSUME NEW n \in 1..MaxLen, Data(n) PROVE CountInv'
  <2>1. CASE DataIgnored(n) \/ DataMore(n)
    BY <1>0, <2>1 DEF DataIgnored, DataMore
  <2>2. CASE DataTooLong(n) \/ DataUnauthorized(n) \/ HandlerRefuses(n) \/ HandleOther(n)
    BY <1>0, <2>2 DEF DataTooLong, DataUnauthorized, HandlerRefuses, HandleOther
  <2>3. CASE HandleChallenge(n) \/ ProofUnasked(n)
    BY <1>0, <2>3 DEF HandleChallenge, ProofUnasked, TypeOK
  <2> DEFINE Counts == auth' = [auth EXCEPT !.attempts = Attempt] /\ counted' = counted + 1
  <2>9. ASSUME Counts PROVE /\ counted' \in Nat
                              /\ counted' < Width => auth'.attempts = counted' /\ counted < Width
    <3>1. counted' = counted + 1 /\ auth'.attempts = Attempt
      BY <2>9 DEF TypeOK
    <3> QED BY <3>1, AttemptIs, BoundsAssumption DEF CountInv
  <2>4. ASSUME Counts, compared' = compared PROVE CountInv'
    BY <2>9, <2>4 DEF CountInv
  <2>5. ASSUME Counts, compared' = compared + 1, AttemptLeft PROVE CountInv'
    <3>1. counted + 1 < Width => counted + 1 <= MaxAttempts
      BY <2>5, AttemptIs DEF AttemptLeft
    <3> QED BY <2>9, <2>5, <3>1, BoundsAssumption DEF CountInv
  <2>6. CASE ProofExhausted(n)
    BY <2>4, <2>6 DEF ProofExhausted
  <2>7. CASE ProofFails(n)
    BY <2>4, <2>7 DEF ProofFails, ProofCounted
  <2>8. CASE ProofRejected(n) \/ ProofAccepted(n)
    BY <2>5, <2>8 DEF ProofRejected, ProofAccepted, ProofCounted
  <2> QED BY <1>2, <2>1, <2>2, <2>3, <2>6, <2>7, <2>8 DEF Data
<1>3. CASE Authorize
  BY <1>0, <1>3 DEF Authorize
<1>4. CASE SessionEnded \/ ManagerReset
  BY <1>4, BoundsAssumption
  DEF SessionEnded, ManagerReset, DispatchReset, Forgotten, NoAuth, CountInv
<1>5. CASE UNCHANGED vars
  BY <1>0, <1>5 DEF vars
<1> QED BY <1>1, <1>2, <1>3, <1>4, <1>5 DEF Next, Starts

\* Between two resets at most MAX_ATTEMPTS proofs are compared, whatever other
\* requests lie between them, as long as fewer proofs arrive than the counter
\* has values (auth.c:39, 146).
THEOREM ProofsCorrect == Spec => []ProofsBounded
<1>1. Init => CountInv
  BY BoundsAssumption DEF Init, CountInv, NoAuth
<1>2. CountInv => ProofsBounded
  BY DEF CountInv, ProofsBounded
<1> QED BY <1>1, <1>2, CountStep, TypeCorrect, PTL DEF Spec
=============================================================================
