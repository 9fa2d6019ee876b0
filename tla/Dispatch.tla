------------------------------ MODULE Dispatch ------------------------------
(***************************************************************************)
(* Reassembly and dispatch of request entries, and the authorization of a  *)
(* link (src/src/dispatch.c, src/src/handlers/auth.c), on a device that is *)
(* configured with a proof of possession.                                  *)
(*                                                                         *)
(* Pouch hands an entry over as downlink_start and a run of downlink_data  *)
(* calls, on its work queue.  pouch_prov_dispatch_reset is called by other *)
(* threads: when the link drops and when the application resets or stops   *)
(* the manager, possibly in the middle of an entry, or of the handler that *)
(* is about to authorize the link.                                         *)
(***************************************************************************)
EXTENDS Naturals, Sequences, FiniteSets

CONSTANTS
  MsgMax,       \* POUCH_PROV_MSG_MAX
  MaxAttempts,  \* MAX_ATTEMPTS of auth.c
  Width,        \* values of the attempt counter, a uint8_t: 256 in the code
  MaxLen,       \* bound on the length of an entry
  MaxEntries,   \* bound on entries
  None

ASSUME BoundsAssumption ==
  /\ MsgMax \in Nat \ {0} /\ MaxLen \in Nat \ {0} /\ MaxEntries \in Nat
  /\ MaxAttempts \in Nat \ {0} /\ Width \in Nat /\ MaxAttempts < Width

Open == {"ver", "auth"}
Gated == {"ctrl", "config"}
Endpoints == Open \cup Gated
Ops == {"challenge", "proof"}

ASSUME NoneAssumption == None \notin Endpoints

VARIABLES
  entry,       \* the entry pouch is handing over: [id, path, op, of, len], len to come
  active,      \* active: [endpoint, buf, overflow], buf the entry of each byte
  authorized,  \* authorized: "no" or "yes"
  auth,        \* state of auth.c: [challenge, attempts], challenge 0: none
  verified,    \* "yes" while the handler of a right proof has yet to authorize
  epoch,       \* challenges given so far (their nonces are all different)
  ids,         \* entries started
  \* History, read by no action:
  handled,     \* the request handed to a handler last: [id, path, buf, size]
  answer,      \* what became of the entry started last: "none" while it is taken,
               \* then its status, "lost" when the answer found no memory, or
               \* "cut" by a reset; "unserved" on a path that is no endpoint's
  proven,      \* "yes" once a proof of this session's challenge was right,
               \* "late" when the reset fell into the handler of such a proof
  counted,     \* proofs counted since the last reset
  compared     \* those of them that were compared

vars == <<entry, active, authorized, auth, verified, epoch, ids, handled, answer, proven, counted, compared>>

NoEntry == [id |-> 0, path |-> None, op |-> None, of |-> 0, len |-> 0, size |-> 0]
Idle == [endpoint |-> None, buf |-> <<>>, overflow |-> "no"]
NoAuth == [challenge |-> 0, attempts |-> 0]

Init ==
  /\ entry = NoEntry
  /\ active = Idle
  /\ authorized = "no"
  /\ auth = NoAuth
  /\ verified = "no"
  /\ epoch = 0
  /\ ids = 0
  /\ handled = [id |-> 0, path |-> None, buf |-> <<>>, size |-> 0]
  /\ answer = "unserved"
  /\ proven = "no"
  /\ counted = 0
  /\ compared = 0

-----------------------------------------------------------------------------
\* downlink_start: a path that is no endpoint's leaves active.endpoint NULL.
Start(p, op, of, size) ==
  /\ entry = NoEntry
  /\ verified = "no"
  /\ ids < MaxEntries
  /\ ids' = ids + 1
  /\ entry' = [id |-> ids + 1, path |-> p, op |-> op, of |-> of, len |-> size, size |-> size]
  /\ active' = [endpoint |-> IF p \in Endpoints THEN p ELSE None,
                buf |-> <<>>, overflow |-> "no"]
  /\ answer' = IF p \in Endpoints THEN "none" ELSE "unserved"
  /\ UNCHANGED <<authorized, auth, verified, epoch, handled, proven, counted, compared>>

\* Mutant: the last piece that fits may follow one that did not.
CopyForgetsOverflow(n) ==
  IF Len(active.buf) + n > MsgMax
  THEN [active EXCEPT !.overflow = "yes"]
  ELSE [active EXCEPT !.buf = @ \o [i \in 1..n |-> entry.id], !.overflow = "no"]

\* Mutant: the buffer takes one byte too many.
CopyOneMore(n) ==
  IF Len(active.buf) + n > MsgMax + 1
  THEN [active EXCEPT !.overflow = "yes"]
  ELSE [active EXCEPT !.buf = @ \o [i \in 1..n |-> entry.id]]

\* A piece of n bytes: one that does not fit is dropped and marks the entry.
Copy(n) ==
  IF Len(active.buf) + n > MsgMax
  THEN [active EXCEPT !.overflow = "yes"]
  ELSE [active EXCEPT !.buf = @ \o [i \in 1..n |-> entry.id]]

Advance(n) == entry' = IF n = entry.len THEN NoEntry ELSE [entry EXCEPT !.len = @ - n]

\* Data of an entry nobody takes.
DataIgnored(n) ==
  /\ entry # NoEntry
  /\ n \in 1..entry.len
  /\ active.endpoint = None
  /\ Advance(n)
  /\ UNCHANGED <<active, authorized, auth, verified, epoch, ids, handled, answer, proven, counted, compared>>

\* Mutant: an entry that is too long is answered at once.
DataMoreAnswers(n) ==
  /\ entry # NoEntry
  /\ n \in 1..(entry.len - 1)
  /\ active.endpoint # None
  /\ active' = Copy(n)
  /\ Advance(n)
  /\ answer' = IF active'.overflow = "yes" THEN "invalid argument" ELSE answer
  /\ UNCHANGED <<authorized, auth, verified, epoch, ids, handled, proven, counted, compared>>

DataMore(n) ==
  /\ entry # NoEntry
  /\ n \in 1..(entry.len - 1)
  /\ active.endpoint # None
  /\ active' = Copy(n)
  /\ Advance(n)
  /\ UNCHANGED <<authorized, auth, verified, epoch, ids, handled, answer, proven, counted, compared>>

\* The last piece: from here downlink_data answers the entry.
DataLast(n) ==
  /\ entry # NoEntry
  /\ n = entry.len
  /\ active.endpoint # None
  /\ active' = [Copy(n) EXCEPT !.endpoint = None]
  /\ Advance(n)
  /\ UNCHANGED ids

\* respond_status or pouch_prov_rpc_enqueue: without memory for the answer the
\* entry gets none, and the device goes on.
Answer(status) == answer' \in {status, "lost"}

DataTooLong(n) ==
  /\ DataLast(n)
  /\ active'.overflow = "yes"
  /\ Answer("invalid argument")
  /\ UNCHANGED <<authorized, auth, verified, epoch, handled, proven, counted, compared>>

DataUnauthorized(n) ==
  /\ DataLast(n)
  /\ active'.overflow = "no"
  /\ active.endpoint \in Gated
  /\ authorized = "no"
  /\ Answer("unauthorized")
  /\ UNCHANGED <<authorized, auth, verified, epoch, handled, proven, counted, compared>>

\* The handler runs.
Handler(n) ==
  /\ DataLast(n)
  /\ active'.overflow = "no"
  /\ active.endpoint \in Gated => authorized = "yes"
  /\ handled' = [id |-> entry.id, path |-> entry.path, buf |-> active'.buf,
                 size |-> entry.size]

\* -EBADMSG: the request does not decode.
HandlerRefuses(n) ==
  /\ Handler(n)
  /\ Answer("invalid argument")
  /\ UNCHANGED <<authorized, auth, verified, epoch, proven, counted, compared>>

\* Any other error of the handler is answered as an internal error.
HandleOther(n) ==
  /\ Handler(n)
  /\ active.endpoint # "auth"
  /\ Answer("ok") \/ Answer("internal error")
  /\ UNCHANGED <<authorized, auth, verified, epoch, proven, counted, compared>>

-----------------------------------------------------------------------------
\* pouch_prov_handle_auth.  A challenge draws a new device nonce; attempts stay.
\* Computing a MAC may fail, here and below.
HandleChallenge(n) ==
  /\ Handler(n)
  /\ active.endpoint = "auth"
  /\ entry.op = "challenge"
  /\ epoch' = epoch + 1
  /\ auth' = [auth EXCEPT !.challenge = epoch + 1]
  /\ Answer("ok") \/ Answer("internal error")
  /\ UNCHANGED <<authorized, verified, proven, counted, compared>>

HandleProof(n) ==
  /\ Handler(n)
  /\ active.endpoint = "auth"
  /\ entry.op = "proof"
  /\ UNCHANGED epoch

\* There is no challenge, or (with a challenge too) the proof is of the wrong
\* length.
ProofUnasked(n) ==
  /\ HandleProof(n)
  /\ Answer("invalid state")
  /\ UNCHANGED <<authorized, auth, verified, proven, counted, compared>>

\* Mutant: one attempt more.
AttemptLeftLate == auth.attempts <= MaxAttempts

Attempt == (auth.attempts + 1) % Width
AttemptLeft == Attempt <= MaxAttempts

ProofExhausted(n) ==
  /\ HandleProof(n)
  /\ auth.challenge # 0
  /\ ~AttemptLeft
  /\ auth' = [auth EXCEPT !.attempts = Attempt]
  /\ counted' = counted + 1
  /\ Answer("unauthorized")
  /\ UNCHANGED <<authorized, verified, proven, compared>>

ProofCounted(n) ==
  /\ HandleProof(n)
  /\ auth.challenge # 0
  /\ AttemptLeft
  /\ auth' = [auth EXCEPT !.attempts = Attempt]
  /\ counted' = counted + 1
  /\ UNCHANGED authorized

ProofFails(n) ==
  /\ ProofCounted(n)
  /\ Answer("internal error")
  /\ UNCHANGED <<verified, proven, compared>>

ProofRejected(n) ==
  /\ ProofCounted(n)
  /\ compared' = compared + 1
  /\ entry.of # auth.challenge
  /\ Answer("unauthorized")
  /\ UNCHANGED <<verified, proven>>

ProofAccepted(n) ==
  /\ ProofCounted(n)
  /\ compared' = compared + 1
  /\ entry.of = auth.challenge
  /\ verified' = "yes"
  /\ proven' = "yes"
  /\ UNCHANGED answer

\* The rest of the handler: pouch_prov_session_set_authorized, and the answer.
Authorize ==
  /\ verified = "yes"
  /\ verified' = "no"
  /\ authorized' = "yes"
  /\ Answer("ok")
  /\ UNCHANGED <<entry, active, auth, epoch, ids, handled, proven, counted, compared>>

-----------------------------------------------------------------------------
\* Mutant: the authorization stays.
ResetKeepsAuthorized ==
  /\ active' = [active EXCEPT !.endpoint = None]
  /\ authorized' = authorized
  /\ auth' = NoAuth

\* pouch_prov_dispatch_reset.
DispatchReset ==
  /\ active' = [active EXCEPT !.endpoint = None]
  /\ authorized' = "no"
  /\ auth' = NoAuth

\* History of a reset.  The rest of an entry that was being taken is ignored.
Forgotten ==
  /\ answer' = IF active.endpoint # None THEN "cut" ELSE answer
  /\ proven' = IF verified = "yes" THEN "late" ELSE "no"
  /\ counted' = 0
  /\ compared' = 0

\* The link drops: pouch hands over no more of the entry.
SessionEnded ==
  /\ DispatchReset
  /\ entry' = NoEntry
  /\ Forgotten
  /\ UNCHANGED <<verified, epoch, ids, handled>>

\* The application resets or stops the manager; the link stays, and so does the
\* entry pouch is handing over.
ManagerReset ==
  /\ DispatchReset
  /\ Forgotten
  /\ UNCHANGED <<entry, verified, epoch, ids, handled>>

-----------------------------------------------------------------------------
\* What pouch hands over: a proof is of some earlier challenge, or of none.
Starts ==
  \/ \E p \in (Endpoints \ {"auth"}) \cup {"other"}, k \in 1..MaxLen : Start(p, None, 0, k)
  \/ Start("auth", "challenge", 0, 1)
  \/ \E c \in 0..epoch : Start("auth", "proof", c, 1)

Data(n) ==
  \/ DataIgnored(n) \/ DataMore(n)
  \/ DataTooLong(n) \/ DataUnauthorized(n) \/ HandlerRefuses(n) \/ HandleOther(n)
  \/ HandleChallenge(n) \/ ProofUnasked(n) \/ ProofExhausted(n)
  \/ ProofFails(n) \/ ProofRejected(n) \/ ProofAccepted(n)

Next ==
  Starts \/ (\E n \in 1..MaxLen : Data(n)) \/ Authorize \/ SessionEnded \/ ManagerReset

Spec == Init /\ [][Next]_vars

-----------------------------------------------------------------------------
Fates ==
  {"unserved", "none", "cut", "lost", "ok", "invalid argument", "unauthorized",
   "invalid state", "internal error"}

\* The types of the dispatcher's state; the buffer never outgrows MSG_MAX.
TypeOK ==
  /\ entry \in [id : 0..MaxEntries, path : Endpoints \cup {"other", None},
                op : Ops \cup {None}, of : Nat, len : 0..MaxLen, size : 0..MaxLen]
  /\ active \in [endpoint : Endpoints \cup {None}, buf : Seq(1..MaxEntries),
                 overflow : {"no", "yes"}]
  /\ Len(active.buf) <= MsgMax
  /\ authorized \in {"no", "yes"}
  /\ auth \in [challenge : Nat, attempts : 0..(Width - 1)]
  /\ verified \in {"no", "yes"}
  /\ epoch \in Nat
  /\ ids \in 0..MaxEntries
  /\ answer \in Fates

\* A handler sees the bytes of one entry, all of them: never a prefix of an
\* entry that was too long, nor what a reset left of one (dispatch.c:136-149).
HandledWhole ==
  /\ Len(handled.buf) = handled.size
  /\ \A i \in DOMAIN handled.buf : handled.buf[i] = handled.id

\* Gated endpoints run only after a right proof: every reset takes the
\* authorization back, unless it falls into the handler that is about to give it
\* (dispatch.c:66-73).
AuthorizedByProof == authorized = "yes" => proven # "no"

\* manager.c:107: "BLE link dropped: clear authorization and any queued responses."
\* The code does not keep to it: see "What does not hold" in README.md.
AuthorizationCleared == authorized = "yes" => proven = "yes"

\* MAX_ATTEMPTS bounds the proofs compared between two resets, whatever number
\* of challenges the client asks for, up to the proof with which the counter
\* comes round to zero (auth.c:39, 146).
ProofsBounded == counted < Width => compared <= MaxAttempts

\* The device owes an entry its answer from its start until its handler has
\* returned.
Owed == active.endpoint # None \/ verified = "yes"

\* The debt is settled in the step that ends it, once; a reset cuts an entry whose
\* bytes are still to come and nothing else does.
AnswersTheEntry ==
  /\ answer' = "none" <=> Owed'
  /\ ids' = ids /\ answer' # answer =>
       /\ answer = "none"
       /\ answer' = "cut" => DispatchReset

\* An entry on an endpoint has its answer when its last byte has arrived and its
\* handler has returned, whatever the length, the authorization and the outcome,
\* and at no other time: the answer may find no memory (pouch_prov_rpc_enqueue,
\* whose failure is logged), and a reset may cut the entry before its last byte,
\* but not the answer of a handler that has begun (dispatch.c:143-182).
AnsweredAtEnd == [][AnswersTheEntry]_vars
=============================================================================
