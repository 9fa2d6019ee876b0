-------------------------------- MODULE Rpc --------------------------------
(***************************************************************************)
(* One provisioning exchange after another over a BLE link: the client of  *)
(* src/cli/src/pouchprov/session.py and the device side of src/src/rpc.c   *)
(* and src/src/dispatch.c.                                                 *)
(*                                                                         *)
(* The client sends a request pouch, then subscribes the uplink and polls  *)
(* for the response pouch.  The device runs the received entries and the   *)
(* uplink flushes one by one on the pouch work queue; responses wait in    *)
(* rsp_fifo, and rsp_ready is a binary semaphore.  The Bluetooth thread    *)
(* resets the queue when the link drops, also while a handler runs; so do  *)
(* the threads that stop or reset the manager, and the handler of the end  *)
(* request, which stops it before its own response is queued.  The         *)
(* transfer of a pouch (module Exchange) either completes or fails here.   *)
(***************************************************************************)
EXTENDS Naturals, Sequences, FiniteSets

CONSTANTS
  Paths,         \* the paths clients ask for
  Served,        \* those the device's build has an endpoint for
  End,           \* the one an end request goes to
  PollAttempts,  \* poll_attempts of request_entries
  MaxReqs,       \* bound on requests
  Faults,        \* which of {"transfer", "drop", "nomem", "stop"} may happen
  None

ASSUME PollAssumption == PollAttempts \in Nat \ {0} /\ MaxReqs \in Nat
ASSUME FaultAssumption == Faults \subseteq {"transfer", "drop", "nomem", "stop"}
ASSUME PathAssumption == Served \subseteq Paths /\ End \in Served /\ None \notin Paths
\* Responses, work items and uplink pouches.
Rsps == [id : 1..MaxReqs, path : Paths, conn : Nat]
Jobs == [kind : {"entry"}, id : 1..MaxReqs, path : Paths, conn : Nat]
          \cup [kind : {"flush"}, id : 1..MaxReqs, path : {None}, conn : Nat]
Pouches == [id : 1..MaxReqs, rsps : Seq(Rsps), how : {"drained", "time limit", "at once"}]

ASSUME NoneAssumption == None \notin Rsps /\ None \notin Pouches

VARIABLES
  link,    \* "up" or "down"
  conn,    \* number of the connection
  client,  \* where request_entries is: [pc, id, path, polls]
  last,    \* outcome of the last request: [id, got], got = 0 when it raised
  jobs,    \* work items of the pouch work queue, oldest first
  hand,    \* response of the handler that has run, not yet enqueued
  fifo,    \* rsp_fifo
  ready,   \* rsp_ready: 0 or 1
  running, \* running of manager.c: "yes" or "no"
  out,     \* the uplink pouch a flush is filling: [id, rsps, how]
  air,     \* the uplink pouch on its way to the client: the same
  \* History, read by no guard:
  past     \* "failed" once an exchange has failed or a response was lost on this
           \* link, or when work of an earlier link outlived it, else "clean"

device == <<jobs, hand, fifo, ready, running, out>>
vars == <<link, conn, client, last, device, air, past>>

Rsp(r) == [id |-> r.id, path |-> r.path, conn |-> r.conn]
Entry(id, p) == [kind |-> "entry", id |-> id, path |-> p, conn |-> conn]
Flush(id) == [kind |-> "flush", id |-> id, path |-> None, conn |-> conn]
At(pc) == [client EXCEPT !.pc = pc]

Init ==
  /\ link = "up"
  /\ conn = 1
  /\ client = [pc |-> "idle", id |-> 0, path |-> None, polls |-> 0]
  /\ last = [id |-> 0, got |-> 0]
  /\ jobs = <<>>
  /\ hand = None
  /\ fifo = <<>>
  /\ ready = 0
  /\ running = "yes"
  /\ out = None
  /\ air = None
  /\ past = "clean"

-----------------------------------------------------------------------------
\* request_entries and request.
Request(p) ==
  /\ client.pc = "idle"
  /\ link = "up"
  /\ client.id < MaxReqs
  /\ client' = [pc |-> "sending", id |-> client.id + 1, path |-> p, polls |-> 0]
  /\ UNCHANGED <<link, conn, last, device, air, past>>

Sent ==
  /\ client.pc = "sending"
  /\ link = "up"
  /\ jobs' = Append(jobs, Entry(client.id, client.path))
  /\ client' = At("polling")
  /\ UNCHANGED <<link, conn, last, hand, fifo, ready, running, out, air, past>>

\* An exception out of request_entries.
Raise ==
  /\ client' = At("idle")
  /\ last' = [id |-> client.id, got |-> 0]

\* The transfer times out, with or without the device having it all.
SendFails ==
  /\ "transfer" \in Faults
  /\ client.pc = "sending"
  /\ Raise
  /\ jobs' \in {jobs, Append(jobs, Entry(client.id, client.path))}
  /\ past' = "failed"
  /\ UNCHANGED <<link, conn, hand, fifo, ready, running, out, air>>

Poll ==
  /\ client.pc = "polling"
  /\ link = "up"
  /\ jobs' = Append(jobs, Flush(client.id))
  /\ client' = At("receiving")
  /\ UNCHANGED <<link, conn, last, hand, fifo, ready, running, out, air, past>>

\* An empty pouch: back off and poll again, poll_attempts times in all.
ReceiveEmpty ==
  /\ client.pc = "receiving"
  /\ air # None
  /\ air.rsps = <<>>
  /\ air' = None
  /\ IF client.polls + 1 < PollAttempts
     THEN /\ client' = [client EXCEPT !.pc = "polling", !.polls = @ + 1]
          /\ UNCHANGED <<last, past>>
     ELSE Raise /\ past' = "failed"
  /\ UNCHANGED <<link, conn, device>>

\* The first response entry on the path of the request, 0 when there is none
\* (the request raises).
FirstOf(rsps, p) ==
  LET own == {i \in DOMAIN rsps : rsps[i].path = p}
  IN IF own = {} THEN 0 ELSE rsps[CHOOSE i \in own : \A j \in own : i <= j].id

Receive ==
  /\ client.pc = "receiving"
  /\ air # None
  /\ air.rsps # <<>>
  /\ air' = None
  /\ client' = At("idle")
  /\ last' = [id |-> client.id, got |-> FirstOf(air.rsps, client.path)]
  /\ past' = IF last'.got = 0 THEN "failed" ELSE past
  /\ UNCHANGED <<link, conn, device>>

\* The receive times out; unsubscribing abandons the pouch under way.
ReceiveFails ==
  /\ "transfer" \in Faults
  /\ client.pc = "receiving"
  /\ Raise
  /\ air' = None
  /\ past' = "failed"
  /\ UNCHANGED <<link, conn, device>>

-----------------------------------------------------------------------------
\* pouch_prov_rpc_reset.
RpcReset == fifo' = <<>> /\ ready' = 0

\* The pouch work queue: one job at a time, ...
NextJob(kind) ==
  /\ hand = None
  /\ out = None
  /\ jobs # <<>>
  /\ Head(jobs).kind = kind
  /\ jobs' = Tail(jobs)

\* ... an entry's handler first ...
Handler ==
  /\ NextJob("entry")
  /\ UNCHANGED <<link, conn, client, last, out, air, past>>

Handle ==
  /\ Handler
  /\ Head(jobs).path # End
  /\ hand' = IF Head(jobs).path \in Served THEN Rsp(Head(jobs)) ELSE None
  /\ UNCHANGED <<fifo, ready, running>>

\* Mutant: the manager stops once the response is queued.
HandleEndQueuesFirst ==
  /\ Handler
  /\ Head(jobs).path = End
  /\ IF running = "yes"
     THEN hand' = None /\ RpcReset
     ELSE hand' = Rsp(Head(jobs)) /\ UNCHANGED <<fifo, ready>>
  /\ running' = "no"

\* An end request: its handler stops the manager, which resets the queue unless
\* it was stopped before.
HandleEnd ==
  /\ Handler
  /\ Head(jobs).path = End
  /\ hand' = Rsp(Head(jobs))
  /\ IF running = "yes" THEN RpcReset ELSE UNCHANGED <<fifo, ready>>
  /\ running' = "no"

\* ... then pouch_prov_rpc_enqueue, which fails without memory.
Enqueue ==
  /\ hand # None
  /\ fifo' = Append(fifo, hand)
  /\ ready' = 1
  /\ hand' = None
  /\ UNCHANGED <<link, conn, client, last, jobs, running, out, air, past>>

EnqueueFails ==
  /\ "nomem" \in Faults
  /\ hand # None
  /\ hand' = None
  /\ past' = "failed"
  /\ UNCHANGED <<link, conn, client, last, jobs, fifo, ready, running, out, air>>

\* rpc_uplink_flush: with nothing queued it waits on the semaphore.  Only this
\* thread enqueues, so the wait ends at once when a count was left over, else at
\* the time limit.
FlushFill(how) == out' = [id |-> Head(jobs).id, rsps |-> <<>>, how |-> how]

\* Mutant: the wait has no time limit.
FlushBeginForever ==
  /\ NextJob("flush")
  /\ \/ fifo # <<>> /\ FlushFill("drained") /\ UNCHANGED ready
     \/ fifo = <<>> /\ ready = 1 /\ FlushFill("at once") /\ ready' = 0
  /\ UNCHANGED <<link, conn, client, last, hand, fifo, running, air, past>>

FlushBegin ==
  /\ NextJob("flush")
  /\ \/ fifo # <<>> /\ FlushFill("drained") /\ UNCHANGED ready
     \/ fifo = <<>> /\ FlushFill(IF ready = 0 THEN "time limit" ELSE "at once") /\ ready' = 0
  /\ UNCHANGED <<link, conn, client, last, hand, fifo, running, air, past>>

\* It drains the queue into the pouch; a response pouch has no room for is
\* dropped.
FlushTake ==
  /\ out # None
  /\ fifo # <<>>
  /\ fifo' = Tail(fifo)
  /\ \/ out' = [out EXCEPT !.rsps = Append(@, Head(fifo))] /\ UNCHANGED past
     \/ "nomem" \in Faults /\ past' = "failed" /\ UNCHANGED out
  /\ UNCHANGED <<link, conn, client, last, jobs, hand, ready, running, air>>

\* The pouch goes to the subscription it was filled for, or nowhere when that is
\* over.
FlushEnd ==
  /\ out # None
  /\ fifo = <<>>
  /\ out' = None
  /\ air' = IF out.id = client.id /\ client.pc = "receiving" THEN out ELSE air
  /\ UNCHANGED <<link, conn, client, last, jobs, hand, fifo, ready, running, past>>

-----------------------------------------------------------------------------
\* The client's exchange raises; pouch may or may not still run what it had
\* queued (external); a running handler or flush is not stopped.
LinkLost ==
  /\ "drop" \in Faults
  /\ link = "up"
  /\ link' = "down"
  /\ jobs' \in {<<>>, jobs}
  /\ air' = None
  /\ IF client.pc = "idle" THEN UNCHANGED <<client, last>> ELSE Raise
  /\ past' = IF jobs' = <<>> /\ hand = None /\ out = None THEN "clean" ELSE "failed"

\* Mutant: the response queue is not reset.
DropKeepsQueue ==
  LinkLost /\ UNCHANGED <<conn, hand, fifo, ready, running, out>>

\* The link drops and pouch_prov_mgr_session_ended resets the queue.
Drop ==
  /\ LinkLost
  /\ RpcReset
  /\ UNCHANGED <<conn, hand, running, out>>

\* Another thread stops the manager (the auto-stop, the application) or resets
\* it: the link stays, what is queued is lost.
QueueReset ==
  /\ "stop" \in Faults
  /\ RpcReset
  /\ running' \in {running, "no"}
  /\ past' = IF fifo = <<>> THEN past ELSE "failed"
  /\ UNCHANGED <<link, conn, client, last, jobs, hand, out, air>>

\* A new link has a new ProvSession.
Connect ==
  /\ link = "down"
  /\ conn <= MaxReqs
  /\ link' = "up"
  /\ conn' = conn + 1
  /\ last' = [id |-> 0, got |-> 0]
  /\ UNCHANGED <<client, device, air, past>>

-----------------------------------------------------------------------------
ClientStep == Sent \/ Poll \/ ReceiveEmpty \/ Receive
DeviceStep == Handle \/ HandleEnd \/ Enqueue \/ EnqueueFails \/ FlushBegin \/ FlushTake \/ FlushEnd

Next == (\E p \in Paths : Request(p)) \/ ClientStep \/ DeviceStep
          \/ SendFails \/ ReceiveFails \/ Drop \/ QueueReset \/ Connect

Spec == Init /\ [][Next]_vars

\* The client's task runs and the work queue runs its jobs; no fault is counted
\* on to end an exchange.
FairSpec == Spec /\ WF_vars(ClientStep) /\ WF_vars(DeviceStep)
-----------------------------------------------------------------------------
\* The types of the client's and the device's state.
TypeOK ==
  /\ link \in {"up", "down"}
  /\ conn \in Nat
  /\ client \in [pc : {"idle", "sending", "polling", "receiving"}, id : 0..MaxReqs,
                 path : Paths \cup {None}, polls : 0..(PollAttempts - 1)]
  /\ last \in [id : 0..MaxReqs, got : 0..MaxReqs]
  /\ jobs \in Seq(Jobs)
  /\ hand \in Rsps \cup {None}
  /\ fifo \in Seq(Rsps)
  /\ ready \in {0, 1}
  /\ running \in {"no", "yes"}
  /\ out \in Pouches \cup {None}
  /\ air \in Pouches \cup {None}
  /\ past \in {"clean", "failed"}

\* A response carries no request number: request() takes the first entry on its
\* path (session.py:85).  As long as no exchange has failed on the link and no
\* handler of an earlier link outlived it, that is the answer to this request.
AnswerMatches ==
  link = "up" /\ past = "clean" /\ last.id # 0 => last.got = last.id

\* Handlers and flush share one work queue (rpc.c:8): unless a response is lost,
\* the first poll brings the answer and the client never backs off.  The end
\* request is no exception, although its handler resets the queue (ctrl.c:69).
FirstPollAnswers ==
  client.pc # "idle" /\ client.path \in Served /\ past = "clean" => client.polls = 0

\* Every exchange ends, answered or raised, though the device may never have a
\* response to give (rpc.c:76 bounds the wait, session.py:68 the polls).
ExchangeEnds ==
  client.pc # "idle" ~> client.pc = "idle"

\* protocol.md:95: "Clients MUST be lockstep per exchange: do not send request
\* pouch N+1 before receiving response pouch N."  So when a request is started
\* on a link, the device has none of an earlier one left to answer.
\* The code does not keep to it: see "What does not hold" in README.md.
Lockstep ==
  [][client.pc = "idle" /\ client'.pc = "sending" =>
       /\ hand = None
       /\ fifo = <<>>
       /\ \A i \in DOMAIN jobs : jobs[i].kind = "flush"]_vars

\* manager.c:107: "BLE link dropped: clear authorization and any queued
\* responses."  So the queue holds responses of this link only.
\* The code does not keep to it: see "What does not hold" in README.md.
ClearedOnDisconnect ==
  link = "up" => \A i \in DOMAIN fifo : fifo[i].conn = conn

\* rpc.c:10: the flush waits "up to CONFIG_POUCH_PROV_RESPONSE_WAIT_MS for the
\* first response": an empty pouch is sent only once the time is up.
\* The code does not keep to it: see "What does not hold" in README.md.
EmptyOnlyAfterWait ==
  air # None => (air.rsps = <<>> => air.how = "time limit")
=============================================================================
