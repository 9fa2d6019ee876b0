----------------------------- MODULE RpcProofs -----------------------------
(***************************************************************************)
(* Proofs about Rpc, for any paths, limits and number of requests.  Types  *)
(* first; then, as long as nothing has failed on the link, the one answer  *)
(* of the request under way is in exactly one place between the device's   *)
(* work queue and the client, from which both properties follow.           *)
(***************************************************************************)
EXTENDS Rpc, SequenceTheorems, WellFoundedInduction, TLAPS

\* Appending and taking apart.
LEMMA Appends ==
  ASSUME NEW S, NEW s \in Seq(S), NEW x \in S
  PROVE  Append(s, x) \in Seq(S)
  OBVIOUS

\* What is left of a queue.
LEMMA Tails ==
  ASSUME NEW S, NEW s \in Seq(S), s # <<>>
  PROVE  Tail(s) \in Seq(S) /\ Head(s) \in S
  OBVIOUS

\* Types hold at first.
LEMMA TypeInit == Init => TypeOK
  BY PollAssumption DEF Init, TypeOK

\* What the client takes from a pouch is the number of a response in it, or 0.
LEMMA FirstOfType ==
  ASSUME NEW rsps \in Seq(Rsps), NEW p
  PROVE  FirstOf(rsps, p) \in 0..MaxReqs
<1> DEFINE own == {i \in DOMAIN rsps : rsps[i].path = p}
<1>1. CASE own = {}
  BY <1>1, PollAssumption DEF FirstOf
<1>2. CASE own # {}
  <2>1. own \subseteq Nat
    OBVIOUS
  <2>2. \E i \in own : \A j \in own : i <= j
    <3> HIDE DEF own
    <3> DEFINE less == OpToRel(<, Nat)
    <3>1. PICK i \in own : \A j \in own : <<j, i>> \notin less
      <4>1. IsWellFoundedOn(less, Nat)
        BY NatLessThanWellFounded
      <4> HIDE DEF less
      <4> QED BY <1>2, <2>1, <4>1, WFMin
    <3>2. \A j \in own : ~(j < i)
      BY <2>1, <3>1 DEF OpToRel
    <3> QED BY <2>1, <3>2
  <2>3. (CHOOSE i \in own : \A j \in own : i <= j) \in own
    BY <2>2
  <2>4. FirstOf(rsps, p) = rsps[CHOOSE i \in own : \A j \in own : i <= j].id
    BY <1>2 DEF FirstOf
  <2>5. \A i \in DOMAIN rsps : rsps[i].id \in 0..MaxReqs
    <3>1. \A i \in DOMAIN rsps : rsps[i] \in Rsps
      OBVIOUS
    <3> QED BY <3>1, PollAssumption DEF Rsps
  <2> QED BY <2>3, <2>4, <2>5
<1> QED BY <1>1, <1>2

\* Requests and connections.
LEMMA ClientTypes ==
  ASSUME TypeOK, Next
  PROVE  /\ link' \in {"up", "down"} /\ conn' \in Nat
         /\ client' \in [pc : {"idle", "sending", "polling", "receiving"}, id : 0..MaxReqs,
                          path : Paths \cup {None}, polls : 0..(PollAttempts - 1)]
         /\ last' \in [id : 0..MaxReqs, got : 0..MaxReqs]
         /\ past' \in {"clean", "failed"}
<1> USE PollAssumption DEF TypeOK, At
<1>1. CASE \E p \in Paths : Request(p)
  BY <1>1 DEF Request
<1>2. CASE Sent \/ Poll
  BY <1>2 DEF Sent, Poll
<1>3. CASE ReceiveEmpty
  <2>1. CASE client.polls + 1 < PollAttempts
    <3>1. client.polls + 1 \in 0..(PollAttempts - 1)
      BY <2>1
    <3>2. /\ client' = [client EXCEPT !.pc = "polling", !.polls = client.polls + 1]
          /\ UNCHANGED <<link, conn, last, past>>
      BY <1>3, <2>1 DEF ReceiveEmpty
    <3>3. client' \in [pc : {"idle", "sending", "polling", "receiving"}, id : 0..MaxReqs,
                       path : Paths \cup {None}, polls : 0..(PollAttempts - 1)]
      BY <3>1, <3>2
    <3> QED BY <3>2, <3>3
  <2>2. CASE ~(client.polls + 1 < PollAttempts)
    BY <1>3, <2>2 DEF ReceiveEmpty, Raise
  <2> QED BY <2>1, <2>2
<1>4. CASE Receive
  <2>1. FirstOf(air.rsps, client.path) \in 0..MaxReqs
    BY <1>4, FirstOfType DEF Receive, Pouches
  <2> QED BY <1>4, <2>1 DEF Receive
<1>5. CASE SendFails \/ ReceiveFails
  BY <1>5 DEF SendFails, ReceiveFails, Raise
<1>6. CASE DeviceStep
  BY <1>6 DEF DeviceStep, Handle, HandleEnd, Handler, Enqueue, EnqueueFails, FlushBegin, FlushTake, FlushEnd
<1>7. CASE Drop
  BY <1>7 DEF Drop, LinkLost, Raise
<1>8. CASE QueueReset \/ Connect
  BY <1>8 DEF QueueReset, Connect
<1> QED BY <1>1, <1>2, <1>3, <1>4, <1>5, <1>6, <1>7, <1>8 DEF Next, ClientStep

\* A client past idle has a request.
Asked == client.pc # "idle" => client.id \in 1..MaxReqs /\ client.path \in Paths

\* Every step keeps that.
LEMMA AskedStep == TypeOK /\ Asked /\ [Next]_vars => Asked'
<1> SUFFICES ASSUME TypeOK, Asked, [Next]_vars PROVE Asked'
  OBVIOUS
<1> USE DEF TypeOK, Asked, At
<1>1. CASE \E p \in Paths : Request(p)
  BY <1>1, PollAssumption DEF Request
<1>2. CASE Sent \/ Poll \/ Receive
  BY <1>2 DEF Sent, Poll, Receive
<1>3. CASE ReceiveEmpty
  BY <1>3 DEF ReceiveEmpty, Raise
<1>5. CASE SendFails \/ ReceiveFails
  BY <1>5 DEF SendFails, ReceiveFails, Raise
<1>6. CASE DeviceStep
  <2>1. UNCHANGED client
    BY <1>6 DEF DeviceStep, Handle, HandleEnd, Handler, Enqueue, EnqueueFails, FlushBegin, FlushTake, FlushEnd
  <2> QED BY <2>1
<1>7. CASE Drop
  BY <1>7 DEF Drop, LinkLost, Raise
<1>8. CASE QueueReset \/ Connect \/ UNCHANGED vars
  BY <1>8 DEF QueueReset, Connect, vars
<1> QED BY <1>1, <1>2, <1>3, <1>5, <1>6, <1>7, <1>8 DEF Next, ClientStep

\* The jobs of the work queue.
LEMMA JobTypes ==
  ASSUME TypeOK, Asked, Next
  PROVE  jobs' \in Seq(Jobs)
<1>0. jobs \in Seq(Jobs) /\ conn \in Nat
  BY DEF TypeOK
<1>1. CASE Sent \/ SendFails
  <2>1. Entry(client.id, client.path) \in Jobs
    BY <1>0, <1>1 DEF Sent, SendFails, Asked, Entry, Jobs
  <2>2. Append(jobs, Entry(client.id, client.path)) \in Seq(Jobs)
    BY <1>0, <2>1, Appends
  <2> QED BY <1>0, <1>1, <2>2 DEF Sent, SendFails
<1>2. CASE Poll
  <2>1. Flush(client.id) \in Jobs
    BY <1>0, <1>2 DEF Poll, Asked, Flush, Jobs
  <2> QED BY <1>0, <1>2, <2>1, Appends DEF Poll
<1>3. CASE Handle \/ HandleEnd \/ FlushBegin
  <2>1. jobs # <<>> /\ jobs' = Tail(jobs)
    BY <1>3 DEF Handle, HandleEnd, Handler, FlushBegin, NextJob
  <2> QED BY <1>0, <2>1, Tails
<1>4. CASE Drop
  <2>1. <<>> \in Seq(Jobs) /\ jobs' \in {<<>>, jobs}
    BY <1>4 DEF Drop, LinkLost
  <2> QED BY <1>0, <2>1
<1>5. CASE UNCHANGED jobs
  BY <1>0, <1>5
<1> QED BY <1>1, <1>2, <1>3, <1>4, <1>5
        DEF Next, ClientStep, DeviceStep, Request, ReceiveEmpty, Receive, ReceiveFails, Enqueue,
            EnqueueFails, FlushTake, FlushEnd, QueueReset, Connect, device

\* The responses, wherever they are.
LEMMA ResponseTypes ==
  ASSUME TypeOK, Next
  PROVE  /\ hand' \in Rsps \cup {None} /\ fifo' \in Seq(Rsps)
         /\ ready' \in {0, 1} /\ running' \in {"no", "yes"}
         /\ out' \in Pouches \cup {None} /\ air' \in Pouches \cup {None}
<1>0. /\ hand \in Rsps \cup {None} /\ fifo \in Seq(Rsps) /\ jobs \in Seq(Jobs)
      /\ ready \in {0, 1} /\ running \in {"no", "yes"}
      /\ out \in Pouches \cup {None} /\ air \in Pouches \cup {None}
      /\ <<>> \in Seq(Rsps)
  BY DEF TypeOK
<1>1. CASE Handle \/ HandleEnd
  <2>1. Head(jobs) \in Jobs /\ Head(jobs).kind = "entry"
    BY <1>0, <1>1, Tails DEF Handle, HandleEnd, Handler, NextJob
  <2>2. Rsp(Head(jobs)) \in Rsps
    BY <2>1 DEF Jobs, Rsp, Rsps
  <2>3. hand' \in Rsps \cup {None} /\ running' \in {running, "no"} /\ UNCHANGED <<out, air>>
    BY <1>1, <2>2 DEF Handle, HandleEnd, Handler
  <2>4. fifo' \in {fifo, <<>>} /\ ready' \in {ready, 0}
    BY <1>1 DEF Handle, HandleEnd, RpcReset
  <2> QED BY <1>0, <2>3, <2>4
<1>2. CASE Enqueue \/ EnqueueFails
  <2>1. hand \in Rsps
    BY <1>0, <1>2 DEF Enqueue, EnqueueFails
  <2>2. Append(fifo, hand) \in Seq(Rsps)
    BY <1>0, <2>1, Appends
  <2> QED BY <1>0, <1>2, <2>2 DEF Enqueue, EnqueueFails
<1>3. CASE FlushBegin
  <2>1. Head(jobs) \in Jobs
    BY <1>0, <1>3, Tails DEF FlushBegin, NextJob
  <2>2. Head(jobs).id \in 1..MaxReqs
    BY <2>1 DEF Jobs
  <2>3. \A how \in {"drained", "time limit", "at once"} :
           [id |-> Head(jobs).id, rsps |-> <<>>, how |-> how] \in Pouches
    BY <1>0, <2>2 DEF Pouches
  <2>4. \E how \in {"drained", "time limit", "at once"} : FlushFill(how)
    BY <1>3 DEF FlushBegin
  <2>5. out' \in Pouches
    BY <2>3, <2>4 DEF FlushFill
  <2> QED BY <1>0, <1>3, <2>5 DEF FlushBegin
<1>4. CASE FlushTake
  <2>1. Head(fifo) \in Rsps /\ Tail(fifo) \in Seq(Rsps) /\ out \in Pouches
    BY <1>0, <1>4, Tails DEF FlushTake
  <2>2. Append(out.rsps, Head(fifo)) \in Seq(Rsps)
    BY <2>1, Appends DEF Pouches
  <2>3. [out EXCEPT !.rsps = Append(@, Head(fifo))] \in Pouches
    BY <2>1, <2>2 DEF Pouches
  <2> QED BY <1>0, <1>4, <2>1, <2>3 DEF FlushTake
<1>5. CASE FlushEnd
  BY <1>0, <1>5 DEF FlushEnd
<1>6. CASE Drop \/ QueueReset
  BY <1>0, <1>6 DEF Drop, LinkLost, QueueReset, RpcReset
<1>7. CASE ReceiveEmpty \/ Receive \/ ReceiveFails
  BY <1>0, <1>7 DEF ReceiveEmpty, Receive, ReceiveFails, device
<1>8. CASE UNCHANGED <<hand, fifo, ready, running, out, air>>
  BY <1>0, <1>8
<1> QED BY <1>1, <1>2, <1>3, <1>4, <1>5, <1>6, <1>7, <1>8
        DEF Next, ClientStep, DeviceStep, Request, Sent, Poll, SendFails, Connect, device

\* Types hold in every reachable state, for any paths and limits.
THEOREM TypeCorrect == Spec => [](TypeOK /\ Asked)
<1>1. Init => Asked
  BY DEF Init, Asked
<1>2. TypeOK /\ Asked /\ [Next]_vars => TypeOK'
  <2> SUFFICES ASSUME TypeOK, Asked, [Next]_vars PROVE TypeOK'
    OBVIOUS
  <2>1. CASE Next
    BY <2>1, ClientTypes, JobTypes, ResponseTypes DEF TypeOK
  <2>2. CASE UNCHANGED vars
    BY <2>2 DEF vars, device, TypeOK
  <2> QED BY <2>1, <2>2
<1> QED BY <1>1, <1>2, TypeInit, AskedStep, PTL DEF Spec

-----------------------------------------------------------------------------
\* Jobs and responses of the request under way.
Mine(x) == x.id = client.id /\ x.path = client.path
OwnEntry(j) == j.kind = "entry" /\ Mine(j)
OwnFlush(j) == j.kind = "flush" /\ j.id = client.id

\* The answer alone, or nothing when there is no endpoint to give one.
Alone(s) == Len(s) = 1 /\ Mine(s[1])
AloneOrNone(s) == Alone(s) \/ (s = <<>> /\ client.path \notin Served)

\* Its handler has run: the answer is on its way into the queue or in it.
Answering ==
  \/ hand # None /\ Mine(hand) /\ fifo = <<>>
  \/ hand = None /\ AloneOrNone(fifo)

\* Where the one answer is, by where the client is.
Before ==
  /\ client.pc \in {"idle", "sending"}
  /\ jobs = <<>> /\ hand = None /\ fifo = <<>> /\ out = None /\ air = None
Asking ==
  /\ client.pc = "polling" /\ out = None /\ air = None
  /\ \/ Len(jobs) = 1 /\ OwnEntry(jobs[1]) /\ hand = None /\ fifo = <<>>
     \/ jobs = <<>> /\ Answering
Polled ==
  /\ client.pc = "receiving" /\ out = None /\ air = None
  /\ \/ Len(jobs) = 2 /\ OwnEntry(jobs[1]) /\ OwnFlush(jobs[2]) /\ hand = None /\ fifo = <<>>
     \/ Len(jobs) = 1 /\ OwnFlush(jobs[1]) /\ Answering
Filling ==
  /\ client.pc = "receiving" /\ jobs = <<>> /\ hand = None /\ air = None
  /\ out # None /\ out.id = client.id
  /\ \/ out.rsps = <<>> /\ AloneOrNone(fifo)
     \/ Alone(out.rsps) /\ fifo = <<>>
Arrived ==
  /\ client.pc = "receiving" /\ jobs = <<>> /\ hand = None /\ fifo = <<>> /\ out = None
  /\ air # None /\ AloneOrNone(air.rsps)

Phase == Before \/ Asking \/ Polled \/ Filling \/ Arrived

\* The inductive invariant: while nothing has failed on the link, the answer is
\* in one place, every earlier one was right and this one came with the first
\* poll.
CleanInv ==
  past = "clean" => Phase /\ FirstPollAnswers /\ AnswerMatches

\* The ends of short sequences.
LEMMA ShortAppend ==
  ASSUME NEW S, NEW s \in Seq(S), NEW x \in S
  PROVE  /\ s = <<>> => Len(Append(s, x)) = 1 /\ Append(s, x)[1] = x
         /\ Len(s) = 1 => /\ Len(Append(s, x)) = 2
                          /\ Append(s, x)[1] = s[1] /\ Append(s, x)[2] = x
<1> DEFINE t == Append(s, x)
           n == Len(s)
<1>1. n \in Nat /\ Len(t) = n + 1 /\ t[n + 1] = x /\ \A i \in 1..n : t[i] = s[i]
  BY AppendProperties, LenProperties
<1>2. s = <<>> => n = 0
  BY EmptySeq
<1> HIDE DEF t, n
<1>3. n = 0 => Len(t) = 1 /\ t[1] = x
  BY <1>1
<1>4. n = 1 => Len(t) = 2 /\ t[1] = s[1] /\ t[2] = x
  BY <1>1
<1> QED BY <1>2, <1>3, <1>4 DEF t, n

\* The rest of them.
LEMMA ShortTail ==
  ASSUME NEW S, NEW s \in Seq(S)
  PROVE  /\ s # <<>> => Head(s) = s[1]
         /\ Len(s) = 1 => Tail(s) = <<>> /\ s # <<>>
         /\ Len(s) = 2 => Len(Tail(s)) = 1 /\ Tail(s)[1] = s[2] /\ s # <<>>
<1> DEFINE t == Tail(s)
           n == Len(s)
<1>1. s # <<>> => Head(s) = s[1]
  OBVIOUS
<1>2. n # 0 => s # <<>>
  BY EmptySeq
<1>3. s # <<>> => t \in Seq(S) /\ Len(t) = n - 1 /\ \A i \in 1..Len(t) : t[i] = s[i + 1]
  BY HeadTailProperties
<1>4. t \in Seq(S) /\ Len(t) = 0 => t = <<>>
  BY EmptySeq
<1> HIDE DEF t, n
<1>5. n = 1 => t = <<>> /\ s # <<>>
  BY <1>2, <1>3, <1>4
<1>6. ASSUME n = 2 PROVE Len(t) = 1 /\ t[1] = s[2] /\ s # <<>>
  <2>1. s # <<>> /\ Len(t) = 1
    BY <1>2, <1>3, <1>6
  <2>2. 1 \in 1..Len(t) /\ 1 + 1 = 2
    BY <2>1
  <2>3. t[1] = s[1 + 1]
    BY <1>3, <2>1, <2>2
  <2> QED BY <2>1, <2>2, <2>3
<1> QED BY <1>1, <1>5, <1>6 DEF t, n

\* The client's bookkeeping keeps its request.
LEMMA SameRequest ==
  ASSUME TypeOK, NEW pc, client' = At(pc)
  PROVE  client'.id = client.id /\ client'.path = client.path /\ client'.polls = client.polls
         /\ client'.pc = pc
  BY DEF TypeOK, At

\* A response alone in a pouch is the one taken.
LEMMA FirstOfAlone ==
  ASSUME NEW rsps \in Seq(Rsps), Len(rsps) = 1, rsps[1].path = client.path
  PROVE  FirstOf(rsps, client.path) = rsps[1].id
<1> DEFINE own == {i \in DOMAIN rsps : rsps[i].path = client.path}
<1>1. own = {1}
  OBVIOUS
<1>2. (CHOOSE i \in own : \A j \in own : i <= j) = 1
  BY <1>1
<1> QED BY <1>1, <1>2 DEF FirstOf

\* An empty pouch.
LEMMA NoRsps == <<>> \in Seq(Rsps)
  BY EmptySeq

\* The client's steps.
LEMMA ClientKeeps ==
  ASSUME TypeOK, Asked, CleanInv, past' = "clean",
         (\E p \in Paths : Request(p)) \/ ClientStep
  PROVE  Phase' /\ FirstPollAnswers' /\ AnswerMatches'
<1>0. past = "clean"
  BY DEF ClientStep, Request, Sent, Poll, ReceiveEmpty, Receive, TypeOK
<1>1. ASSUME NEW p \in Paths, Request(p) PROVE Phase' /\ FirstPollAnswers' /\ AnswerMatches'
  <2>1. Before
    BY <1>0, <1>1 DEF CleanInv, Request, Phase, Before, Asking, Polled, Filling, Arrived
  <2> QED BY <1>0, <1>1, <2>1
          DEF Request, Before, Phase, CleanInv, FirstPollAnswers, AnswerMatches, device
<1>2. CASE Sent
  <2>1. Before
    BY <1>0, <1>2 DEF CleanInv, Sent, Phase, Before, Asking, Polled, Filling, Arrived
  <2>2. Len(jobs') = 1 /\ jobs'[1] = Entry(client.id, client.path)
    <3>1. Entry(client.id, client.path) \in Jobs
      BY <1>2 DEF Sent, Asked, TypeOK, Entry, Jobs
    <3> QED BY <1>2, <2>1, <3>1, ShortAppend DEF Sent, Before, TypeOK
  <2>3. OwnEntry(jobs[1])'
    BY <1>2, <2>2, SameRequest DEF OwnEntry, Mine, Entry, Sent
  <2>4. Asking'
    BY <1>2, <2>1, <2>2, <2>3, SameRequest DEF Asking, Before, Sent
  <2> QED BY <1>0, <1>2, <2>4, SameRequest DEF Phase, Sent, CleanInv, FirstPollAnswers, AnswerMatches
<1>3. CASE Poll
  <2>1. Asking
    BY <1>0, <1>3 DEF CleanInv, Poll, Phase, Before, Asking, Polled, Filling, Arrived
  <2>2. Flush(client.id) \in Jobs
    BY <1>3 DEF Poll, Asked, TypeOK, Flush, Jobs
  <2>3. OwnFlush(Flush(client.id))' /\ client'.id = client.id /\ client'.path = client.path
        /\ client'.pc = "receiving"
    BY <1>3, SameRequest DEF OwnFlush, Flush, Poll
  <2>4. /\ jobs = <<>> => Len(jobs') = 1 /\ jobs'[1] = Flush(client.id)
        /\ Len(jobs) = 1 => Len(jobs') = 2 /\ jobs'[1] = jobs[1] /\ jobs'[2] = Flush(client.id)
    BY <1>3, <2>2, ShortAppend DEF Poll, TypeOK
  <2>5. Polled'
    BY <1>3, <2>1, <2>3, <2>4
    DEF Polled, Asking, Poll, Answering, AloneOrNone, Alone, Mine, OwnEntry, OwnFlush, Flush
  <2> QED BY <1>0, <1>3, <2>5, SameRequest DEF Phase, Poll, CleanInv, FirstPollAnswers, AnswerMatches
<1>4. CASE ReceiveEmpty
  <2>1. Arrived /\ air.rsps = <<>>
    BY <1>0, <1>4 DEF CleanInv, ReceiveEmpty, Phase, Before, Asking, Polled, Filling, Arrived
  <2>2. client.path \notin Served
    BY <2>1 DEF Arrived, AloneOrNone, Alone
  <2>3. client' = [client EXCEPT !.pc = "polling", !.polls = @ + 1] /\ UNCHANGED <<last, past, link, device>>
        /\ air' = None
    BY <1>4 DEF ReceiveEmpty
  <2>4. client'.pc = "polling" /\ client'.path = client.path
    BY <2>3 DEF TypeOK
  <2>5. Asking'
    BY <2>1, <2>2, <2>3, <2>4 DEF Asking, Arrived, Answering, AloneOrNone, device
  <2> QED BY <1>0, <2>2, <2>3, <2>4, <2>5 DEF Phase, CleanInv, FirstPollAnswers, AnswerMatches
<1>5. CASE Receive
  <2>1. Arrived /\ air.rsps # <<>>
    BY <1>0, <1>5 DEF CleanInv, Receive, Phase, Before, Asking, Polled, Filling, Arrived
  <2>2. Alone(air.rsps) /\ air.rsps \in Seq(Rsps)
    BY <2>1 DEF Arrived, AloneOrNone, TypeOK, Pouches
  <2>3. last'.got = client.id /\ last'.id = client.id
    BY <1>5, <2>2, FirstOfAlone DEF Receive, Alone, Mine
  <2>4. Before' /\ client'.pc = "idle"
    BY <1>5, <2>1, SameRequest DEF Receive, Before, Arrived, device
  <2> QED BY <2>3, <2>4 DEF Phase, FirstPollAnswers, AnswerMatches
<1> QED BY <1>1, <1>2, <1>3, <1>4, <1>5 DEF ClientStep

\* The device's steps.
LEMMA DeviceKeeps ==
  ASSUME TypeOK, Asked, CleanInv, past' = "clean", DeviceStep
  PROVE  Phase'
<1>0. past = "clean" /\ Phase /\ UNCHANGED client
  BY DEF DeviceStep, Handle, HandleEnd, Handler, Enqueue, EnqueueFails, FlushBegin, FlushTake, FlushEnd,
         TypeOK, CleanInv
<1>1. CASE Handle \/ HandleEnd
  <2>1. /\ jobs # <<>> /\ hand = None /\ out = None /\ Head(jobs).kind = "entry" /\ jobs' = Tail(jobs)
        /\ UNCHANGED <<out, air>>
    BY <1>1 DEF Handle, HandleEnd, Handler, NextJob
  <2>2. Head(jobs) = jobs[1] /\ Head(jobs) \in Jobs
    BY <2>1, Tails, ShortTail DEF TypeOK
  <2>3. \/ Asking /\ Len(jobs) = 1 /\ OwnEntry(jobs[1]) /\ fifo = <<>>
        \/ Polled /\ Len(jobs) = 2 /\ OwnEntry(jobs[1]) /\ OwnFlush(jobs[2]) /\ fifo = <<>>
    BY <1>0, <2>1, <2>2 DEF Phase, Before, Asking, Polled, Filling, Arrived, OwnFlush
  <2>4. fifo' = <<>>
    BY <1>1, <2>3 DEF Handle, HandleEnd, RpcReset
  <2>5. (hand' # None /\ Mine(hand)') \/ (hand' = None /\ client.path \notin Served)
    <3>1. Rsp(Head(jobs)) \in Rsps /\ Rsp(Head(jobs)).id = client.id /\ Rsp(Head(jobs)).path = client.path
          /\ Head(jobs).path = client.path
      BY <2>1, <2>2, <2>3 DEF Jobs, Rsp, Rsps, OwnEntry, Mine
    <3> QED BY <1>0, <1>1, <3>1, NoneAssumption DEF Handle, HandleEnd, Mine
  <2>6. Answering'
    BY <1>0, <2>4, <2>5 DEF Answering, AloneOrNone
  <2>7. /\ Len(jobs) = 1 => jobs' = <<>>
        /\ Len(jobs) = 2 => Len(jobs') = 1 /\ jobs'[1] = jobs[2]
    BY <2>1, <2>2, ShortTail DEF TypeOK
  <2> QED BY <1>0, <2>1, <2>3, <2>6, <2>7 DEF Phase, Asking, Polled, OwnFlush
<1>2. CASE Enqueue
  <2>1. hand # None /\ hand \in Rsps /\ fifo = <<>> /\ Mine(hand) /\ (Asking \/ Polled) /\ Answering
    BY <1>0, <1>2 DEF Enqueue, Phase, Before, Asking, Polled, Filling, Arrived, Answering, TypeOK
  <2>2. Len(fifo') = 1 /\ fifo'[1] = hand
    BY <1>2, <2>1, ShortAppend DEF Enqueue, TypeOK
  <2>3. Answering'
    BY <1>0, <1>2, <2>1, <2>2 DEF Enqueue, Answering, AloneOrNone, Alone, Mine
  <2> QED BY <1>0, <1>2, <2>1, <2>3 DEF Enqueue, Phase, Asking, Polled, OwnFlush
<1>3. CASE EnqueueFails
  BY <1>3 DEF EnqueueFails
<1>4. CASE FlushBegin
  <2>1. /\ jobs # <<>> /\ hand = None /\ out = None /\ Head(jobs).kind = "flush" /\ jobs' = Tail(jobs)
        /\ UNCHANGED <<hand, fifo, air>>
    BY <1>4 DEF FlushBegin, NextJob
  <2>2. Head(jobs) = jobs[1] /\ Head(jobs) \in Jobs
    BY <2>1, Tails, ShortTail DEF TypeOK
  <2>3. Polled /\ Len(jobs) = 1 /\ OwnFlush(jobs[1]) /\ AloneOrNone(fifo)
    BY <1>0, <2>1, <2>2 DEF Phase, Before, Asking, Polled, Filling, Arrived, OwnEntry, Answering
  <2>4. jobs' = <<>>
    BY <2>1, <2>2, <2>3, ShortTail DEF TypeOK
  <2>5. out' # None /\ out'.id = client.id /\ out'.rsps = <<>>
    <3>2. PICK how \in {"drained", "time limit", "at once"} :
             out' = [id |-> client.id, rsps |-> <<>>, how |-> how]
      <4>1. \E how \in {"drained", "time limit", "at once"} : FlushFill(how)
        BY <1>4 DEF FlushBegin
      <4> QED BY <2>2, <2>3, <4>1 DEF FlushFill, OwnFlush
    <3>3. out' \in Pouches
      <4>1. client.id \in 1..MaxReqs
        BY <2>3 DEF Asked, Polled
      <4>2. <<>> \in Seq(Rsps)
        BY NoRsps
      <4> QED BY <3>2, <4>1, <4>2 DEF Pouches
    <3>4. out'.id = client.id /\ out'.rsps = <<>>
      BY <3>2
    <3> QED BY <3>3, <3>4, NoneAssumption
  <2>6. Filling'
    BY <1>0, <2>1, <2>3, <2>4, <2>5 DEF Polled, Filling, AloneOrNone, Alone, Mine
  <2> QED BY <2>6 DEF Phase
<1>5. CASE FlushTake
  <2>1. Filling /\ out.rsps = <<>> /\ Alone(fifo) /\ out \in Pouches
    BY <1>0, <1>5 DEF FlushTake, Phase, Before, Asking, Polled, Filling, Arrived, AloneOrNone, TypeOK
  <2>2. fifo # <<>> /\ Head(fifo) \in Rsps /\ Head(fifo) = fifo[1] /\ fifo' = <<>>
    BY <1>5, <2>1, Tails, ShortTail DEF FlushTake, TypeOK, Alone
  <2>3. /\ out' = [out EXCEPT !.rsps = Append(out.rsps, Head(fifo))]
        /\ UNCHANGED <<client, jobs, hand, air>>
    BY <1>0, <1>5 DEF FlushTake
  <2>4. out'.id = out.id /\ out'.rsps = Append(out.rsps, Head(fifo)) /\ out' \in Pouches
    <3>1. Append(out.rsps, Head(fifo)) \in Seq(Rsps)
      BY <2>1, <2>2, Appends DEF Pouches
    <3> QED BY <2>1, <2>3, <3>1 DEF Pouches
  <2>5. Len(out'.rsps) = 1 /\ out'.rsps[1] = fifo[1]
    <3>1. out.rsps \in Seq(Rsps)
      BY <2>1 DEF Pouches
    <3>2. Len(Append(out.rsps, Head(fifo))) = 1 /\ Append(out.rsps, Head(fifo))[1] = Head(fifo)
      BY <2>1, <2>2, <3>1, ShortAppend
    <3> QED BY <2>2, <2>4, <3>2
  <2>6. Filling'
    BY <2>1, <2>2, <2>3, <2>4, <2>5, NoneAssumption DEF Filling, Alone, Mine
  <2> QED BY <2>6 DEF Phase
<1>6. CASE FlushEnd
  <2>1. Filling
    BY <1>0, <1>6 DEF FlushEnd, Phase, Before, Asking, Polled, Filling, Arrived
  <2>2. AloneOrNone(out.rsps)
    BY <1>6, <2>1 DEF FlushEnd, Filling, AloneOrNone, Alone
  <2>3. Arrived'
    BY <1>6, <2>1, <2>2 DEF FlushEnd, Filling, Arrived, AloneOrNone, Alone, Mine
  <2> QED BY <2>3 DEF Phase
<1> QED BY <1>1, <1>2, <1>3, <1>4, <1>5, <1>6 DEF DeviceStep

\* Every step keeps the answer in one place.
LEMMA CleanStep == TypeOK /\ Asked /\ CleanInv /\ [Next]_vars => CleanInv'
<1> SUFFICES ASSUME TypeOK, Asked, CleanInv, [Next]_vars, past' = "clean"
             PROVE  Phase' /\ FirstPollAnswers' /\ AnswerMatches'
  BY DEF CleanInv
<1>1. CASE (\E p \in Paths : Request(p)) \/ ClientStep
  BY <1>1, ClientKeeps
<1>2. CASE DeviceStep
  <2>1. UNCHANGED <<client, last, link>> /\ past = "clean"
    BY <1>2 DEF DeviceStep, Handle, HandleEnd, Handler, Enqueue, EnqueueFails, FlushBegin, FlushTake,
                FlushEnd, TypeOK
  <2> QED BY <1>2, <2>1, DeviceKeeps DEF CleanInv, FirstPollAnswers, AnswerMatches
<1>3. CASE SendFails \/ ReceiveFails
  BY <1>3 DEF SendFails, ReceiveFails
<1>4. CASE Drop
  <2>1. jobs' = <<>> /\ hand' = None /\ out' = None /\ air' = None /\ fifo' = <<>> /\ link' = "down"
    BY <1>4 DEF Drop, LinkLost, RpcReset
  <2>2. client'.pc = "idle"
    BY <1>4, SameRequest DEF Drop, LinkLost, Raise
  <2> QED BY <2>1, <2>2 DEF Phase, Before, FirstPollAnswers, AnswerMatches
<1>5. CASE QueueReset
  <2>1. fifo = <<>> /\ fifo' = <<>> /\ past = "clean" /\ UNCHANGED <<link, client, last, jobs, hand, out, air>>
    BY <1>5 DEF QueueReset, RpcReset, TypeOK
  <2> QED BY <2>1 DEF CleanInv, Phase, Before, Asking, Polled, Filling, Arrived, Answering, AloneOrNone,
                      Alone, Mine, OwnEntry, OwnFlush, FirstPollAnswers, AnswerMatches
<1>6. CASE Connect \/ UNCHANGED vars
  <2>1. past = "clean" /\ UNCHANGED <<client, jobs, hand, fifo, out, air>>
    BY <1>6 DEF Connect, vars, device
  <2>2. Phase' /\ FirstPollAnswers'
    BY <2>1 DEF CleanInv, Phase, Before, Asking, Polled, Filling, Arrived, Answering, AloneOrNone,
                Alone, Mine, OwnEntry, OwnFlush, FirstPollAnswers
  <2>3. AnswerMatches'
    BY <1>6, <2>1 DEF Connect, vars, CleanInv, AnswerMatches
  <2> QED BY <2>2, <2>3
<1> QED BY <1>1, <1>2, <1>3, <1>4, <1>5, <1>6 DEF Next

\* The invariant holds in every reachable state.
LEMMA Clean == Spec => []CleanInv
<1>1. Init => CleanInv
  BY DEF Init, CleanInv, Phase, Before, FirstPollAnswers, AnswerMatches
<1> QED BY <1>1, CleanStep, TypeCorrect, PTL DEF Spec

\* Responses carry no request number, yet unless something failed on the link a
\* request gets its own answer (session.py:85), for any paths and any number of
\* requests and links.
THEOREM AnswersCorrect == Spec => []AnswerMatches
<1>1. TypeOK /\ CleanInv => AnswerMatches
  BY DEF CleanInv, AnswerMatches
<1> QED BY <1>1, Clean, TypeCorrect, PTL

\* ... and gets it with the first poll, the end request included (rpc.c:8,
\* ctrl.c:69).
THEOREM FirstPollCorrect == Spec => []FirstPollAnswers
<1>1. CleanInv => FirstPollAnswers
  BY DEF CleanInv, FirstPollAnswers
<1> QED BY <1>1, Clean, PTL
=============================================================================
