--------------------------- MODULE WifiScanProofs ---------------------------
(***************************************************************************)
(* Proofs about WifiScan, for any number of access points, any size of the *)
(* cache and of a page, and any number of scans.                           *)
(***************************************************************************)
EXTENDS WifiScan, TLAPS

Found == [kind : {"result"}, scan : 1..MaxScans, ap : 1..Aps]
Ended == [kind : {"done"}, scan : 1..MaxScans, ap : {0}]
Event == Found \union Ended

\* A result names an access point: what on_result caches is an entry.
IInv == TypeOK /\ events \in Seq(Event)

\* What a run of the driver queues.
Run(s, n) ==
  [i \in 1..n |-> [kind |-> "result", scan |-> s, ap |-> i]] \o <<[kind |-> "done", scan |-> s, ap |-> 0]>>

\* A sequence over a set is one over every larger set.
LEMMA SeqSubset ==
  ASSUME NEW A, NEW B, A \subseteq B, NEW q \in Seq(A)
  PROVE  q \in Seq(B)
  OBVIOUS

\* A function on 1..n is a sequence of length n.
LEMMA FunctionIsSeq ==
  ASSUME NEW A, NEW n \in Nat, NEW f \in [1..n -> A]
  PROVE  f \in Seq(A) /\ Len(f) = n
  OBVIOUS

\* A sequence of length 0 is the empty one.
LEMMA EmptySeq ==
  ASSUME NEW A, NEW q \in Seq(A), Len(q) = 0
  PROVE  q = <<>>
  OBVIOUS

\* Sequences of the same length and the same elements are the same.
LEMMA SeqEqual ==
  ASSUME NEW A, NEW p \in Seq(A), NEW q \in Seq(A), Len(p) = Len(q),
         \A i \in 1..Len(p) : p[i] = q[i]
  PROVE  p = q
  OBVIOUS

\* The events of a run are events.
LEMMA RunType ==
  ASSUME NEW s \in 1..MaxScans, NEW n \in 0..Aps
  PROVE  Run(s, n) \in Seq(Event)
<1>1. [i \in 1..n |-> [kind |-> "result", scan |-> s, ap |-> i]] \in Seq(Event)
  <2>1. \A i \in 1..n : [kind |-> "result", scan |-> s, ap |-> i] \in Event
    BY ScanAssumption DEF Event, Found
  <2> QED BY <2>1
<1>2. <<[kind |-> "done", scan |-> s, ap |-> 0]>> \in Seq(Event)
  BY DEF Event, Ended
<1> QED BY <1>1, <1>2 DEF Run

\* The driver's events come behind the ones on their way.
LEMMA RunAppended ==
  ASSUME IInv, NEW n \in 0..Aps, DriverRun(n)
  PROVE  events' = events \o Run(driver, n) /\ driver \in 1..MaxScans
<1>1. driver \in 1..MaxScans
  BY ScanAssumption DEF IInv, TypeOK, DriverRun
<1>2. /\ events \in Seq(Event)
      /\ [i \in 1..n |-> [kind |-> "result", scan |-> driver, ap |-> i]] \in Seq(Event)
      /\ <<[kind |-> "done", scan |-> driver, ap |-> 0]>> \in Seq(Event)
  <2>1. \A i \in 1..n : [kind |-> "result", scan |-> driver, ap |-> i] \in Event
    BY <1>1, ScanAssumption DEF Event, Found
  <2>2. [kind |-> "done", scan |-> driver, ap |-> 0] \in Event
    BY <1>1 DEF Event, Ended
  <2> QED BY <2>1, <2>2 DEF IInv
<1>3. \A a, b, c \in Seq(Event) : (a \o b) \o c = a \o (b \o c)
  OBVIOUS
<1> QED BY <1>1, <1>2, <1>3 DEF DriverRun, Run

\* A page is a sequence of entries.
LEMMA PageType ==
  ASSUME TypeOK, NEW start \in Nat
  PROVE  Page(start) \in Seq(Entry)
<1> DEFINE end == IF start + PageMax < Len(entries) THEN start + PageMax ELSE Len(entries)
<1>1. end \in Nat /\ end <= Len(entries) /\ entries \in Seq(Entry)
  BY ScanAssumption DEF TypeOK
<1> HIDE DEF end
<1>2. SubSeq(entries, start + 1, end) \in Seq(Entry)
  BY <1>1
<1> QED BY <1>2 DEF Page, end

\* The first state is well-typed.
LEMMA InitTypes == Init => IInv
<1> SUFFICES ASSUME Init PROVE IInv
  OBVIOUS
<1>1. <<>> \in Seq(Entry) /\ Len(<<>>) = 0 /\ <<>> \in Seq(Event)
      /\ <<>> \in Seq([kind : {"result", "done"}, scan : 1..MaxScans, ap : 0..Aps])
  OBVIOUS
<1>2. 0 \in 0..MaxScans /\ 0 \in 0..ScanMax /\ 0 \in 0..Aps /\ 0 <= ScanMax
  BY ScanAssumption
<1> QED BY <1>1, <1>2 DEF Init, IInv, TypeOK

\* Every step keeps the types and the size of the cache.
LEMMA TypeStep == IInv /\ [Next]_vars => IInv'
<1> SUFFICES ASSUME IInv, [Next]_vars PROVE IInv'
  OBVIOUS
<1> USE ScanAssumption DEF IInv
<1>1. CASE Start \/ StartFails \/ StartWithoutInterface
  <2>1. <<>> \in Seq(Entry) /\ Len(<<>>) = 0
    OBVIOUS
  <2>2. scans + 1 \in 0..MaxScans /\ 0 \in 0..ScanMax /\ 0 <= ScanMax
    BY <1>1 DEF Start, StartFails, StartWithoutInterface, StartRequest, TypeOK
  <2>3. /\ entries' \in {<<>>, entries} /\ results' = <<>> /\ total' = 0
        /\ scans' \in {scans, scans + 1}
        /\ UNCHANGED <<events, found>>
        /\ driver' = scans + 1 \/ driver' = driver
        /\ finished' \in {TRUE, FALSE, finished} /\ client' \in {"poll", "refused"}
    BY <1>1 DEF Start, StartFails, StartWithoutInterface, StartRequest
  <2> QED BY <2>1, <2>2, <2>3 DEF TypeOK
<1>2. CASE GiveUp \/ Status \/ PageUnfit \/ ReadAll
  BY <1>2 DEF GiveUp, Status, PageUnfit, ReadAll, TypeOK
<1>3. CASE ReadPage
  <2>1. Page(Len(results)) \in Seq(Entry)
    BY PageType DEF TypeOK
  <2>2. results \o Page(Len(results)) \in Seq(Entry)
    BY <2>1 DEF TypeOK
  <2> QED BY <1>3, <2>2 DEF ReadPage, TypeOK
<1>4. ASSUME NEW n \in 0..Aps, DriverRun(n) PROVE IInv'
  <2>1. events' \in Seq(Event)
    <3>1. Run(driver, n) \in Seq(Event) /\ events' = events \o Run(driver, n)
      BY <1>4, RunAppended, RunType
    <3> QED BY <3>1
  <2>2. Event \subseteq [kind : {"result", "done"}, scan : 1..MaxScans, ap : 0..Aps]
    BY DEF Event, Found, Ended
  <2>3. events' \in Seq([kind : {"result", "done"}, scan : 1..MaxScans, ap : 0..Aps])
    BY <2>1, <2>2, SeqSubset
  <2> QED BY <1>4, <2>1, <2>3 DEF DriverRun, TypeOK
<1>5. CASE OnResult
  <2>1. Head(events) \in Event /\ Tail(events) \in Seq(Event) /\ Head(events).kind = "result"
    BY <1>5 DEF OnResult, NextEvent
  <2>2. [scan |-> Head(events).scan, ap |-> Head(events).ap] \in Entry
    BY <2>1 DEF Event, Found, Ended, Entry
  <2>3. entries' \in Seq(Entry) /\ Len(entries') <= ScanMax
    BY <1>5, <2>2 DEF OnResult, Room, TypeOK
  <2>4. Tail(events) \in Seq([kind : {"result", "done"}, scan : 1..MaxScans, ap : 0..Aps])
    BY <1>5 DEF OnResult, NextEvent, TypeOK
  <2> QED BY <1>5, <2>1, <2>3, <2>4 DEF OnResult, NextEvent, TypeOK
<1>6. CASE OnDone
  BY <1>6 DEF OnDone, NextEvent, TypeOK
<1>7. CASE UNCHANGED vars
  BY <1>7 DEF vars, TypeOK
<1> QED BY <1>1, <1>2, <1>3, <1>4, <1>5, <1>6, <1>7 DEF Next, Client, Device

\* The types hold in every reachable state, overlapping scans included: the
\* cache never outgrows SCAN_MAX, however many results the driver reports
\* (wifi_scan.c:51-53).
THEOREM TypeCorrect == Spec => []TypeOK
<1>1. Spec => []IInv
  BY InitTypes, TypeStep, PTL DEF Spec
<1>2. IInv => TypeOK
  BY DEF IInv
<1> QED BY <1>1, <1>2, PTL

-----------------------------------------------------------------------------
\* The first j access points of scan s, as far as the cache goes.
Cut(s, j) == [i \in 1..(IF j < ScanMax THEN j ELSE ScanMax) |-> [scan |-> s, ap |-> i]]

\* The events of a run over n access points when j results have arrived.
Rest(s, n, j) ==
  [i \in 1..(n - j + 1) |->
     IF i <= n - j THEN [kind |-> "result", scan |-> s, ap |-> j + i]
     ELSE [kind |-> "done", scan |-> s, ap |-> 0]]

\* Scans that do not overlap: the driver is queued for the last scan before
\* anything of it has arrived; while its events arrive the cache holds the
\* access points of those that have; a client that reads sees the whole scan,
\* and what it has read is the beginning of it.
UnderWay ==
  /\ driver # 0 => driver = scans /\ events = <<>> /\ entries = <<>> /\ ~finished
  /\ events # <<>> =>
       /\ ~finished /\ driver = 0
       /\ \E j \in 0..found : events = Rest(scans, found, j) /\ entries = Cut(scans, j)

Reading ==
  client \in {"page", "done"} \/ (client = "poll" /\ finished) =>
    Quiet /\ entries = Cut(scans, found)

Read ==
  /\ client = "poll" => results = <<>>
  /\ client = "page" => /\ total = Len(entries) /\ Len(results) <= total
                        /\ \A i \in 1..Len(results) : results[i] = entries[i]
  /\ client = "done" => results = entries

ScanInv == UnderWay /\ Reading /\ Read

\* What is expected is the cut after the last result.
LEMMA ExpectedIsCut == Expected = Cut(scans, found)
  BY DEF Expected, Cut

\* A run begins with nothing arrived.
LEMMA RunIsRest ==
  ASSUME NEW s \in 1..MaxScans, NEW n \in 0..Aps
  PROVE  Run(s, n) = Rest(s, n, 0) /\ Run(s, n) \in Seq(Event)
<1> DEFINE a == [i \in 1..n |-> [kind |-> "result", scan |-> s, ap |-> i]]
           d == [kind |-> "done", scan |-> s, ap |-> 0]
           r == Rest(s, n, 0)
<1>1. Run(s, n) = a \o <<d>> /\ Run(s, n) \in Seq(Event) /\ n \in Nat
  BY RunType, ScanAssumption DEF Run
<1>2. a \in Seq(Event) /\ Len(a) = n /\ d \in Event
  <2>1. \A i \in 1..n : [kind |-> "result", scan |-> s, ap |-> i] \in Event
    BY ScanAssumption DEF Event, Found
  <2> QED BY <1>1, <2>1 DEF Event, Ended
<1>3. \A i \in 1..n : a[i] = r[i]
  BY <1>1 DEF Rest
<1>4. r[n + 1] = d
  BY <1>1 DEF Rest
<1>5. r = [i \in 1..(n + 1) |-> r[i]]
  BY <1>1 DEF Rest
<1> HIDE DEF a, d, r
<1>6. Len(a \o <<d>>) = n + 1 /\ a \o <<d>> \in Seq(Event)
  BY <1>1, <1>2
<1>7. ASSUME NEW i \in 1..(n + 1) PROVE (a \o <<d>>)[i] = r[i]
  <2>1. CASE i = n + 1
    BY <1>1, <1>2, <1>4, <2>1
  <2>2. CASE i # n + 1
    <3>1. i \in 1..n
      BY <1>1, <2>2
    <3> QED BY <1>2, <1>3, <3>1
  <2> QED BY <2>1, <2>2
<1>8. r \in Seq(Event) /\ Len(r) = n + 1
  <2>1. \A i \in 1..(n + 1) : r[i] \in Event
    BY <1>6, <1>7
  <2>2. r \in [1..(n + 1) -> Event]
    BY <1>5, <2>1
  <2> QED BY <1>1, <2>2, FunctionIsSeq
<1>9. a \o <<d>> = r
  BY <1>6, <1>7, <1>8, SeqEqual
<1> QED BY <1>1, <1>9 DEF r

\* What is left of a run is a sequence.
LEMMA RestType ==
  ASSUME NEW s \in Nat, NEW n \in Nat, NEW j \in 0..n
  PROVE  /\ Rest(s, n, j) \in Seq([kind : {"result", "done"}, scan : Nat, ap : Nat])
         /\ Len(Rest(s, n, j)) = n - j + 1
         /\ \A i \in 1..(n - j) : Rest(s, n, j)[i] = [kind |-> "result", scan |-> s, ap |-> j + i]
         /\ Rest(s, n, j)[n - j + 1] = [kind |-> "done", scan |-> s, ap |-> 0]
<1> DEFINE E == [kind : {"result", "done"}, scan : Nat, ap : Nat]
<1>1. n - j + 1 \in Nat
  OBVIOUS
<1>2. Rest(s, n, j) \in [1..(n - j + 1) -> E]
  <2>1. ASSUME NEW i \in 1..(n - j + 1)
        PROVE  (IF i <= n - j THEN [kind |-> "result", scan |-> s, ap |-> j + i]
                ELSE [kind |-> "done", scan |-> s, ap |-> 0]) \in E
    OBVIOUS
  <2> QED BY <2>1 DEF Rest
<1>3. Rest(s, n, j) \in Seq(E) /\ Len(Rest(s, n, j)) = n - j + 1
  BY <1>1, <1>2, FunctionIsSeq
<1>4. \A i \in 1..(n - j) : Rest(s, n, j)[i] = [kind |-> "result", scan |-> s, ap |-> j + i]
  BY DEF Rest
<1>5. Rest(s, n, j)[n - j + 1] = [kind |-> "done", scan |-> s, ap |-> 0]
  BY DEF Rest
<1> QED BY <1>3, <1>4, <1>5

\* The head and the tail of what is left of a run.
LEMMA RestStep ==
  ASSUME NEW s \in Nat, NEW n \in Nat, NEW j \in 0..n
  PROVE  /\ Rest(s, n, j) # <<>>
         /\ j < n => /\ Head(Rest(s, n, j)) = [kind |-> "result", scan |-> s, ap |-> j + 1]
                     /\ Tail(Rest(s, n, j)) = Rest(s, n, j + 1)
         /\ j = n => /\ Head(Rest(s, n, j)) = [kind |-> "done", scan |-> s, ap |-> 0]
                     /\ Tail(Rest(s, n, j)) = <<>>
<1> DEFINE E == [kind : {"result", "done"}, scan : Nat, ap : Nat]
           r == Rest(s, n, j)
           u == Rest(s, n, j + 1)
<1>1. /\ r \in Seq(E) /\ Len(r) = n - j + 1
      /\ \A i \in 1..(n - j) : r[i] = [kind |-> "result", scan |-> s, ap |-> j + i]
      /\ r[n - j + 1] = [kind |-> "done", scan |-> s, ap |-> 0]
  BY RestType
<1>2. j < n => /\ u \in Seq(E) /\ Len(u) = n - j
               /\ \A i \in 1..(n - j - 1) : u[i] = [kind |-> "result", scan |-> s, ap |-> j + 1 + i]
               /\ u[n - j] = [kind |-> "done", scan |-> s, ap |-> 0]
  <2> SUFFICES ASSUME j < n PROVE
               /\ u \in Seq(E) /\ Len(u) = n - j
               /\ \A i \in 1..(n - j - 1) : u[i] = [kind |-> "result", scan |-> s, ap |-> j + 1 + i]
               /\ u[n - j] = [kind |-> "done", scan |-> s, ap |-> 0]
    OBVIOUS
  <2>1. j + 1 \in 0..n /\ n - (j + 1) = n - j - 1 /\ n - (j + 1) + 1 = n - j
    OBVIOUS
  <2> QED BY <2>1, RestType
<1> HIDE DEF E, r, u
<1>3. r # <<>> /\ Head(r) = r[1] /\ Tail(r) \in Seq(E) /\ Len(Tail(r)) = n - j
      /\ \A i \in 1..(n - j) : Tail(r)[i] = r[i + 1]
  BY <1>1
<1>4. ASSUME j < n
      PROVE  Head(r) = [kind |-> "result", scan |-> s, ap |-> j + 1] /\ Tail(r) = u
  <2>1. 1 \in 1..(n - j)
    BY <1>4
  <2>2. ASSUME NEW i \in 1..(n - j) PROVE Tail(r)[i] = u[i]
    <3>1. CASE i = n - j
      BY <1>1, <1>2, <1>3, <1>4, <3>1
    <3>2. CASE i # n - j
      <4>1. i \in 1..(n - j - 1) /\ i + 1 \in 1..(n - j) /\ j + 1 + i = j + (i + 1)
        BY <3>2
      <4> QED BY <1>1, <1>2, <1>3, <1>4, <4>1
    <3> QED BY <3>1, <3>2
  <2>3. Tail(r) = u
    BY <1>2, <1>3, <1>4, <2>2, SeqEqual
  <2> QED BY <1>1, <1>3, <2>1, <2>3
<1>5. ASSUME j = n
      PROVE  Head(r) = [kind |-> "done", scan |-> s, ap |-> 0] /\ Tail(r) = <<>>
  <2>1. n - j = 0 /\ n - j + 1 = 1
    BY <1>5
  <2>2. Len(Tail(r)) = 0
    BY <1>3, <2>1
  <2>3. Tail(r) = <<>>
    BY <1>3, <2>2, EmptySeq
  <2> QED BY <1>1, <1>3, <2>1, <2>3
<1> QED BY <1>3, <1>4, <1>5 DEF r, u

\* A cut is a sequence.
LEMMA CutType ==
  ASSUME NEW s \in Nat, NEW j \in Nat
  PROVE  /\ Cut(s, j) \in Seq([scan : Nat, ap : Nat])
         /\ Len(Cut(s, j)) = IF j < ScanMax THEN j ELSE ScanMax
         /\ \A i \in 1..Len(Cut(s, j)) : Cut(s, j)[i] = [scan |-> s, ap |-> i]
<1> DEFINE m == IF j < ScanMax THEN j ELSE ScanMax
<1>1. m \in Nat
  BY ScanAssumption
<1>2. Cut(s, j) \in [1..m -> [scan : Nat, ap : Nat]]
  BY <1>1 DEF Cut
<1> HIDE DEF m
<1>3. Cut(s, j) \in Seq([scan : Nat, ap : Nat]) /\ Len(Cut(s, j)) = m
  BY <1>1, <1>2, FunctionIsSeq
<1>4. \A i \in 1..m : Cut(s, j)[i] = [scan |-> s, ap |-> i]
  BY DEF Cut, m
<1> QED BY <1>3, <1>4 DEF m

\* One more result is one more entry, until the cache is full.
LEMMA CutStep ==
  ASSUME NEW s \in Nat, NEW j \in Nat
  PROVE  /\ Len(Cut(s, j)) < ScanMax => Append(Cut(s, j), [scan |-> s, ap |-> j + 1]) = Cut(s, j + 1)
         /\ ~(Len(Cut(s, j)) < ScanMax) => Cut(s, j) = Cut(s, j + 1)
         /\ Cut(s, 0) = <<>>
<1> DEFINE E == [scan : Nat, ap : Nat]
           c == Cut(s, j)
           d == Cut(s, j + 1)
           a == Append(c, [scan |-> s, ap |-> j + 1])
<1>1. /\ c \in Seq(E) /\ Len(c) = (IF j < ScanMax THEN j ELSE ScanMax)
      /\ \A i \in 1..Len(c) : c[i] = [scan |-> s, ap |-> i]
  BY CutType
<1>2. /\ d \in Seq(E) /\ Len(d) = (IF j + 1 < ScanMax THEN j + 1 ELSE ScanMax)
      /\ \A i \in 1..Len(d) : d[i] = [scan |-> s, ap |-> i]
  <2>1. j + 1 \in Nat
    OBVIOUS
  <2> QED BY <2>1, CutType
<1>3. Cut(s, 0) = <<>>
  <2>1. 0 \in Nat /\ Len(Cut(s, 0)) = 0 /\ Cut(s, 0) \in Seq(E)
    BY CutType, ScanAssumption
  <2> QED BY <2>1
<1>4. [scan |-> s, ap |-> j + 1] \in E
  OBVIOUS
<1> HIDE DEF E, c, d
<1>5. ASSUME Len(c) < ScanMax PROVE a = d
  <2>1. Len(c) = j /\ Len(d) = j + 1
    BY <1>1, <1>2, <1>5, ScanAssumption
  <2>2. a \in Seq(E) /\ Len(a) = j + 1 /\ a[j + 1] = [scan |-> s, ap |-> j + 1]
        /\ \A i \in 1..j : a[i] = c[i]
    BY <1>1, <1>4, <2>1
  <2>3. ASSUME NEW i \in 1..(j + 1) PROVE a[i] = d[i]
    <3>1. d[i] = [scan |-> s, ap |-> i]
      BY <1>2, <2>1
    <3>2. CASE i = j + 1
      BY <2>2, <3>1, <3>2
    <3>3. CASE i # j + 1
      <4>1. i \in 1..j
        BY <3>3
      <4> QED BY <1>1, <2>1, <2>2, <3>1, <4>1
    <3> QED BY <3>2, <3>3
  <2> QED BY <1>2, <2>1, <2>2, <2>3, SeqEqual
<1>6. ASSUME ~(Len(c) < ScanMax) PROVE c = d
  <2>1. Len(c) = Len(d)
    BY <1>1, <1>2, <1>6, ScanAssumption
  <2> QED BY <1>1, <1>2, <2>1, SeqEqual
<1> QED BY <1>3, <1>5, <1>6 DEF c, d

\* A page continues what has been read by entries of the cache, at least one.
LEMMA PageStep ==
  ASSUME TypeOK, Len(results) < Len(entries), \A i \in 1..Len(results) : results[i] = entries[i]
  PROVE  LET r == results \o Page(Len(results)) IN
         /\ Page(Len(results)) # <<>>
         /\ Len(r) <= Len(entries)
         /\ \A i \in 1..Len(r) : r[i] = entries[i]
<1> DEFINE n == Len(results)
           end == IF n + PageMax < Len(entries) THEN n + PageMax ELSE Len(entries)
           page == SubSeq(entries, n + 1, end)
           r == results \o page
<1>1. results \in Seq(Entry) /\ entries \in Seq(Entry) /\ n \in Nat /\ Len(entries) \in Nat
  BY DEF TypeOK
<1>2. end \in Nat /\ end <= Len(entries) /\ n < end
  BY <1>1, ScanAssumption
<1>3. Page(n) = page
  BY DEF Page
<1> HIDE DEF n, end
<1>4. page \in Seq(Entry) /\ Len(page) = end - n /\ \A i \in 1..(end - n) : page[i] = entries[n + i]
  BY <1>1, <1>2
<1> HIDE DEF page
<1>5. Len(r) = end /\ \A i \in 1..end : r[i] = IF i <= n THEN results[i] ELSE page[i - n]
  BY <1>1, <1>2, <1>4 DEF n
<1> HIDE DEF r
<1>6. ASSUME NEW i \in 1..end PROVE r[i] = entries[i]
  <2>1. CASE i <= n
    BY <1>1, <1>5, <2>1 DEF n
  <2>2. CASE i > n
    <3>1. i - n \in 1..(end - n) /\ n + (i - n) = i
      BY <1>1, <1>2, <2>2
    <3> QED BY <1>1, <1>4, <1>5, <2>2, <3>1
  <2> QED BY <1>1, <2>1, <2>2
<1>7. page # <<>>
  BY <1>1, <1>2, <1>4
<1> QED BY <1>2, <1>3, <1>5, <1>6, <1>7 DEF r, n

\* Scans follow one another: every step keeps the cache what the driver has
\* reported of the last one.
LEMMA ScanStep == ASSUME ~Overlap PROVE IInv /\ ScanInv /\ [Next]_vars => ScanInv'
<1> SUFFICES ASSUME IInv, ScanInv, [Next]_vars PROVE ScanInv'
  OBVIOUS
<1>0. TypeOK /\ scans \in Nat /\ found \in Nat
  BY ScanAssumption DEF IInv, TypeOK
<1>1. CASE Start \/ StartFails
  <2>1. /\ Quiet /\ entries' = <<>> /\ events' = events /\ scans' = scans + 1
        /\ results' = <<>>
        /\ \/ driver' = scans' /\ finished' = FALSE /\ client' = "poll"
           \/ driver' = driver /\ client' = "refused"
    BY <1>1 DEF Start, StartFails, StartRequest
  <2>2. UnderWay'
    BY <2>1 DEF UnderWay, Quiet
  <2> QED BY <2>1, <2>2 DEF ScanInv, Reading, Read
<1>1a. CASE StartWithoutInterface
  <2>1. /\ Quiet /\ client' = "refused" /\ driver' = driver /\ events' = events
    BY <1>1a DEF StartWithoutInterface, StartRequest
  <2>2. UnderWay'
    BY <2>1 DEF UnderWay, Quiet
  <2> QED BY <2>1, <2>2 DEF ScanInv, Reading, Read
<1>2. CASE GiveUp \/ PageUnfit
  BY <1>2 DEF GiveUp, PageUnfit, ScanInv, UnderWay, Reading, Read
<1>3. CASE Status
  <2>1. /\ client = "poll" /\ finished /\ client' = "page" /\ total' = Len(entries)
        /\ UNCHANGED <<entries, finished, driver, events, results, scans, found>>
    BY <1>3 DEF Status
  <2>2. UnderWay' /\ Reading'
    BY <2>1 DEF ScanInv, UnderWay, Reading, Quiet
  <2>3. results' = <<>> /\ Len(<<>>) = 0 /\ Len(entries) \in Nat
    BY <1>0, <2>1 DEF ScanInv, Read, TypeOK
  <2>4. Len(results') <= total' /\ \A i \in 1..Len(results') : results'[i] = entries'[i]
    BY <2>1, <2>3
  <2> QED BY <2>1, <2>2, <2>4 DEF ScanInv, Read
<1>4. CASE ReadPage
  <2>1. /\ client = "page" /\ Len(results) < total
        /\ UNCHANGED <<entries, finished, driver, events, total, scans, found>>
        /\ results' = results \o Page(Len(results))
        /\ client' = IF Page(Len(results)) = <<>> THEN "done" ELSE "page"
    BY <1>4 DEF ReadPage
  <2>2. total = Len(entries) /\ \A i \in 1..Len(results) : results[i] = entries[i]
    BY <2>1 DEF ScanInv, Read
  <2>3. /\ client' = "page" /\ Len(results') <= Len(entries)
        /\ \A i \in 1..Len(results') : results'[i] = entries[i]
    BY <1>0, <2>1, <2>2, PageStep
  <2>4. UnderWay' /\ Reading'
    BY <2>1, <2>3 DEF ScanInv, UnderWay, Reading, Quiet
  <2> QED BY <2>1, <2>2, <2>3, <2>4 DEF ScanInv, Read
<1>5. CASE ReadAll
  <2>1. /\ client = "page" /\ Len(results) >= total /\ client' = "done"
        /\ UNCHANGED <<entries, finished, driver, events, total, results, scans, found>>
    BY <1>5 DEF ReadAll
  <2>2. /\ total = Len(entries) /\ Len(results) <= total
        /\ \A i \in 1..Len(results) : results[i] = entries[i]
    BY <2>1 DEF ScanInv, Read
  <2>3. results = entries
    <3>1. results \in Seq(Entry) /\ entries \in Seq(Entry) /\ Len(results) = Len(entries)
      BY <1>0, <2>1, <2>2 DEF TypeOK
    <3> QED BY <2>2, <3>1, SeqEqual
  <2>4. UnderWay' /\ Reading'
    BY <2>1 DEF ScanInv, UnderWay, Reading, Quiet
  <2> QED BY <2>1, <2>3, <2>4 DEF ScanInv, Read
<1>6. ASSUME NEW n \in 0..Aps, DriverRun(n) PROVE ScanInv'
  <2>1. /\ driver # 0 /\ driver' = 0 /\ found' = n
        /\ UNCHANGED <<entries, finished, client, total, results, scans>>
    BY <1>6 DEF DriverRun
  <2>2. driver = scans /\ events = <<>> /\ entries = <<>> /\ ~finished
    BY <2>1 DEF ScanInv, UnderWay
  <2>3. events' = Rest(scans, n, 0)
    <3>1. events' = events \o Run(driver, n) /\ driver \in 1..MaxScans
      BY <1>6, RunAppended
    <3>2. Run(driver, n) \in Seq(Event) /\ Run(driver, n) = Rest(driver, n, 0)
      BY <3>1, RunIsRest
    <3>3. <<>> \o Run(driver, n) = Run(driver, n)
      BY <3>2
    <3> QED BY <2>2, <3>1, <3>2, <3>3
  <2>4. entries' = Cut(scans, 0) /\ 0 \in 0..n
    <3>1. Cut(scans, 0) = <<>>
      BY <1>0, CutStep
    <3> QED BY <2>1, <2>2, <3>1, ScanAssumption
  <2>5. UnderWay'
    BY <2>1, <2>2, <2>3, <2>4 DEF UnderWay
  <2>6. client \notin {"page", "done"}
    BY <2>1 DEF ScanInv, Reading, Quiet
  <2> QED BY <2>1, <2>2, <2>5, <2>6 DEF ScanInv, Reading, Read
<1>7. ASSUME events # <<>> PROVE client \notin {"page", "done"} /\ ~finished /\ driver = 0
  BY <1>7 DEF ScanInv, UnderWay, Reading, Quiet
<1>8. CASE OnResult
  <2>1. /\ events # <<>> /\ Head(events).kind = "result" /\ events' = Tail(events)
        /\ UNCHANGED <<finished, driver, client, total, results, scans, found>>
        /\ entries' = IF Len(entries) < ScanMax
                      THEN Append(entries, [scan |-> Head(events).scan, ap |-> Head(events).ap])
                      ELSE entries
    BY <1>8 DEF OnResult, NextEvent, Room
  <2>2. PICK j \in 0..found : events = Rest(scans, found, j) /\ entries = Cut(scans, j)
    BY <2>1 DEF ScanInv, UnderWay
  <2>3. j < found
    <3>1. j = found => Head(events) = [kind |-> "done", scan |-> scans, ap |-> 0]
      BY <1>0, <2>2, RestStep
    <3>2. j # found
      BY <2>1, <3>1
    <3>3. j \in Nat /\ j <= found
      BY <1>0
    <3> QED BY <1>0, <3>2, <3>3
  <2>4. /\ Head(events) = [kind |-> "result", scan |-> scans, ap |-> j + 1]
        /\ events' = Rest(scans, found, j + 1)
    BY <1>0, <2>1, <2>2, <2>3, RestStep
  <2>5. entries' = Cut(scans, j + 1)
    <3>1. [scan |-> Head(events).scan, ap |-> Head(events).ap] = [scan |-> scans, ap |-> j + 1]
      BY <2>4
    <3>2. j \in Nat
      BY <1>0
    <3> QED BY <1>0, <2>1, <2>2, <3>1, <3>2, CutStep
  <2>6. j + 1 \in 0..found
    BY <1>0, <2>3
  <2>7. UnderWay'
    BY <1>7, <2>1, <2>4, <2>5, <2>6 DEF UnderWay
  <2> QED BY <1>7, <2>1, <2>7 DEF ScanInv, Reading, Read
<1>9. CASE OnDone
  <2>1. /\ events # <<>> /\ Head(events).kind = "done" /\ events' = Tail(events)
        /\ UNCHANGED <<entries, driver, client, total, results, scans, found>>
    BY <1>9 DEF OnDone, NextEvent
  <2>2. PICK j \in 0..found : events = Rest(scans, found, j) /\ entries = Cut(scans, j)
    BY <2>1 DEF ScanInv, UnderWay
  <2>3. j = found
    <3>1. j < found => Head(events) = [kind |-> "result", scan |-> scans, ap |-> j + 1]
      BY <1>0, <2>2, RestStep
    <3>2. ~(j < found)
      BY <2>1, <3>1
    <3>3. j \in Nat /\ j <= found
      BY <1>0
    <3> QED BY <1>0, <3>2, <3>3
  <2>4. events' = <<>> /\ entries' = Cut(scans, found) /\ driver' = 0
    BY <1>0, <1>7, <2>1, <2>2, <2>3, RestStep
  <2>5. UnderWay' /\ Reading'
    BY <2>1, <2>4 DEF UnderWay, Reading, Quiet
  <2> QED BY <1>7, <2>1, <2>5 DEF ScanInv, Read
<1>10. CASE UNCHANGED vars
  BY <1>10 DEF vars, ScanInv, UnderWay, Reading, Read, Quiet
<1> QED BY <1>1, <1>2, <1>3, <1>4, <1>5, <1>6, <1>8, <1>9, <1>10, <1>1a DEF Next, Client, Device

\* A client that starts a scan once the one before has ended collects what this
\* scan has found, for every number of access points, every cache and every
\* page size (flows.py:33, wifi_scan.c:104-126).
THEOREM PagesCorrect == ASSUME ~Overlap PROVE Spec => []CollectsAllPages
<1>1. Init => ScanInv
  BY DEF Init, ScanInv, UnderWay, Reading, Read
<1>2. IInv /\ ScanInv /\ [Next]_vars => ScanInv'
  BY ScanStep
<1>3. ScanInv => CollectsAllPages
  BY ExpectedIsCut DEF ScanInv, Reading, Read, CollectsAllPages
<1>4. Spec => []IInv
  BY InitTypes, TypeStep, PTL DEF Spec
<1> QED BY <1>1, <1>2, <1>3, <1>4, PTL DEF Spec
=============================================================================
