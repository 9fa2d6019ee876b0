------------------------------ MODULE WifiScan ------------------------------
(***************************************************************************)
(* A Wi-Fi scan: the device's endpoint (src/src/handlers/wifi_scan.c), the *)
(* driver it uses (src/sim/wifi/fake_wifi.c) and the client that starts a  *)
(* scan, polls it and reads the result pages (scan in                      *)
(* src/cli/src/pouchprov/flows.py).                                        *)
(*                                                                         *)
(* Three threads on the device: the pouch work queue runs the requests,    *)
(* the system work queue the driver, and the network management thread     *)
(* brings the driver's events to the endpoint one by one, later.           *)
(***************************************************************************)
EXTENDS Naturals, Sequences

CONSTANTS
  Aps,       \* most access points in range
  ScanMax,   \* SCAN_MAX
  PageMax,   \* PAGE_MAX, and the count the client asks for
  PageSure,  \* entries that fit into POUCH_PROV_MSG_MAX whatever their SSIDs
  MaxScans,  \* bound on scans
  Overlap    \* TRUE: a client that gave up may start again at once

ASSUME ScanAssumption ==
  /\ Aps \in Nat /\ ScanMax \in Nat \ {0} /\ PageMax \in Nat \ {0} /\ MaxScans \in Nat
  /\ PageSure \in Nat /\ Overlap \in BOOLEAN

VARIABLES
  entries,   \* sc.entries[0 .. count-1]: [scan, ap]
  finished,  \* sc.finished
  driver,    \* scan_work: scan number it is queued for, 0 when it is not
  events,    \* net_mgmt events on their way
  client,    \* scan of flows.py: "idle", "poll", "page", "done", or what it
             \* raised: "refused", "timeout" or "unfit"
  total,     \* total
  results,   \* results
  scans,     \* scans started
  found      \* history: access points in range of the driver's last run

vars == <<entries, finished, driver, events, client, total, results, scans, found>>

Init ==
  /\ entries = <<>>
  /\ finished = FALSE
  /\ driver = 0
  /\ events = <<>>
  /\ client = "idle"
  /\ total = 0
  /\ results = <<>>
  /\ scans = 0
  /\ found = 0

Quiet == driver = 0 /\ events = <<>>

-----------------------------------------------------------------------------
\* The client calls for a scan.
StartRequest ==
  /\ client \notin {"poll", "page"}
  /\ Overlap \/ Quiet
  /\ scans < MaxScans
  /\ results' = <<>>
  /\ total' = 0
  /\ UNCHANGED <<events, found>>

\* do_start: the cache is emptied, the driver queued (it runs once for a work item
\* submitted twice).
Start ==
  /\ StartRequest
  /\ scans' = scans + 1
  /\ entries' = <<>>
  /\ finished' = FALSE
  /\ driver' = scans + 1
  /\ client' = "poll"

\* The driver refuses, the cache is empty by then: internal error, the client raises.
StartFails ==
  /\ StartRequest
  /\ scans' = scans + 1
  /\ entries' = <<>>
  /\ finished' = TRUE
  /\ client' = "refused"
  /\ UNCHANGED driver

\* Without a Wi-Fi interface do_start returns the same error before it touches the
\* cache.
StartWithoutInterface ==
  /\ StartRequest
  /\ client' = "refused"
  /\ UNCHANGED <<entries, finished, driver, scans>>

\* scan_work_fn, with n access points in range.
DriverRun(n) ==
  /\ driver # 0
  /\ events' = events \o [i \in 1..n |-> [kind |-> "result", scan |-> driver, ap |-> i]]
                      \o <<[kind |-> "done", scan |-> driver, ap |-> 0]>>
  /\ driver' = 0
  /\ found' = n
  /\ UNCHANGED <<entries, finished, client, total, results, scans>>

\* Mutant: no room check.
RoomAlways == TRUE

Room == Len(entries) < ScanMax

NextEvent(kind) ==
  /\ events # <<>>
  /\ Head(events).kind = kind
  /\ events' = Tail(events)
  /\ UNCHANGED <<driver, client, total, results, scans, found>>

\* on_result: results beyond the cache are dropped.
OnResult ==
  /\ NextEvent("result")
  /\ entries' = IF Room
                THEN Append(entries, [scan |-> Head(events).scan, ap |-> Head(events).ap])
                ELSE entries
  /\ UNCHANGED finished

\* Mutant: the end of the scan is not noticed.
OnDoneIgnored ==
  /\ NextEvent("done")
  /\ UNCHANGED <<entries, finished>>

OnDone ==
  /\ NextEvent("done")
  /\ finished' = TRUE
  /\ UNCHANGED entries

-----------------------------------------------------------------------------
\* get-status: not finished, the client sleeps and asks again, until its deadline.
GiveUp ==
  /\ client = "poll"
  /\ ~finished
  /\ client' = "timeout"
  /\ UNCHANGED <<entries, finished, driver, events, total, results, scans, found>>

Status ==
  /\ client = "poll"
  /\ finished
  /\ total' = Len(entries)
  /\ client' = "page"
  /\ UNCHANGED <<entries, finished, driver, events, results, scans, found>>

\* Mutant: pages start one entry late.
PageLate(start) ==
  SubSeq(entries, start + 2, IF start + PageMax < Len(entries) THEN start + PageMax ELSE Len(entries))

\* encode_results: at most PAGE_MAX entries from start.
Page(start) ==
  SubSeq(entries, start + 1, IF start + PageMax < Len(entries) THEN start + PageMax ELSE Len(entries))

ReadPage ==
  /\ client = "page"
  /\ Len(results) < total
  /\ LET page == Page(Len(results))
     IN /\ results' = results \o page
        /\ client' = IF page = <<>> THEN "done" ELSE "page"
  /\ UNCHANGED <<entries, finished, driver, events, total, scans, found>>

\* A page with many long SSIDs does not encode: internal error, the client raises.
PageUnfit ==
  /\ client = "page"
  /\ Len(results) < total
  /\ Len(Page(Len(results))) > PageSure
  /\ client' = "unfit"
  /\ UNCHANGED <<entries, finished, driver, events, total, results, scans, found>>

ReadAll ==
  /\ client = "page"
  /\ Len(results) >= total
  /\ client' = "done"
  /\ UNCHANGED <<entries, finished, driver, events, total, results, scans, found>>

-----------------------------------------------------------------------------
Client == GiveUp \/ Status \/ ReadPage \/ PageUnfit \/ ReadAll
Device == (\E n \in 0..Aps : DriverRun(n)) \/ OnResult \/ OnDone

Next == Start \/ StartFails \/ StartWithoutInterface \/ Client \/ Device

Spec == Init /\ [][Next]_vars

\* The driver runs, its events arrive, the client goes on asking.
FairSpec ==
  Spec /\ WF_vars(Device) /\ WF_vars(Status) /\ WF_vars(ReadPage \/ PageUnfit \/ ReadAll)

-----------------------------------------------------------------------------
Entry == [scan : 1..MaxScans, ap : 1..Aps]

\* The types of the endpoint's, the driver's and the client's state; the cache
\* never outgrows SCAN_MAX.
TypeOK ==
  /\ entries \in Seq(Entry) /\ Len(entries) <= ScanMax
  /\ finished \in BOOLEAN
  /\ driver \in 0..MaxScans
  /\ events \in Seq([kind : {"result", "done"}, scan : 1..MaxScans, ap : 0..Aps])
  /\ client \in {"idle", "poll", "page", "done", "refused", "timeout", "unfit"}
  /\ total \in 0..ScanMax
  /\ results \in Seq(Entry)
  /\ scans \in 0..MaxScans
  /\ found \in 0..Aps

Expected == [i \in 1..(IF found < ScanMax THEN found ELSE ScanMax) |-> [scan |-> scans, ap |-> i]]

\* flows.py:33: "Trigger a scan, poll until finished, and collect all result
\* pages."  scan returns the access points this scan has found, each once and in
\* order, as many as the cache holds: no page is skipped, read twice or filled
\* from another scan.
CollectsAllPages == client = "done" => results = Expected

\* A scan that has begun ends, though the client polls a device whose events come
\* when they come: with the list, with the client's own deadline before the device
\* has finished, or with the error for a page too long for an answer, which takes
\* more access points than PageSure (flows.py:32-56, wifi_scan.c:136).
ScanFinishes ==
  client \in {"poll", "page"} ~>
    client \in {"done", "timeout"} \/ (client = "unfit" /\ Len(entries) > PageSure)
=============================================================================
