------------------------------ MODULE Manager ------------------------------
(***************************************************************************)
(* The life of the provisioning manager (src/src/manager.c), the           *)
(* advertising it controls (src/src/adv.c) and the end request             *)
(* (src/src/handlers/ctrl.c).                                              *)
(*                                                                         *)
(* Four threads: the application, the pouch work queue (end and            *)
(* reprovision requests), the system work queue (auto-stop, recycled) and  *)
(* the Bluetooth host.  A thread's code is one step up to a call that      *)
(* blocks: settings_load, bt_le_adv_start, bt_le_adv_stop, k_event_wait.   *)
(***************************************************************************)
EXTENDS Naturals

CONSTANTS
  Waits,    \* TRUE: the application starts again only once mgr_wait returned
  MaxRuns   \* bound on runs

ASSUME ManagerAssumption ==
  Waits \in BOOLEAN /\ MaxRuns \in Nat

Stoppers == {"app", "wq", "sys"}

VARIABLES
  running,      \* running
  ended,        \* MGR_EVENT_ENDED of mgr_events: "clear" or "posted"
  autostop,     \* autostop_work: "off" or "armed"
  adv_enabled,  \* adv_enabled
  radio,        \* the controller (external): "silent", "advertising", or "refused" when
                \* it would not advertise again
  link,         \* "none", "up", or "released": gone, not yet recycled (external)
  rsp,          \* the end response: "none" or "queued"
  creds,        \* is_provisioned: "no" or "yes"
  loc,          \* where each thread is
  \* History, read by no guard but the bound:
  runs,         \* runs started
  terminal,     \* the run of the last terminal provisioning step
  stray         \* why the radio advertises although a stop is over: "unstopped" when
                \* the host would not stop it, "overtaken" when a resume that had found
                \* advertising enabled started it after the stop; else "no"

vars == <<running, ended, autostop, adv_enabled, radio, link, rsp, creds, loc, runs, terminal, stray>>

Go(t, l) == loc' = [loc EXCEPT ![t] = l]
At(t, l) == loc[t] = l

Init ==
  /\ running = "no"
  /\ ended = "clear"
  /\ autostop = "off"
  /\ adv_enabled = "no"
  /\ radio = "silent"
  /\ link = "none"
  /\ rsp = "none"
  /\ creds = "no"
  /\ loc = [t \in Stoppers |-> "idle"]
  /\ runs = 0
  /\ terminal = 0
  /\ stray = "no"

\* Mutant: the work item is left scheduled.
CancelNothing == autostop' = autostop

\* autostop_cancel.
Cancel == autostop' = "off"

-----------------------------------------------------------------------------
\* pouch_prov_mgr_start, called by the application.
Start ==
  /\ At("app", "idle")
  /\ running = "no"
  /\ runs < MaxRuns
  /\ runs' = runs + 1
  /\ Go("app", "load")
  /\ UNCHANGED <<running, ended, autostop, adv_enabled, radio, link, rsp, creds, terminal, stray>>

\* Mutant: the event of the last run stays.
StartKeepsEvent ==
  /\ At("app", "load")
  /\ rsp' = "none"
  /\ Cancel
  /\ Go("app", "advertise")
  /\ UNCHANGED <<running, ended, adv_enabled, radio, link, creds, runs, terminal, stray>>

StartReset ==
  /\ At("app", "load")
  /\ rsp' = "none"
  /\ Cancel
  /\ ended' = "clear"
  /\ Go("app", "advertise")
  /\ UNCHANGED <<running, adv_enabled, radio, link, creds, runs, terminal, stray>>

\* Connectable advertising needs the connection object (external).
StartAdvertise ==
  /\ At("app", "advertise")
  /\ link = "none"
  /\ radio' = "advertising"
  /\ adv_enabled' = "yes"
  /\ running' = "yes"
  /\ stray' = "no"
  /\ Go("app", "started")
  /\ UNCHANGED <<ended, autostop, link, rsp, creds, runs, terminal>>

StartFails ==
  /\ At("app", "advertise")
  /\ Go("app", "idle")
  /\ UNCHANGED <<running, ended, autostop, adv_enabled, radio, link, rsp, creds, runs, terminal, stray>>

\* pouch_prov_mgr_wait.
Wait ==
  /\ At("app", "started")
  /\ Go("app", "wait")
  /\ UNCHANGED <<running, ended, autostop, adv_enabled, radio, link, rsp, creds, runs, terminal, stray>>

WaitReturns ==
  /\ At("app", "wait")
  /\ ended = "posted"
  /\ Go("app", "idle")
  /\ UNCHANGED <<running, ended, autostop, adv_enabled, radio, link, rsp, creds, runs, terminal, stray>>

-----------------------------------------------------------------------------
\* Where a thread goes on after pouch_prov_mgr_stop: the application to its next
\* call, the work queue to queue the end response.
After(t) ==
  CASE t = "app" -> IF Waits THEN "started" ELSE "idle"
    [] t = "wq"  -> "answer"
    [] t = "sys" -> "idle"

\* Mutant: advertising stays enabled.
StopKeepsAdvertising(t) ==
  /\ running = "yes"
  /\ running' = "no"
  /\ Cancel
  /\ Go(t, "silence")
  /\ UNCHANGED <<ended, adv_enabled, radio, link, rsp, creds, runs, terminal, stray>>

\* pouch_prov_mgr_stop up to bt_le_adv_stop, by thread t; the guard of its caller
\* is the caller's.
StopBegin(t) ==
  /\ running = "yes"
  /\ running' = "no"
  /\ Cancel
  /\ adv_enabled' = "no"
  /\ Go(t, "silence")
  /\ UNCHANGED <<ended, radio, link, rsp, creds, runs, terminal, stray>>

StopAlready(t) ==
  /\ running = "no"
  /\ Go(t, After(t))
  /\ UNCHANGED <<running, ended, autostop, adv_enabled, radio, link, rsp, creds, runs, terminal, stray>>

\* Mutant: nobody is told.
StopSilently(t) ==
  /\ At(t, "silence")
  /\ radio' = "silent"
  /\ rsp' = "none"
  /\ Go(t, After(t))
  /\ UNCHANGED <<running, ended, autostop, adv_enabled, link, creds, runs, terminal, stray>>

\* The rest of it, whether or not bt_le_adv_stop succeeds.
StopFinish(t) ==
  /\ At(t, "silence")
  /\ \/ radio' = "silent" /\ stray' = "no"
     \/ radio' = radio /\ stray' = IF radio = "advertising" THEN "unstopped" ELSE stray
  /\ rsp' = "none"
  /\ ended' = "posted"
  /\ Go(t, After(t))
  /\ UNCHANGED <<running, autostop, adv_enabled, link, creds, runs, terminal>>

AppStop == At("app", "started") /\ (StopBegin("app") \/ StopAlready("app"))

\* handle_ctrl, end: the manager is stopped, then dispatch queues the response.
CtrlEnd == At("wq", "idle") /\ link = "up" /\ (StopBegin("wq") \/ StopAlready("wq"))

QueueResponse ==
  /\ At("wq", "answer")
  /\ rsp' = "queued"
  /\ Go("wq", "idle")
  /\ UNCHANGED <<running, ended, autostop, adv_enabled, radio, link, creds, runs, terminal, stray>>

\* autostop_handler; it is never due while the manager is stopped.
Autostop ==
  /\ autostop = "armed"
  /\ At("sys", "idle")
  /\ StopBegin("sys")

-----------------------------------------------------------------------------
\* The terminal step of provisioning, and emit arming the auto-stop.
Terminal ==
  /\ creds' = "yes"
  /\ IF running = "yes"
     THEN autostop' = "armed" /\ terminal' = runs
     ELSE UNCHANGED <<autostop, terminal>>
  /\ UNCHANGED <<running, ended, adv_enabled, radio, link, rsp, loc, runs, stray>>

\* handle_ctrl, reprovision: the credentials are wiped, nothing else changes.
Reprovision ==
  /\ At("wq", "idle")
  /\ link = "up"
  /\ creds = "yes"
  /\ creds' = "no"
  /\ UNCHANGED <<running, ended, autostop, adv_enabled, radio, link, rsp, loc, runs, terminal, stray>>

\* pouch_prov_mgr_reset, by the application: wiped, and the queue reset.
ManagerReset ==
  /\ loc.app \in {"idle", "started"}
  /\ creds' = "no"
  /\ rsp' = "none"
  /\ UNCHANGED <<running, ended, autostop, adv_enabled, radio, link, loc, runs, terminal, stray>>

-----------------------------------------------------------------------------
\* A central connects; the controller stops advertising.
Connected ==
  /\ link = "none"
  /\ radio = "advertising"
  /\ link' = "up"
  /\ radio' = "silent"
  /\ stray' = "no"
  /\ UNCHANGED <<running, ended, autostop, adv_enabled, rsp, creds, loc, runs, terminal>>

\* disconnected: pouch_prov_mgr_session_ended.
Disconnected ==
  /\ link = "up"
  /\ link' = "released"
  /\ rsp' = "none"
  /\ UNCHANGED <<running, ended, autostop, adv_enabled, radio, creds, loc, runs, terminal, stray>>

\* Mutant: advertising is never resumed.
RecycledNothing ==
  /\ At("sys", "idle")
  /\ link = "released"
  /\ link' = "none"
  /\ UNCHANGED <<running, ended, autostop, adv_enabled, radio, rsp, creds, loc, runs, terminal, stray>>

\* recycled, on the system work queue: look whether advertising is enabled, ...
Recycled ==
  /\ At("sys", "idle")
  /\ link = "released"
  /\ link' = "none"
  /\ Go("sys", IF adv_enabled = "yes" THEN "resume" ELSE "idle")
  /\ UNCHANGED <<running, ended, autostop, adv_enabled, radio, rsp, creds, runs, terminal, stray>>

\* ... and bt_le_adv_start.
Resume ==
  /\ At("sys", "resume")
  /\ link = "none"
  /\ radio' = "advertising"
  /\ stray' = IF adv_enabled = "yes" THEN stray ELSE "overtaken"
  /\ Go("sys", "idle")
  /\ UNCHANGED <<running, ended, autostop, adv_enabled, link, rsp, creds, runs, terminal>>

\* The error is logged; nothing tries again.
ResumeFails ==
  /\ At("sys", "resume")
  /\ radio' = IF link = "none" /\ radio = "silent" THEN "refused" ELSE radio
  /\ Go("sys", "idle")
  /\ UNCHANGED <<running, ended, autostop, adv_enabled, link, rsp, creds, runs, terminal, stray>>

-----------------------------------------------------------------------------
Starting == Start \/ StartReset \/ StartAdvertise \/ StartFails
Host == Connected \/ Disconnected \/ Recycled \/ Resume \/ ResumeFails

Next ==
  \/ Starting \/ Wait \/ WaitReturns \/ AppStop \/ CtrlEnd \/ QueueResponse \/ Autostop
  \/ (\E t \in Stoppers : StopFinish(t))
  \/ Terminal \/ Reprovision \/ ManagerReset \/ Host

Spec == Init /\ [][Next]_vars

\* Blocking calls return, a posted event wakes its waiter, an armed auto-stop
\* fires and a released connection object is recycled.
Fairness ==
  /\ \A t \in Stoppers : WF_vars(StopFinish(t))
  /\ WF_vars(QueueResponse) /\ WF_vars(StartReset) /\ WF_vars(StartAdvertise \/ StartFails)
  /\ WF_vars(WaitReturns) /\ WF_vars(Autostop)
  /\ WF_vars(Recycled) /\ WF_vars(Resume \/ ResumeFails)

FairSpec == Spec /\ Fairness

-----------------------------------------------------------------------------
\* The types of the manager's and the threads' state.
TypeOK ==
  /\ running \in {"no", "yes"} /\ ended \in {"clear", "posted"}
  /\ autostop \in {"off", "armed"} /\ adv_enabled \in {"no", "yes"}
  /\ radio \in {"silent", "advertising", "refused"} /\ link \in {"none", "up", "released"}
  /\ rsp \in {"none", "queued"} /\ creds \in {"no", "yes"}
  /\ loc \in [Stoppers -> {"idle", "load", "advertise", "started", "wait", "silence", "answer",
                       "resume"}]
  /\ runs \in 0..MaxRuns /\ terminal \in 0..MaxRuns
  /\ stray \in {"no", "unstopped", "overtaken"}

\* Advertising is enabled exactly while the manager runs, and there are two ways
\* only for the radio to outlast a finished stop: the host would not stop it, or
\* a resume after a disconnect had looked before the stop and started it after
\* (adv.c:82-127, manager.c:206-219).
AdvertisingFollowsRunning ==
  /\ adv_enabled = running
  /\ radio = "advertising" /\ stray = "no" => running = "yes" \/ \E t \in Stoppers : At(t, "silence")

\* An application that starts again only after mgr_wait never finds the event of
\* an earlier run posted in the next one (manager.c:193, 218).
EndedIsStopped == ended = "posted" => running = "no"

\* An auto-stop left over from an earlier run never ends a later one: a run is
\* stopped by it only after its own terminal step (manager.c:192, 213).
AutostopOfThisRun == autostop = "armed" /\ running = "yes" => terminal = runs

\* mgr_wait returns once the manager is stopped, whoever stopped it.
WaitEnds == At("app", "wait") /\ running = "no" ~> ~At("app", "wait")

\* A running device without a link gets visible again, unless the host refuses to
\* resume advertising (adv.c:82).
VisibleAgain ==
  running = "yes" /\ link # "up" ~> radio \in {"advertising", "refused"} \/ running = "no" \/ link = "up"

\* manager.h:50, 53: "Start the provisioning service (advertising)", "Stop the
\* provisioning service".
\* The code does not keep to it: see "What does not hold" in README.md.
StoppedIsSilent == ended = "posted" /\ running = "no" => radio # "advertising"

\* ctrl.c:67: "let the manager stop after the response has been queued".
\* The code does not keep to it: see "What does not hold" in README.md.
EndStopsAfterQueue ==
  [][loc.wq = "idle" /\ running = "yes" /\ loc'.wq = "silence" => rsp = "queued"]_vars

\* manager.h:64: mgr_wait blocks "until provisioning ends (ctrl end from the
\* client, stop, or autostop timeout)".
\* The code does not keep to it: see "What does not hold" in README.md.
WaitMeansEnded ==
  [][At("app", "wait") /\ loc'.app = "idle" => running = "no"]_vars

\* Kconfig:91: auto-stop follows "the terminal provisioning step" and "lets the
\* device proceed to normal operation", which takes its credentials.
\* The code does not keep to it: see "What does not hold" in README.md.
AutostopWhenProvisioned ==
  [][loc.sys = "idle" /\ loc'.sys = "silence" => creds = "yes"]_vars
=============================================================================
