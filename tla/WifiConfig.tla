----------------------------- MODULE WifiConfig -----------------------------
(***************************************************************************)
(* The Wi-Fi configuration state machine of the device:                    *)
(* src/src/handlers/wifi_config.c, with the station driver as              *)
(* src/sim/wifi/fake_wifi.c implements it.                                 *)
(*                                                                         *)
(* Four threads share its static state without a lock: the pouch work      *)
(* queue ("wq") runs the .prov/config and .prov/ctrl handlers, the         *)
(* net_mgmt thread ("ev") the connect-result callback, the system work     *)
(* queue ("sys") the delayed retry, and the application ("app") may call   *)
(* pouch_prov_mgr_reset.  A step runs up to the return of a call that      *)
(* writes the credential storage; the code behind it is the next step of   *)
(* that thread.  Deleting credentials may fail: no caller looks.           *)
(*                                                                         *)
(* A configuration is an SSID and a passphrase; BSSID and channel travel   *)
(* with the passphrase.  A refused set or apply changes nothing and is not *)
(* an action.                                                              *)
(***************************************************************************)
EXTENDS Naturals, Sequences

CONSTANTS
  Ssids, Passes,
  None,
  MaxAttempts,  \* wifi_conn_attempts: 0 means a single attempt
  MaxEvents     \* bound on queued connect results

ASSUME NoneAssumption ==
  /\ None \notin Passes
  /\ None \notin [ssid : Ssids, pass : Passes]
  /\ None \notin [conf : [ssid : Ssids, pass : Passes], ok : BOOLEAN]
ASSUME BoundAssumption == MaxAttempts \in Nat /\ MaxEvents \in Nat

VARIABLES
  conf,      \* wc.ssid, wc.pass, ...: the configuration last set
  inflight,  \* wc.inflight_*: the snapshot being connected
  attempts,  \* wc.attempts_completed
  sta,       \* wc.sta_state
  retry,     \* wc.retry_work: off or due
  creds,     \* the stored credentials, by SSID
  loc,       \* where each thread is
  driver,    \* the connect the driver works on, with the outcome it will have
  results,   \* connect results queued for the net_mgmt thread
  polling,   \* "yes": operations come one at a time, the client polling between
             \* them and the application resetting only then; "no": at any time
  \* History, read by no action:
  applied,   \* the configuration of the last apply that stored one, until a reset
  joined,    \* configurations the station has joined a network with
  tries,     \* connect requests since that apply
  lapse      \* "overtook" when that apply stored its credentials while an earlier
             \* failure was not yet completed, "undeleted" when the deletion after
             \* its own failure failed, else "none"

config == <<conf, inflight, attempts, sta, retry>>
outside == <<driver, results, joined>>
vars == <<conf, inflight, attempts, sta, retry, creds, loc, driver, results,
          applied, joined, tries, lapse>>
allvars == <<vars, polling>>

Threads == {"wq", "ev", "sys", "app"}
Configs == [ssid : Ssids, pass : Passes]
Go(t, l) == loc' = [loc EXCEPT ![t] = l]
NoCreds == [s \in Ssids |-> None]

\* What is left when wifi_credentials_delete_by_ssid has deleted the entry; an
\* empty SSID matches nothing.
Forget(c) == IF c = None THEN creds ELSE [creds EXCEPT ![c.ssid] = None]

Init ==
  /\ conf = None
  /\ inflight = None
  /\ attempts = 0
  /\ sta = "disconnected"
  /\ retry = "off"
  /\ creds = NoCreds
  /\ loc = [t \in Threads |-> "idle"]
  /\ driver = None
  /\ results = <<>>
  /\ polling \in {"no", "yes"}
  /\ applied = None
  /\ joined = {}
  /\ tries = 0
  /\ lapse = "none"

-----------------------------------------------------------------------------
\* final_failure: the state, then the deletion, which blocks; clear_inflight and
\* the WIFI_FAIL event come when it returns.
FinalFailure(t) == sta' = "failed" /\ Go(t, "delete")

\* Mutant: the failed credentials stay stored.
FailureKept(t) ==
  /\ loc[t] = "delete"
  /\ Go(t, "clear")
  /\ UNCHANGED <<config, creds, outside, applied, tries, lapse>>

\* The SSID is read when the deletion runs.
FailureDelete(t) ==
  /\ loc[t] = "delete"
  /\ \/ creds' = Forget(inflight) /\ lapse' = lapse
     \/ creds' = creds /\ lapse' = IF lapse = "none" THEN "undeleted" ELSE lapse
  /\ Go(t, "clear")
  /\ UNCHANGED <<config, outside, applied, tries>>

FailureClear(t) ==
  /\ loc[t] = "clear"
  /\ inflight' = None
  /\ Go(t, "idle")
  /\ UNCHANGED <<conf, attempts, sta, retry, creds, outside, applied, tries, lapse>>

\* NET_REQUEST_WIFI_CONNECT accepted: the driver replaces what it works on.
ConnectAccepted(c) ==
  /\ c # None
  /\ \E ok \in BOOLEAN : driver' = [conf |-> c, ok |-> ok]

-----------------------------------------------------------------------------
\* A polling client waits until the state is no longer connecting.
Quiet == polling = "yes" => sta # "connecting" /\ loc["wq"] = "idle" /\ loc["app"] = "idle"
ClientReady == loc["wq"] = "idle" /\ Quiet

\* .prov/config set: do_set.
Set(c) ==
  /\ loc["wq"] = "idle"
  /\ conf' = c
  /\ UNCHANGED <<inflight, attempts, sta, retry, creds, loc, outside, applied, tries, lapse>>

\* .prov/config apply: do_apply deletes the stored entry of the SSID, ...
ApplyDelete ==
  /\ ClientReady
  /\ conf # None
  /\ creds' \in {Forget(conf), creds}
  /\ Go("wq", "store")
  /\ UNCHANGED <<config, outside, applied, tries, lapse>>

\* ... stores the new one (an SSID cleared in the meantime is refused), ...
ApplyStore ==
  /\ loc["wq"] = "store"
  /\ conf # None
  /\ creds' = [creds EXCEPT ![conf.ssid] = conf.pass]
  /\ Go("wq", "connect")
  /\ applied' = conf
  /\ lapse' = IF \E t \in Threads : loc[t] \in {"delete", "clear"} THEN "overtook" ELSE "none"
  /\ UNCHANGED <<config, outside, tries>>

ApplyStoreFails ==
  /\ loc["wq"] = "store"
  /\ Go("wq", "idle")
  /\ applied' = None
  /\ UNCHANGED <<config, creds, outside, tries, lapse>>

\* ... takes the snapshot and connects.
Snapshot ==
  /\ loc["wq"] = "connect"
  /\ retry' = "off"
  /\ inflight' = conf
  /\ attempts' = 0
  /\ tries' = 1

ApplyConnect ==
  /\ Snapshot
  /\ ConnectAccepted(conf)
  /\ sta' = "connecting"
  /\ Go("wq", "idle")
  /\ UNCHANGED <<conf, creds, results, joined, applied, lapse>>

\* Mutant: the error of a synchronously rejected connect is ignored.
RejectionIgnored ==
  /\ Snapshot
  /\ sta' = "connecting"
  /\ Go("wq", "idle")
  /\ UNCHANGED <<conf, creds, outside, applied, lapse>>

ApplyRejected ==
  /\ Snapshot
  /\ FinalFailure("wq")
  /\ UNCHANGED <<conf, creds, outside, applied, lapse>>

-----------------------------------------------------------------------------
\* on_connect_result, on the net_mgmt thread.
NextResult == loc["ev"] = "idle" /\ results # <<>> /\ results' = Tail(results)

ResultStale ==
  /\ NextResult
  /\ inflight = None
  /\ UNCHANGED <<config, creds, loc, driver, joined, applied, tries, lapse>>

ResultSuccess ==
  /\ NextResult
  /\ inflight # None
  /\ Head(results).ok
  /\ sta' = "connected"
  /\ inflight' = None
  /\ UNCHANGED <<conf, attempts, retry, creds, loc, driver, joined, applied, tries, lapse>>

\* Mutant: one retry too many.
RetryLeftLate == MaxAttempts > 0 /\ attempts < MaxAttempts
RetryLeft == MaxAttempts > 0 /\ attempts + 1 < MaxAttempts
Counted == IF MaxAttempts > 0 THEN attempts + 1 ELSE attempts

ResultRetry ==
  /\ NextResult
  /\ inflight # None
  /\ ~Head(results).ok
  /\ RetryLeft
  /\ attempts' = Counted
  /\ sta' = "connecting"
  /\ retry' = "due"
  /\ UNCHANGED <<conf, inflight, creds, loc, driver, joined, applied, tries, lapse>>

ResultFailure ==
  /\ NextResult
  /\ inflight # None
  /\ ~Head(results).ok
  /\ ~RetryLeft
  /\ attempts' = Counted
  /\ FinalFailure("ev")
  /\ UNCHANGED <<conf, inflight, retry, creds, driver, joined, applied, tries, lapse>>

-----------------------------------------------------------------------------
\* retry_work_handler, on the system work queue.
RetryDue == loc["sys"] = "idle" /\ retry = "due" /\ retry' = "off"

RetryNothing ==
  /\ RetryDue
  /\ inflight = None
  /\ UNCHANGED <<conf, inflight, attempts, sta, creds, loc, outside, applied, tries, lapse>>

RetryConnect ==
  /\ RetryDue
  /\ ConnectAccepted(inflight)
  /\ tries' = tries + 1
  /\ UNCHANGED <<conf, inflight, attempts, sta, creds, loc, results, joined, applied, lapse>>

RetryRejected ==
  /\ RetryDue
  /\ inflight # None
  /\ tries' = tries + 1
  /\ FinalFailure("sys")
  /\ UNCHANGED <<conf, inflight, attempts, creds, outside, applied, lapse>>

-----------------------------------------------------------------------------
\* pouch_prov_wifi_config_reset: the tail of every reset.
ConfigReset ==
  /\ conf' = None
  /\ inflight' = None
  /\ attempts' = 0
  /\ sta' = "disconnected"
  /\ retry' = "off"
  /\ applied' = None /\ tries' = 0 /\ lapse' = "none"

\* .prov/ctrl reset keeps the stored credentials.
CtrlReset ==
  /\ ClientReady
  /\ ConfigReset
  /\ UNCHANGED <<creds, loc, outside>>

\* .prov/ctrl reprovision and pouch_prov_mgr_reset wipe them first; entries whose
\* deletion fails are left.
ReprovisionWipe(t) ==
  /\ t \in {"wq", "app"}
  /\ loc[t] = "idle"
  /\ Quiet
  /\ \E left \in SUBSET Ssids : creds' = [n \in Ssids |-> IF n \in left THEN creds[n] ELSE None]
  /\ Go(t, "reset")
  /\ UNCHANGED <<config, outside, applied, tries, lapse>>

ReprovisionReset(t) ==
  /\ loc[t] = "reset"
  /\ ConfigReset
  /\ Go(t, "idle")
  /\ UNCHANGED <<creds, outside>>

-----------------------------------------------------------------------------
\* Mutant: a connect that fails is not reported.
DriverReportsSuccess ==
  /\ driver # None
  /\ driver.ok
  /\ Len(results) < MaxEvents
  /\ results' = Append(results, driver)
  /\ joined' = joined \union {driver.conf}
  /\ driver' = None
  /\ UNCHANGED <<config, creds, loc, applied, tries, lapse>>

\* connect_work_fn of the driver: the outcome is queued for the net_mgmt
\* thread.
DriverDone ==
  /\ driver # None
  /\ Len(results) < MaxEvents
  /\ results' = Append(results, driver)
  /\ joined' = IF driver.ok THEN joined \union {driver.conf} ELSE joined
  /\ driver' = None
  /\ UNCHANGED <<config, creds, loc, applied, tries, lapse>>

\* Only the stored credentials survive a reboot.
Reboot ==
  /\ ConfigReset
  /\ loc' = [t \in Threads |-> "idle"]
  /\ driver' = None
  /\ results' = <<>>
  /\ UNCHANGED <<creds, joined>>

-----------------------------------------------------------------------------
OnResult == ResultStale \/ ResultSuccess \/ ResultRetry \/ ResultFailure
OnRetry == RetryNothing \/ RetryConnect \/ RetryRejected
ApplyRest == ApplyStore \/ ApplyStoreFails \/ ApplyConnect \/ ApplyRejected

Step ==
  \/ \E c \in Configs : Set(c)
  \/ ApplyDelete
  \/ ApplyRest
  \/ CtrlReset
  \/ \E t \in Threads :
       ReprovisionWipe(t) \/ ReprovisionReset(t) \/ FailureDelete(t) \/ FailureClear(t)
  \/ OnResult
  \/ OnRetry
  \/ DriverDone
  \/ Reboot

Next == Step /\ UNCHANGED polling

Spec == Init /\ [][Next]_allvars

\* Threads that have begun go on, the driver answers, queued events and due
\* work items are run.
Fairness ==
  /\ WF_vars(ApplyRest)
  /\ \A t \in Threads :
       WF_vars(FailureDelete(t)) /\ WF_vars(FailureClear(t)) /\ WF_vars(ReprovisionReset(t))
  /\ WF_vars(OnResult)
  /\ WF_vars(OnRetry)
  /\ WF_vars(DriverDone)

FairSpec == Spec /\ Fairness

-----------------------------------------------------------------------------
Outcomes == [conf : Configs, ok : BOOLEAN]

\* The types of the configuration's, the threads' and the driver's state; the
\* attempt counter never passes its limit (wifi_config.c:155-158).
TypeOK ==
  /\ conf \in Configs \union {None}
  /\ inflight \in Configs \union {None}
  /\ attempts \in 0..MaxAttempts
  /\ sta \in {"disconnected", "connecting", "connected", "failed"}
  /\ retry \in {"off", "due"}
  /\ creds \in [Ssids -> Passes \union {None}]
  /\ loc \in [Threads -> {"idle", "store", "connect", "delete", "clear", "reset"}]
  /\ driver \in Outcomes \union {None}
  /\ results \in Seq(Outcomes)
  /\ applied \in Configs \union {None}
  /\ joined \subseteq Configs
  /\ tries \in Nat
  /\ lapse \in {"none", "overtook", "undeleted"}

\* An apply never asks the driver to connect more often than the configured
\* number of attempts, although stale results, retries that find the slot
\* reused and resets all touch the same counter (wifi_config.c:153-161).
AttemptsBounded ==
  inflight # None => tries <= IF MaxAttempts > 0 THEN MaxAttempts ELSE 1

\* An attempt in flight is never orphaned: the driver works on it, its result
\* is queued, a retry is due, or a thread is about to clear it.  Whatever
\* order the four threads take, something will still end it
\* (wifi_config.c:131-134, 156-162, 289-297).
InflightIsAlive ==
  inflight # None =>
    \/ driver # None
    \/ results # <<>>
    \/ retry = "due"
    \/ \E t \in Threads : loc[t] \in {"delete", "clear"}

\* The state reported to a client that polls tells the truth about the store:
\* "failed" means the applied credentials are gone unless their deletion itself
\* failed, "connected" that they are stored and have joined a network
\* (wifi_config.c:119-121, 147).  An apply that overtook the end of an earlier
\* failure is left out: that failure may delete or forget what it stored.
StateIsTrue ==
  polling = "yes" /\ applied # None /\ (\A t \in Threads : loc[t] = "idle") =>
    /\ sta = "failed" /\ lapse = "none" => creds[applied.ssid] = None
    /\ sta = "connected" /\ lapse # "overtook" =>
         creds[applied.ssid] = applied.pass /\ applied \in joined

\* wifi_config.c:120: "A failed connect must not leave the device "provisioned"."
\* The code does not keep to it: see "What does not hold" in README.md.
FailedIsForgotten ==
  polling = "yes" /\ applied # None /\ sta = "failed" /\ (\A t \in Threads : loc[t] = "idle")
    => creds[applied.ssid] = None

\* The other half, without the exception: the network a polling client is told the
\* device has joined is the one it will boot with.
\* The code does not keep to it: see "What does not hold" in README.md.
ConnectedIsStored ==
  polling = "yes" /\ applied # None /\ sta = "connected" /\ (\A t \in Threads : loc[t] = "idle")
    => creds[applied.ssid] = applied.pass

\* With a client that polls every attempt ends: by success, by the last failure or
\* by a reset (wifi_config.c:121-162).
InflightSettles == polling = "yes" /\ inflight # None ~> inflight = None

\* docs/protocol.md:147-149: a client polls until the state is connected or
\* failed, so a state of connecting must not last.
\* The code does not keep to it: see "What does not hold" in README.md.
ConnectingSettles == polling = "yes" /\ sta = "connecting" ~> sta # "connecting"

\* docs/protocol.md:204: a failed connect deletes the just-stored credentials,
\* so the device never boots provisioned without a working network.
\* The code does not keep to it: see "What does not hold" in README.md.
BootsWithWorkingNetwork ==
  [][Reboot => \A c \in Configs : creds[c.ssid] = c.pass => c \in joined]_vars
=============================================================================
