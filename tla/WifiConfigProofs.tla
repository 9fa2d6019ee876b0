-------------------------- MODULE WifiConfigProofs --------------------------
(***************************************************************************)
(* Proofs about WifiConfig, for every set of networks, every configured    *)
(* number of attempts and every bound on queued results.                   *)
(***************************************************************************)
EXTENDS WifiConfig, TLAPS

\* Neither the type of the attempt counter nor the bound on connect requests
\* is inductive.  While an attempt is in flight and the result callback is
\* not ending it, a retry is left; the requests made are at most one more
\* than the attempts completed; and a due retry still has its request to make.
AttemptsInv ==
  /\ MaxAttempts > 0 /\ inflight # None /\ loc["ev"] \notin {"delete", "clear"} =>
       attempts < MaxAttempts
  /\ inflight # None => tries <= attempts + 1
  /\ inflight # None /\ retry = "due" => tries <= attempts /\ tries < MaxAttempts

IInv == TypeOK /\ AttemptsInv /\ AttemptsBounded

\* The configurations and None are told apart.
LEMMA ConfigType ==
  ASSUME NEW c \in Configs PROVE c.ssid \in Ssids /\ c.pass \in Passes /\ c # None
  BY NoneAssumption DEF Configs

\* A connect the driver works on is not None.
LEMMA DriverNotNone ==
  ASSUME NEW c \in Configs, NEW ok \in BOOLEAN
  PROVE  [conf |-> c, ok |-> ok] # None
  BY NoneAssumption DEF Configs

\* Deleting by SSID leaves a credential storage.
LEMMA ForgetType ==
  ASSUME TypeOK, NEW c \in Configs \union {None}
  PROVE  Forget(c) \in [Ssids -> Passes \union {None}]
  BY DEF Forget, TypeOK

\* The initial state satisfies the inductive invariant.
LEMMA InitIInv == Init => IInv
<1> SUFFICES ASSUME Init PROVE IInv
  OBVIOUS
<1>1. TypeOK
  BY BoundAssumption DEF Init, TypeOK, NoCreds, Threads
<1> QED BY <1>1 DEF Init, IInv, AttemptsInv, AttemptsBounded

\* What an accepted connect leaves in the driver has its type.
LEMMA ConnectType ==
  ASSUME TypeOK, NEW c \in Configs \union {None}, ConnectAccepted(c)
  PROVE  driver' \in Outcomes \union {None}
  BY DEF ConnectAccepted, Outcomes

\* Taking one result off the queue leaves a queue.
LEMMA ResultType ==
  ASSUME TypeOK, NextResult
  PROVE  results' \in Seq(Outcomes)
  BY DEF NextResult, TypeOK

\* Types are preserved by every step, given the bound on the counter.
LEMMA TypeStep == IInv /\ [Step]_vars => TypeOK'
<1> SUFFICES ASSUME IInv, [Step]_vars PROVE TypeOK'
  OBVIOUS
<1> USE DEF IInv
<1>0. TypeOK
  OBVIOUS
<1>1. ASSUME NEW c \in Configs, Set(c) PROVE TypeOK'
  BY <1>0, <1>1 DEF Set, TypeOK, outside
<1>2. CASE ApplyDelete
  BY <1>0, <1>2, ForgetType DEF ApplyDelete, TypeOK, config, outside, Go, Threads
<1>3. CASE ApplyStore
  <2>1. conf \in Configs
    BY <1>0, <1>3 DEF ApplyStore, TypeOK
  <2>2. [creds EXCEPT ![conf.ssid] = conf.pass] \in [Ssids -> Passes \union {None}]
    BY <1>0, <2>1, ConfigType DEF TypeOK
  <2> QED BY <1>0, <1>3, <2>1, <2>2 DEF ApplyStore, TypeOK, config, outside, Go, Threads
<1>4. CASE ApplyStoreFails
  BY <1>0, <1>4 DEF ApplyStoreFails, TypeOK, config, outside, Go, Threads
<1>5. CASE ApplyConnect
  <2>1. driver' \in Outcomes \union {None}
    BY <1>0, <1>5, ConnectType DEF ApplyConnect, TypeOK
  <2> QED BY <1>0, <1>5, <2>1, BoundAssumption DEF ApplyConnect, Snapshot, TypeOK, Go, Threads
<1>6. CASE ApplyRejected
  BY <1>0, <1>6, BoundAssumption
  DEF ApplyRejected, Snapshot, FinalFailure, TypeOK, outside, Go, Threads
<1>7. CASE CtrlReset
  BY <1>0, <1>7, BoundAssumption DEF CtrlReset, ConfigReset, TypeOK, outside
<1>8. ASSUME NEW t \in Threads, ReprovisionWipe(t) PROVE TypeOK'
  BY <1>0, <1>8 DEF ReprovisionWipe, TypeOK, config, outside, Go
<1>9. ASSUME NEW t \in Threads, ReprovisionReset(t) PROVE TypeOK'
  BY <1>0, <1>9, BoundAssumption DEF ReprovisionReset, ConfigReset, TypeOK, outside, Go
<1>10. ASSUME NEW t \in Threads, FailureClear(t) PROVE TypeOK'
  BY <1>0, <1>10 DEF FailureClear, TypeOK, outside, Go
<1>21. ASSUME NEW t \in Threads, FailureDelete(t) PROVE TypeOK'
  <2>1. creds' \in [Ssids -> Passes \union {None}]
    BY <1>0, <1>21, ForgetType DEF FailureDelete, TypeOK
  <2> QED BY <1>0, <1>21, <2>1 DEF FailureDelete, TypeOK, config, outside, Go
<1>11. CASE ResultStale
  BY <1>0, <1>11, ResultType DEF ResultStale, TypeOK, config
<1>12. CASE ResultSuccess
  BY <1>0, <1>12, ResultType DEF ResultSuccess, TypeOK
<1>13. CASE ResultRetry
  BY <1>0, <1>13, ResultType, BoundAssumption DEF ResultRetry, RetryLeft, Counted, TypeOK
<1>14. CASE ResultFailure
  <2>1. Counted \in 0..MaxAttempts
    BY <1>0, <1>14, BoundAssumption
    DEF ResultFailure, NextResult, AttemptsInv, Counted, TypeOK, Threads
  <2> QED BY <1>0, <1>14, <2>1, ResultType
          DEF ResultFailure, FinalFailure, TypeOK, Go, Threads
<1>15. CASE RetryNothing
  BY <1>0, <1>15 DEF RetryNothing, RetryDue, TypeOK, outside
<1>16. CASE RetryConnect
  <2>1. driver' \in Outcomes \union {None}
    BY <1>0, <1>16, ConnectType DEF RetryConnect, TypeOK
  <2> QED BY <1>0, <1>16, <2>1 DEF RetryConnect, RetryDue, TypeOK
<1>17. CASE RetryRejected
  BY <1>0, <1>17 DEF RetryRejected, RetryDue, FinalFailure, TypeOK, outside, Go, Threads
<1>18. CASE DriverDone
  BY <1>0, <1>18 DEF DriverDone, TypeOK, config, Outcomes
<1>19. CASE Reboot
  BY <1>0, <1>19, BoundAssumption DEF Reboot, ConfigReset, TypeOK, Threads
<1>20. CASE UNCHANGED vars
  BY <1>0, <1>20 DEF vars, TypeOK
<1> QED
  BY <1>1, <1>2, <1>3, <1>4, <1>5, <1>6, <1>7, <1>8, <1>9, <1>10, <1>11, <1>12, <1>13,
     <1>14, <1>15, <1>16, <1>17, <1>18, <1>19, <1>20, <1>21
  DEF Step, ApplyRest, OnResult, OnRetry

\* A step that leaves the snapshot, the counters and the retry alone, or drops
\* the snapshot, keeps the attempt invariant.
LEMMA AttemptsKept ==
  ASSUME IInv, TypeOK', inflight' = None \/ inflight' = inflight,
         inflight' # None => /\ attempts' = attempts /\ tries' = tries
                             /\ retry' = retry \/ retry' = "off"
                             /\ loc["ev"] \in {"delete", "clear"} =>
                                  loc'["ev"] \in {"delete", "clear"}
  PROVE  AttemptsInv' /\ AttemptsBounded'
  BY DEF IInv, AttemptsInv, AttemptsBounded

\* The attempt invariant is preserved by every step.
LEMMA AttemptsStep == IInv /\ [Step]_vars => AttemptsInv' /\ AttemptsBounded'
<1> SUFFICES ASSUME IInv, [Step]_vars PROVE AttemptsInv' /\ AttemptsBounded'
  OBVIOUS
<1>0. TypeOK /\ TypeOK'
  BY TypeStep DEF IInv
<1>1. ASSUME NEW c \in Configs, Set(c) PROVE AttemptsInv' /\ AttemptsBounded'
  BY <1>0, <1>1, AttemptsKept DEF Set
<1>2. CASE ApplyDelete \/ ApplyStore \/ ApplyStoreFails
  <2>1. UNCHANGED config /\ tries' = tries /\ loc'["ev"] = loc["ev"]
    BY <1>0, <1>2 DEF ApplyDelete, ApplyStore, ApplyStoreFails, Go, Threads, TypeOK
  <2> QED BY <1>0, <2>1, AttemptsKept DEF config
<1>3. CASE ApplyConnect \/ ApplyRejected
  <2>1. attempts' = 0 /\ tries' = 1 /\ retry' = "off"
    BY <1>3 DEF ApplyConnect, ApplyRejected, Snapshot
  <2> QED BY <2>1, BoundAssumption DEF AttemptsInv, AttemptsBounded
<1>4. CASE CtrlReset \/ Reboot
  BY <1>0, <1>4, AttemptsKept DEF CtrlReset, Reboot, ConfigReset
<1>5. ASSUME NEW t \in Threads, ReprovisionWipe(t) PROVE AttemptsInv' /\ AttemptsBounded'
  BY <1>0, <1>5, AttemptsKept DEF ReprovisionWipe, config, Go, TypeOK, Threads
<1>6. ASSUME NEW t \in Threads, ReprovisionReset(t) PROVE AttemptsInv' /\ AttemptsBounded'
  BY <1>0, <1>6, AttemptsKept DEF ReprovisionReset, ConfigReset
<1>7. ASSUME NEW t \in Threads, FailureClear(t) PROVE AttemptsInv' /\ AttemptsBounded'
  BY <1>0, <1>7, AttemptsKept DEF FailureClear
<1>15. ASSUME NEW t \in Threads, FailureDelete(t) PROVE AttemptsInv' /\ AttemptsBounded'
  BY <1>0, <1>15, AttemptsKept DEF FailureDelete, config, Go, TypeOK, Threads
<1>8. CASE ResultStale \/ ResultSuccess
  BY <1>0, <1>8, AttemptsKept DEF ResultStale, ResultSuccess, config
<1>9. CASE ResultRetry
  <2>1. /\ attempts' = attempts + 1 /\ attempts + 1 < MaxAttempts /\ UNCHANGED <<tries, inflight>>
        /\ inflight # None
    BY <1>9 DEF ResultRetry, RetryLeft, Counted
  <2>2. tries <= attempts + 1
    BY <2>1 DEF IInv, AttemptsInv
  <2> QED BY <1>0, <2>1, <2>2, BoundAssumption DEF AttemptsInv, AttemptsBounded, TypeOK
<1>10. CASE ResultFailure
  <2>1. /\ attempts' \in {attempts, attempts + 1} /\ UNCHANGED <<tries, inflight, retry>>
        /\ loc'["ev"] = "delete"
    BY <1>0, <1>10 DEF ResultFailure, Counted, FinalFailure, Go, Threads, TypeOK
  <2>2. attempts \in Nat /\ tries \in Nat /\ attempts' \in Nat /\ attempts <= attempts'
    BY <1>0, <2>1, BoundAssumption DEF TypeOK
  <2>3. inflight # None => tries <= attempts' + 1
    <3>1. inflight # None => tries <= attempts + 1
      BY DEF IInv, AttemptsInv
    <3>2. \A a, b, n \in Nat : a <= b /\ n <= a + 1 => n <= b + 1
      OBVIOUS
    <3> QED BY <2>2, <3>1, <3>2
  <2>4. inflight # None /\ retry = "due" => tries <= attempts' /\ tries < MaxAttempts
    BY <2>2 DEF IInv, AttemptsInv
  <2>5. AttemptsInv'
    BY <2>1, <2>3, <2>4 DEF AttemptsInv
  <2> QED BY <2>1, <2>5 DEF IInv, AttemptsBounded
<1>11. CASE RetryNothing
  BY <1>0, <1>11, AttemptsKept DEF RetryNothing, RetryDue
<1>12. CASE RetryConnect \/ RetryRejected
  <2>1. /\ inflight # None /\ tries' = tries + 1 /\ UNCHANGED <<inflight, attempts>>
        /\ retry = "due" /\ retry' = "off" /\ loc'["ev"] = loc["ev"]
    BY <1>0, <1>12 DEF RetryConnect, RetryRejected, RetryDue, ConnectAccepted, FinalFailure, Go,
                       Threads, TypeOK
  <2>2. tries <= attempts /\ tries < MaxAttempts
    BY <2>1 DEF IInv, AttemptsInv
  <2>3. attempts \in Nat /\ tries \in Nat /\ MaxAttempts \in Nat
    BY <1>0, BoundAssumption DEF TypeOK
  <2>4. tries' <= attempts' + 1 /\ tries' <= MaxAttempts /\ MaxAttempts > 0
    BY <2>1, <2>2, <2>3
  <2>5. AttemptsInv'
    BY <2>1, <2>4 DEF IInv, AttemptsInv
  <2> QED BY <2>4, <2>5 DEF AttemptsBounded
<1>13. CASE DriverDone
  BY <1>0, <1>13, AttemptsKept DEF DriverDone, config
<1>14. CASE UNCHANGED vars
  BY <1>0, <1>14, AttemptsKept DEF vars
<1> QED
  BY <1>1, <1>2, <1>3, <1>4, <1>5, <1>6, <1>7, <1>8, <1>9, <1>10, <1>11, <1>12, <1>13, <1>14,
     <1>15
  DEF Step, ApplyRest, OnResult, OnRetry

\* How the client behaves is settled at the start and changes no step.
LEMMA StepOfNext == [Next]_allvars => [Step]_vars
  BY DEF Next, allvars

\* The inductive invariant holds in every reachable state.
THEOREM Inductive == Spec => []IInv
<1>1. Init => IInv
  BY InitIInv
<1>2. IInv /\ [Next]_allvars => IInv'
  BY StepOfNext, TypeStep, AttemptsStep DEF IInv
<1> QED BY <1>1, <1>2, PTL DEF Spec

\* Types hold in every reachable state; in particular attempts_completed never
\* passes attempts_max (wifi_config.c:153-156).
THEOREM TypeCorrect == Spec => []TypeOK
<1>1. IInv => TypeOK
  BY DEF IInv
<1> QED BY <1>1, Inductive, PTL

\* However results, retries, resets and new applies interleave, one apply makes
\* at most wifi_conn_attempts connect requests (wifi_config.c:153-161).
THEOREM AttemptsCorrect == Spec => []AttemptsBounded
<1>1. IInv => AttemptsBounded
  BY DEF IInv
<1> QED BY <1>1, Inductive, PTL

-----------------------------------------------------------------------------
\* No step orphans an attempt in flight.
LEMMA AliveStep == TypeOK /\ InflightIsAlive /\ [Step]_vars => InflightIsAlive'
<1> SUFFICES ASSUME TypeOK, InflightIsAlive, [Step]_vars PROVE InflightIsAlive'
  OBVIOUS
<1> USE DEF InflightIsAlive
<1>1. ASSUME NEW c \in Configs, Set(c) PROVE InflightIsAlive'
  BY <1>1 DEF Set, outside
<1>2. CASE ApplyDelete \/ ApplyStore \/ ApplyStoreFails
  <2>1. /\ UNCHANGED <<inflight, retry, driver, results>>
        /\ loc["wq"] \notin {"delete", "clear"} /\ \A t \in Threads \ {"wq"} : loc'[t] = loc[t]
    BY <1>2 DEF ApplyDelete, ClientReady, ApplyStore, ApplyStoreFails, config, outside, Go, TypeOK
  <2> QED BY <2>1
<1>3. CASE ApplyConnect
  <2>1. \E ok \in BOOLEAN : driver' = [conf |-> conf, ok |-> ok] /\ conf \in Configs
    BY <1>3 DEF ApplyConnect, ConnectAccepted, TypeOK
  <2>2. driver' # None
    BY <2>1, DriverNotNone
  <2> QED BY <2>2
<1>4. CASE ApplyRejected
  BY <1>4 DEF ApplyRejected, FinalFailure, Go, TypeOK, Threads
<1>5. CASE CtrlReset \/ Reboot
  BY <1>5 DEF CtrlReset, Reboot, ConfigReset
<1>6. ASSUME NEW t \in Threads, ReprovisionWipe(t) PROVE InflightIsAlive'
  <2>1. /\ UNCHANGED <<inflight, retry, driver, results>>
        /\ loc[t] \notin {"delete", "clear"} /\ \A u \in Threads \ {t} : loc'[u] = loc[u]
    BY <1>6 DEF ReprovisionWipe, config, outside, Go, TypeOK
  <2> QED BY <2>1
<1>7. ASSUME NEW t \in Threads, ReprovisionReset(t) \/ FailureClear(t) PROVE InflightIsAlive'
  BY <1>7 DEF ReprovisionReset, ConfigReset, FailureClear
<1>15. ASSUME NEW t \in Threads, FailureDelete(t) PROVE InflightIsAlive'
  BY <1>15 DEF FailureDelete, Go, TypeOK
<1>8. CASE ResultStale \/ ResultSuccess \/ ResultRetry
  BY <1>8 DEF ResultStale, ResultSuccess, ResultRetry, config
<1>9. CASE ResultFailure
  BY <1>9 DEF ResultFailure, FinalFailure, Go, TypeOK, Threads
<1>10. CASE RetryNothing
  BY <1>10 DEF RetryNothing
<1>11. CASE RetryConnect
  <2>1. \E ok \in BOOLEAN : driver' = [conf |-> inflight, ok |-> ok] /\ inflight \in Configs
    BY <1>11 DEF RetryConnect, ConnectAccepted, TypeOK
  <2>2. driver' # None
    BY <2>1, DriverNotNone
  <2> QED BY <2>2
<1>12. CASE RetryRejected
  BY <1>12 DEF RetryRejected, FinalFailure, Go, TypeOK, Threads
<1>13. CASE DriverDone
  BY <1>13 DEF DriverDone, TypeOK
<1>14. CASE UNCHANGED vars
  BY <1>14 DEF vars
<1> QED
  BY <1>1, <1>2, <1>3, <1>4, <1>5, <1>6, <1>7, <1>8, <1>9, <1>10, <1>11, <1>12, <1>13, <1>14,
     <1>15
  DEF Step, ApplyRest, OnResult, OnRetry

\* An attempt in flight always has something left that will end it, for every
\* interleaving of the four threads and every driver answer
\* (wifi_config.c:131-134, 156-162, 289-297).
THEOREM AliveCorrect == Spec => []InflightIsAlive
<1>1. Init => InflightIsAlive
  BY DEF Init, InflightIsAlive
<1>2. TypeOK /\ InflightIsAlive /\ [Next]_allvars => InflightIsAlive'
  BY StepOfNext, AliveStep
<1> QED BY <1>1, <1>2, TypeCorrect, PTL DEF Spec

-----------------------------------------------------------------------------
\* Why the state tells a polling client the truth.  The client and the
\* application take turns; while the state is not connecting nothing is left
\* of an earlier connect, and while it is there is one request, one result or
\* one retry; and what is being connected is the configuration last applied.
\* Unless that apply overtook the end of an earlier failure, its credentials stay
\* stored until it fails, and the one thread that ends the failure finds them.
Turns ==
  /\ loc["app"] # "idle" => loc["wq"] = "idle"
  /\ loc["wq"] \in {"store", "connect", "reset"} \/ loc["app"] = "reset" => sta # "connecting"
  /\ loc["app"] \in {"idle", "reset"}
  /\ loc["ev"] \in {"idle", "delete", "clear"} /\ loc["sys"] \in {"idle", "delete", "clear"}

OneConnect ==
  /\ sta # "connecting" => driver = None /\ results = <<>> /\ retry = "off"
  /\ driver # None => results = <<>> /\ retry = "off"
  /\ retry = "due" => results = <<>>
  /\ Len(results) <= 1

Kept == applied # None /\ creds[applied.ssid] = applied.pass

OfApplied ==
  /\ loc["wq"] = "connect" => applied # None /\ conf = applied /\ (lapse # "overtook" => Kept)
  /\ sta = "connecting" /\ inflight # None => inflight = applied /\ (lapse # "overtook" => Kept)
  /\ driver # None => driver.conf = applied
  /\ results # <<>> => Head(results).conf = applied /\ (Head(results).ok => applied \in joined)

Ending ==
  applied # None /\ lapse # "overtook" =>
    /\ \A t \in Threads : loc[t] \in {"delete", "clear"} =>
         /\ sta = "failed" /\ loc["wq"] # "connect"
         /\ loc[t] = "delete" => inflight = applied
         /\ \A u \in Threads \ {t} : loc[u] \notin {"delete", "clear"}
    /\ lapse = "undeleted" => sta = "failed" /\ loc["wq"] # "connect"

Truth ==
  applied # None =>
    /\ /\ sta = "failed" /\ lapse = "none" /\ loc["wq"] # "connect"
       /\ \A t \in Threads : loc[t] # "delete"
       => creds[applied.ssid] = None
    /\ /\ sta = "connected" /\ lapse # "overtook"
       /\ loc["wq"] \notin {"store", "connect", "reset"} /\ loc["app"] # "reset"
       => Kept /\ applied \in joined

PolledInv == Turns /\ OneConnect /\ OfApplied /\ Ending /\ Truth

\* Taking the only result leaves none.
LEMMA LastResult ==
  ASSUME NEW s \in Seq(Outcomes), s # <<>>, Len(s) <= 1
  PROVE  Tail(s) = <<>> /\ Head(s) \in Outcomes
  OBVIOUS

\* Forgetting a configuration deletes what is stored under its SSID, and
\* nothing that was deleted comes back.
LEMMA ForgetGone ==
  ASSUME TypeOK, NEW c \in Configs \union {None}
  PROVE  /\ c # None => Forget(c)[c.ssid] = None
         /\ \A n \in Ssids : creds[n] = None => Forget(c)[n] = None
  BY ConfigType DEF Forget, TypeOK

\* A reset leaves a device that is not connecting: there is nothing to tell.
LEMMA PolledReset ==
  ASSUME PolledInv, sta # "connecting", ConfigReset, UNCHANGED <<driver, results, joined>>,
         Turns', loc'["wq"] # "connect"
  PROVE  PolledInv'
<1>1. driver = None /\ results = <<>>
  BY DEF PolledInv, OneConnect
<1>2. OneConnect' /\ OfApplied' /\ Ending' /\ Truth'
  BY <1>1 DEF ConfigReset, OneConnect, OfApplied, Ending, Truth, PolledInv
<1> QED BY <1>2 DEF PolledInv

\* The last failure of an attempt at the applied configuration: nobody else is
\* ending a failure, unless the apply overtook one.
LEMMA PolledFailure ==
  ASSUME TypeOK, PolledInv, NEW t \in {"wq", "ev", "sys"}, applied # None, inflight' = applied,
         FinalFailure(t), loc[t] \in {"idle", "connect"},
         sta = "connecting" \/ loc["wq"] = "connect",
         t # "wq" => loc["wq"] \notin {"store", "connect"},
         t = "wq" => loc["app"] = "idle",
         driver' = None, results' = <<>>, retry' = "off",
         UNCHANGED <<creds, applied, joined, lapse>>
  PROVE  PolledInv'
<1>1. /\ sta' = "failed" /\ loc'[t] = "delete"
      /\ \A u \in Threads \ {t} : loc'[u] = loc[u]
  BY DEF FinalFailure, Go, TypeOK, Threads
<1>2. Turns'
  BY <1>1 DEF PolledInv, Turns, Threads
<1>3. OneConnect'
  BY <1>1 DEF OneConnect
<1>4. OfApplied'
  BY <1>1 DEF OfApplied, Threads
<1>5. lapse # "overtook" => lapse = "none" /\ \A u \in Threads : loc[u] \notin {"delete", "clear"}
  BY DEF PolledInv, Ending, TypeOK
<1>6. Ending'
  BY <1>1, <1>5 DEF Ending, Threads
<1>7. Truth'
  BY <1>1 DEF Truth, Threads
<1> QED BY <1>2, <1>3, <1>4, <1>6, <1>7 DEF PolledInv

\* The deletion after a failure, with either outcome.
LEMMA PolledDelete ==
  ASSUME TypeOK, PolledInv, NEW t \in Threads, FailureDelete(t) PROVE PolledInv'
<1>1. /\ loc[t] = "delete" /\ loc'[t] = "clear" /\ \A u \in Threads \ {t} : loc'[u] = loc[u]
      /\ UNCHANGED <<conf, inflight, sta, retry, driver, results, applied, joined>>
  BY DEF FailureDelete, config, outside, Go, TypeOK
<1>2. \/ creds' = Forget(inflight) /\ lapse' = lapse
      \/ creds' = creds /\ lapse' = IF lapse = "none" THEN "undeleted" ELSE lapse
  BY DEF FailureDelete
<1>3. Turns'
  BY <1>1 DEF PolledInv, Turns, Threads
<1>4. OneConnect'
  BY <1>1 DEF PolledInv, OneConnect
<1>5. lapse' = "overtook" <=> lapse = "overtook"
  BY <1>2
<1>6. CASE applied = None \/ lapse = "overtook"
  <2>1. OfApplied'
    BY <1>1, <1>5, <1>6 DEF PolledInv, OfApplied, Threads
  <2>2. Ending'
    BY <1>1, <1>5, <1>6 DEF Ending
  <2>3. Truth'
    BY <1>1, <1>5, <1>6 DEF Truth
  <2> QED BY <1>3, <1>4, <2>1, <2>2, <2>3 DEF PolledInv
<1>7. CASE applied # None /\ lapse # "overtook"
  <2>1. /\ sta = "failed" /\ loc["wq"] # "connect" /\ inflight = applied
        /\ \A u \in Threads \ {t} : loc[u] \notin {"delete", "clear"}
    BY <1>1, <1>7 DEF PolledInv, Ending
  <2>2. loc'["wq"] # "connect"
    BY <1>1, <2>1 DEF Threads
  <2>3. OfApplied'
    BY <1>1, <2>1, <2>2 DEF PolledInv, OfApplied
  <2>4. Ending'
    BY <1>1, <2>1, <2>2 DEF Ending
  <2>5. lapse' = "none" => creds'[applied.ssid] = None
    BY <1>2, <1>7, <2>1, ForgetGone DEF TypeOK
  <2>6. Truth'
    BY <1>1, <2>1, <2>5 DEF Truth
  <2> QED BY <1>3, <1>4, <2>3, <2>4, <2>6 DEF PolledInv
<1> QED BY <1>6, <1>7

\* The invariant is kept by every step, as long as the client polls.
LEMMA PolledStep == TypeOK /\ TypeOK' /\ polling = "yes" /\ PolledInv /\ [Step]_vars => PolledInv'
<1> SUFFICES ASSUME TypeOK, TypeOK', polling = "yes", PolledInv, [Step]_vars PROVE PolledInv'
  OBVIOUS
<1> USE DEF Threads
<1>1. ASSUME NEW c \in Configs, Set(c) PROVE PolledInv'
  <2>1. /\ UNCHANGED <<inflight, sta, retry, creds, loc, driver, results, applied, joined, lapse>>
        /\ loc["wq"] = "idle"
    BY <1>1 DEF Set, outside
  <2>2. Turns' /\ OneConnect' /\ OfApplied'
    BY <2>1 DEF PolledInv, Turns, OneConnect, OfApplied, Kept
  <2>3. Ending' /\ Truth'
    BY <2>1 DEF PolledInv, Ending, Truth, Kept
  <2> QED BY <2>2, <2>3 DEF PolledInv
<1>2. CASE ApplyDelete
  <2>1. /\ UNCHANGED <<conf, inflight, sta, retry, driver, results, applied, joined, lapse>>
        /\ loc["wq"] = "idle" /\ loc["app"] = "idle" /\ sta # "connecting"
        /\ loc'["wq"] = "store" /\ \A u \in Threads \ {"wq"} : loc'[u] = loc[u]
        /\ creds' \in {Forget(conf), creds}
    BY <1>2 DEF ApplyDelete, ClientReady, Quiet, config, outside, Go, TypeOK
  <2>2. \A n \in Ssids : creds[n] = None => creds'[n] = None
    BY <2>1, ForgetGone DEF TypeOK
  <2>3. Turns'
    BY <2>1 DEF PolledInv, Turns
  <2>4. OneConnect' /\ OfApplied'
    BY <2>1 DEF PolledInv, OneConnect, OfApplied
  <2>5. Ending'
    BY <2>1 DEF PolledInv, Ending
  <2>6. Truth'
    BY <2>1, <2>2, ConfigType DEF PolledInv, Truth, TypeOK
  <2> QED BY <2>3, <2>4, <2>5, <2>6 DEF PolledInv
<1>3. CASE ApplyStore
  <2>1. /\ UNCHANGED <<conf, inflight, sta, retry, driver, results, joined>>
        /\ loc["wq"] = "store" /\ conf \in Configs /\ applied' = conf /\ conf # None
        /\ loc'["wq"] = "connect" /\ \A u \in Threads \ {"wq"} : loc'[u] = loc[u]
        /\ creds' = [creds EXCEPT ![conf.ssid] = conf.pass]
    BY <1>3 DEF ApplyStore, config, outside, Go, TypeOK
  <2>2. sta # "connecting" /\ driver = None /\ results = <<>>
    BY <2>1 DEF PolledInv, Turns, OneConnect
  <2>3. Kept'
    BY <2>1, ConfigType DEF Kept, TypeOK
  <2>4. Turns'
    BY <2>1 DEF PolledInv, Turns
  <2>5. OneConnect' /\ OfApplied'
    BY <2>1, <2>2, <2>3 DEF PolledInv, OneConnect, OfApplied
  <2>6. lapse' # "overtook" =>
          lapse' = "none" /\ \A t \in Threads : loc[t] \notin {"delete", "clear"}
    BY <1>3 DEF ApplyStore
  <2>7. Ending'
    BY <2>1, <2>6 DEF Ending
  <2>8. Truth'
    BY <2>1 DEF Truth
  <2> QED BY <2>4, <2>5, <2>7, <2>8 DEF PolledInv
<1>4. CASE ApplyStoreFails
  <2>1. /\ UNCHANGED <<conf, inflight, sta, retry, driver, results, joined>>
        /\ loc["wq"] = "store" /\ applied' = None
        /\ loc'["wq"] = "idle" /\ \A u \in Threads \ {"wq"} : loc'[u] = loc[u]
    BY <1>4 DEF ApplyStoreFails, config, outside, Go, TypeOK
  <2>2. sta # "connecting" /\ driver = None /\ results = <<>>
    BY <2>1 DEF PolledInv, Turns, OneConnect
  <2>3. Turns'
    BY <2>1 DEF PolledInv, Turns
  <2>4. OneConnect' /\ OfApplied' /\ Ending' /\ Truth'
    BY <2>1, <2>2 DEF PolledInv, OneConnect, OfApplied, Ending, Truth
  <2> QED BY <2>3, <2>4 DEF PolledInv
<1>5. CASE ApplyConnect
  <2>1. /\ UNCHANGED <<conf, creds, results, applied, joined, lapse>>
        /\ loc["wq"] = "connect" /\ inflight' = conf /\ sta' = "connecting" /\ retry' = "off"
        /\ loc'["wq"] = "idle" /\ \A u \in Threads \ {"wq"} : loc'[u] = loc[u]
        /\ driver'.conf = conf
    BY <1>5 DEF ApplyConnect, Snapshot, ConnectAccepted, Go, TypeOK
  <2>2. results = <<>> /\ conf = applied /\ applied # None /\ (lapse # "overtook" => Kept)
    BY <2>1 DEF PolledInv, Turns, OneConnect, OfApplied
  <2>3. lapse # "overtook" =>
          lapse = "none" /\ \A u \in Threads : loc[u] \notin {"delete", "clear"}
    BY <2>1, <2>2 DEF PolledInv, Ending, TypeOK
  <2>4. Turns'
    BY <2>1 DEF PolledInv, Turns
  <2>5. OneConnect' /\ OfApplied' /\ Truth'
    BY <2>1, <2>2 DEF OneConnect, OfApplied, Truth, Kept
  <2>6. Ending'
    BY <2>1, <2>3 DEF Ending
  <2> QED BY <2>4, <2>5, <2>6 DEF PolledInv
<1>6. CASE ApplyRejected
  <2>1. /\ loc["wq"] = "connect" /\ FinalFailure("wq") /\ retry' = "off" /\ inflight' = conf
        /\ UNCHANGED <<creds, driver, results, applied, joined, lapse>>
    BY <1>6 DEF ApplyRejected, Snapshot, outside
  <2>2. driver = None /\ results = <<>> /\ applied # None /\ conf = applied /\ loc["app"] = "idle"
    BY <2>1 DEF PolledInv, Turns, OneConnect, OfApplied
  <2> QED BY <2>1, <2>2, PolledFailure
<1>7. CASE CtrlReset
  <2>1. /\ sta # "connecting" /\ ConfigReset /\ loc' = loc /\ loc["wq"] = "idle"
        /\ UNCHANGED <<driver, results, joined>>
    BY <1>7 DEF CtrlReset, ClientReady, Quiet, outside
  <2>2. Turns'
    BY <2>1 DEF PolledInv, Turns, ConfigReset
  <2> QED BY <2>1, <2>2, PolledReset
<1>8. ASSUME NEW t \in Threads, ReprovisionWipe(t) PROVE PolledInv'
  <2>1. /\ sta # "connecting" /\ loc["wq"] = "idle" /\ loc["app"] = "idle" /\ t \in {"wq", "app"}
        /\ loc'[t] = "reset" /\ \A u \in Threads \ {t} : loc'[u] = loc[u]
        /\ UNCHANGED <<conf, inflight, sta, retry, driver, results, applied, joined, lapse>>
    BY <1>8 DEF ReprovisionWipe, Quiet, config, outside, Go, TypeOK
  <2>2. \A n \in Ssids : creds[n] = None => creds'[n] = None
    BY <1>8 DEF ReprovisionWipe
  <2>3. Turns'
    BY <2>1 DEF PolledInv, Turns
  <2>4. driver = None /\ results = <<>>
    BY <2>1 DEF PolledInv, OneConnect
  <2>5. OneConnect' /\ OfApplied'
    BY <2>1, <2>4 DEF PolledInv, OneConnect, OfApplied
  <2>6. Ending'
    BY <2>1 DEF PolledInv, Ending
  <2>7. Truth'
    BY <2>1, <2>2, ConfigType DEF PolledInv, Truth, TypeOK
  <2> QED BY <2>3, <2>5, <2>6, <2>7 DEF PolledInv
<1>9. ASSUME NEW t \in Threads, ReprovisionReset(t) PROVE PolledInv'
  <2>1. /\ loc[t] = "reset" /\ loc'[t] = "idle" /\ \A u \in Threads \ {t} : loc'[u] = loc[u]
        /\ ConfigReset /\ UNCHANGED <<driver, results, joined>>
    BY <1>9 DEF ReprovisionReset, outside, Go, TypeOK
  <2>2. sta # "connecting" /\ loc'["wq"] = "idle"
    BY <2>1 DEF PolledInv, Turns
  <2>3. Turns'
    BY <2>1, <2>2 DEF PolledInv, Turns
  <2> QED BY <2>1, <2>2, <2>3, PolledReset
<1>10. ASSUME NEW t \in Threads, FailureClear(t) PROVE PolledInv'
  <2>1. /\ loc[t] = "clear" /\ loc'[t] = "idle" /\ \A u \in Threads \ {t} : loc'[u] = loc[u]
        /\ UNCHANGED <<conf, sta, retry, creds, driver, results, applied, joined, lapse>>
        /\ inflight' = None
    BY <1>10 DEF FailureClear, outside, Go, TypeOK
  <2>2. Turns' /\ OneConnect' /\ OfApplied'
    BY <2>1 DEF PolledInv, Turns, OneConnect, OfApplied, Kept
  <2>3. applied # None /\ lapse # "overtook" =>
          \A u \in Threads \ {t} : loc[u] \notin {"delete", "clear"}
    BY <2>1 DEF PolledInv, Ending
  <2>4. Ending'
    BY <2>1, <2>3 DEF PolledInv, Ending
  <2>5. Truth'
    BY <2>1 DEF PolledInv, Truth, Turns, Kept
  <2> QED BY <2>2, <2>4, <2>5 DEF PolledInv
<1>16. ASSUME NEW t \in Threads, FailureDelete(t) PROVE PolledInv'
  BY <1>16, PolledDelete
<1>11. CASE OnResult
  <2>1. results # <<>> /\ results' = Tail(results) /\ loc["ev"] = "idle"
        /\ UNCHANGED <<driver, joined, applied, creds, lapse>>
    BY <1>11 DEF OnResult, ResultStale, ResultSuccess, ResultRetry, ResultFailure, NextResult
  <2>2. results' = <<>> /\ Head(results) \in Outcomes
    BY <2>1, LastResult DEF PolledInv, OneConnect, TypeOK
  <2>3. /\ driver = None /\ retry = "off" /\ sta = "connecting"
        /\ loc["wq"] \notin {"store", "connect"}
    BY <2>1 DEF PolledInv, OneConnect, Turns, TypeOK
  <2>4. CASE ResultStale
    <3>1. UNCHANGED <<conf, inflight, sta, retry, creds, loc>>
      BY <2>4 DEF ResultStale, config
    <3>2. Turns' /\ OneConnect' /\ OfApplied' /\ Truth'
      BY <2>1, <2>2, <2>3, <3>1 DEF PolledInv, Turns, OneConnect, OfApplied, Truth, Kept
    <3>3. Ending'
      BY <2>1, <2>3, <3>1 DEF PolledInv, Ending
    <3> QED BY <3>2, <3>3 DEF PolledInv
  <2>5. CASE ResultSuccess
    <3>1. /\ UNCHANGED <<conf, retry, creds, loc>> /\ inflight # None /\ Head(results).ok
          /\ sta' = "connected"
      BY <2>5 DEF ResultSuccess
    <3>2. (lapse # "overtook" => Kept) /\ applied \in joined /\ applied # None
      BY <2>1, <2>3, <3>1 DEF PolledInv, OfApplied
    <3>3. Turns' /\ OneConnect' /\ OfApplied'
      BY <2>1, <2>2, <2>3, <3>1 DEF PolledInv, Turns, OneConnect, OfApplied
    <3>4. Truth'
      BY <2>1, <3>1, <3>2 DEF Truth, Kept
    <3>5. Ending'
      BY <2>1, <2>3, <3>1, <3>2 DEF PolledInv, Ending
    <3> QED BY <3>3, <3>4, <3>5 DEF PolledInv
  <2>6. CASE ResultRetry
    <3>1. UNCHANGED <<conf, inflight, creds, loc>> /\ sta' = "connecting" /\ retry' = "due"
      BY <2>6 DEF ResultRetry
    <3>2. Turns' /\ OneConnect' /\ OfApplied' /\ Truth'
      BY <2>1, <2>2, <2>3, <3>1 DEF PolledInv, Turns, OneConnect, OfApplied, Truth, Kept
    <3>3. Ending'
      BY <2>1, <2>3, <3>1 DEF PolledInv, Ending
    <3> QED BY <3>2, <3>3 DEF PolledInv
  <2>7. CASE ResultFailure
    <3>1. inflight # None /\ FinalFailure("ev") /\ UNCHANGED <<retry, inflight>>
      BY <2>7 DEF ResultFailure
    <3>2. inflight = applied
      BY <2>3, <3>1 DEF PolledInv, OfApplied
    <3> QED BY <2>1, <2>2, <2>3, <3>1, <3>2, PolledFailure
  <2> QED BY <1>11, <2>4, <2>5, <2>6, <2>7 DEF OnResult
<1>12. CASE OnRetry
  <2>1. loc["sys"] = "idle" /\ retry = "due" /\ retry' = "off"
        /\ UNCHANGED <<results, joined, applied, creds, lapse>>
    BY <1>12 DEF OnRetry, RetryNothing, RetryConnect, RetryRejected, RetryDue, outside
  <2>2. /\ driver = None /\ results = <<>> /\ sta = "connecting"
        /\ loc["wq"] \notin {"store", "connect"}
    BY <2>1 DEF PolledInv, OneConnect, Turns
  <2>3. CASE RetryNothing
    <3>1. UNCHANGED <<conf, inflight, sta, creds, loc, driver>>
      BY <2>3 DEF RetryNothing, outside
    <3>2. Turns' /\ OneConnect' /\ OfApplied' /\ Truth'
      BY <2>1, <2>2, <3>1 DEF PolledInv, Turns, OneConnect, OfApplied, Truth, Kept
    <3>3. Ending'
      BY <2>1, <2>2, <3>1 DEF PolledInv, Ending
    <3> QED BY <3>2, <3>3 DEF PolledInv
  <2>4. CASE RetryConnect
    <3>1. UNCHANGED <<conf, inflight, sta, creds, loc>> /\ inflight # None /\ driver'.conf = inflight
      BY <2>4 DEF RetryConnect, ConnectAccepted
    <3>2. (lapse # "overtook" => Kept) /\ inflight = applied
      BY <2>2, <3>1 DEF PolledInv, OfApplied
    <3>3. Turns' /\ OneConnect' /\ OfApplied' /\ Truth'
      BY <2>1, <2>2, <3>1, <3>2 DEF PolledInv, Turns, OneConnect, OfApplied, Truth, Kept
    <3>4. Ending'
      BY <2>1, <2>2, <3>1 DEF PolledInv, Ending
    <3> QED BY <3>3, <3>4 DEF PolledInv
  <2>5. CASE RetryRejected
    <3>1. inflight # None /\ FinalFailure("sys") /\ UNCHANGED <<driver, inflight>>
      BY <2>5 DEF RetryRejected, outside
    <3>2. inflight = applied
      BY <2>2, <3>1 DEF PolledInv, OfApplied
    <3> QED BY <2>1, <2>2, <3>1, <3>2, PolledFailure
  <2> QED BY <1>12, <2>3, <2>4, <2>5 DEF OnRetry
<1>13. CASE DriverDone
  <2>1. /\ driver # None /\ results' = Append(results, driver) /\ driver' = None
        /\ joined' = IF driver.ok THEN joined \union {driver.conf} ELSE joined
        /\ UNCHANGED <<conf, inflight, sta, retry, creds, loc, applied, lapse>>
    BY <1>13 DEF DriverDone, config
  <2>2. results = <<>> /\ retry = "off" /\ sta = "connecting" /\ driver.conf = applied
    BY <2>1 DEF PolledInv, OneConnect, OfApplied
  <2>3. results' = <<driver>> /\ Len(results') = 1 /\ Head(results') = driver
    BY <2>1, <2>2
  <2>4. Turns' /\ OneConnect' /\ Truth'
    BY <2>1, <2>2, <2>3 DEF PolledInv, Turns, OneConnect, Truth
  <2>6. Ending'
    BY <2>1 DEF PolledInv, Ending
  <2>5. OfApplied'
    BY <2>1, <2>2, <2>3 DEF PolledInv, OfApplied, Kept
  <2> QED BY <2>4, <2>5, <2>6 DEF PolledInv
<1>14. CASE Reboot
  <2>1. /\ loc' = [t \in Threads |-> "idle"] /\ driver' = None /\ results' = <<>> /\ applied' = None
        /\ sta' = "disconnected" /\ retry' = "off"
    BY <1>14 DEF Reboot, ConfigReset
  <2>2. Turns' /\ OneConnect' /\ OfApplied' /\ Ending' /\ Truth'
    BY <2>1 DEF Turns, OneConnect, OfApplied, Ending, Truth
  <2> QED BY <2>2 DEF PolledInv
<1>15. CASE UNCHANGED vars
  BY <1>15 DEF vars, PolledInv, Turns, OneConnect, OfApplied, Ending, Truth, Kept
<1> QED
  BY <1>1, <1>2, <1>3, <1>4, <1>5, <1>6, <1>7, <1>8, <1>9, <1>10, <1>11, <1>12, <1>13, <1>14, <1>15,
     <1>16
  DEF Step, ApplyRest

\* What .prov/config reports to a client that polls is true of the credential
\* store and of the network, for every set of networks, number of attempts and
\* interleaving of the four threads, but where the deletion after the failure
\* failed or the apply overtook an earlier one (wifi_config.c:119-121, 147).
THEOREM StateCorrect == Spec => []StateIsTrue
<1> DEFINE Inv == polling = "yes" => PolledInv
<1>1. Init => Inv
  BY DEF Init, PolledInv, Turns, OneConnect, OfApplied, Ending, Truth, Threads
<1>2. TypeOK /\ TypeOK' /\ Inv /\ [Next]_allvars => Inv'
  <2>1. [Next]_allvars => polling' = polling
    BY DEF Next, allvars
  <2> QED BY <2>1, StepOfNext, PolledStep
<1>3. Inv => StateIsTrue
  BY DEF PolledInv, Truth, Kept, StateIsTrue, Threads
<1> HIDE DEF Inv
<1> QED BY <1>1, <1>2, <1>3, TypeCorrect, PTL DEF Spec
=============================================================================
