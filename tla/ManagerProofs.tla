--------------------------- MODULE ManagerProofs ---------------------------
(***************************************************************************)
(* Proofs about the device while it provisions: about Manager, for every   *)
(* number of runs, and about the endpoints it serves (Handlers), for every *)
(* codec, build and configuration.                                         *)
(*                                                                         *)
(* The codecs are taken as understood: the theorems about Handlers have as *)
(* premises what the properties of Messages say of them, and that the      *)
(* answers the device must always be able to give fit their buffers.       *)
(***************************************************************************)
EXTENDS Manager, Handlers, TLAPS

\* The state before the first start is well-typed.
LEMMA InitTypes == Init => TypeOK
  BY ManagerAssumption DEF Init, TypeOK, Stoppers

\* Types are preserved by every step.
LEMMA TypeStep == TypeOK /\ [Next]_vars => TypeOK'
<1> SUFFICES ASSUME TypeOK, [Next]_vars PROVE TypeOK'
  OBVIOUS
<1> USE ManagerAssumption DEF TypeOK, Stoppers, Go, At
<1>1. CASE Starting
  BY <1>1 DEF Starting, Start, StartReset, StartAdvertise, StartFails, Cancel
<1>2. CASE Wait \/ WaitReturns \/ QueueResponse
  BY <1>2 DEF Wait, WaitReturns, QueueResponse
<1>3. ASSUME NEW t \in Stoppers, StopBegin(t) \/ StopAlready(t) \/ StopFinish(t)
      PROVE  TypeOK'
  BY <1>3 DEF StopBegin, StopAlready, StopFinish, Cancel, After
<1>4. CASE Terminal \/ Reprovision \/ ManagerReset
  BY <1>4 DEF Terminal, Reprovision, ManagerReset
<1>5. CASE Host
  BY <1>5 DEF Host, Connected, Disconnected, Recycled, Resume, ResumeFails
<1>6. CASE UNCHANGED vars
  BY <1>6 DEF vars
<1> QED
  BY <1>1, <1>2, <1>3, <1>4, <1>5, <1>6 DEF Next, AppStop, CtrlEnd, Autostop

\* The types hold in every reachable state.
THEOREM TypeCorrect == Spec => []TypeOK
  BY InitTypes, TypeStep, PTL DEF Spec

-----------------------------------------------------------------------------
\* Whoever is in a blocking call of a stop has cleared the flag before.
AdvInv == TypeOK /\ AdvertisingFollowsRunning

\* The flag, the enabled bit and the radio keep step.
LEMMA AdvertisingStep == AdvInv /\ [Next]_vars => AdvertisingFollowsRunning'
<1> SUFFICES ASSUME AdvInv, [Next]_vars PROVE AdvertisingFollowsRunning'
  OBVIOUS
<1> USE DEF AdvInv, AdvertisingFollowsRunning, TypeOK, Go, At
<1>1. CASE Starting
  <2>1. \A t \in Stoppers : loc[t] = "silence" => loc'[t] = "silence"
    BY <1>1 DEF Starting, Start, StartReset, StartAdvertise, StartFails
  <2> QED
    BY <1>1, <2>1 DEF Starting, Start, StartReset, StartAdvertise, StartFails
<1>2. CASE Wait \/ WaitReturns \/ QueueResponse
  <2>1. \A t \in Stoppers : loc[t] = "silence" => loc'[t] = "silence"
    BY <1>2 DEF Wait, WaitReturns, QueueResponse
  <2> QED
    BY <1>2, <2>1 DEF Wait, WaitReturns, QueueResponse
<1>3. ASSUME NEW t \in Stoppers, StopBegin(t) PROVE AdvertisingFollowsRunning'
  BY <1>3 DEF StopBegin
<1>4. ASSUME NEW t \in Stoppers, StopAlready(t), loc[t] # "silence"
      PROVE  AdvertisingFollowsRunning'
  <2>1. \A u \in Stoppers : loc[u] = "silence" => loc'[u] = "silence"
    BY <1>4 DEF StopAlready
  <2> QED
    BY <1>4, <2>1 DEF StopAlready
<1>5. ASSUME NEW t \in Stoppers, StopFinish(t) PROVE AdvertisingFollowsRunning'
  BY <1>5 DEF StopFinish
<1>6. CASE Terminal \/ Reprovision \/ ManagerReset
  BY <1>6 DEF Terminal, Reprovision, ManagerReset
<1>7. CASE Host
  <2>1. \A t \in Stoppers : loc[t] = "silence" => loc'[t] = "silence"
    BY <1>7 DEF Host, Connected, Disconnected, Recycled, Resume, ResumeFails
  <2> QED
    BY <1>7, <2>1 DEF Host, Connected, Disconnected, Recycled, Resume, ResumeFails
<1>8. CASE UNCHANGED vars
  BY <1>8 DEF vars
<1> QED
  BY <1>1, <1>2, <1>3, <1>4, <1>5, <1>6, <1>7, <1>8
  DEF Next, AppStop, CtrlEnd, Autostop, Stoppers

\* Advertising is enabled exactly while the manager runs, and the radio outlasts
\* a finished stop only if the host would not stop it or a resume had looked before
\* the stop, for every interleaving of the threads that may stop the manager
\* (adv.c:82-127, manager.c:206-219).
THEOREM AdvertisingCorrect == Spec => []AdvertisingFollowsRunning
<1>1. Init => AdvertisingFollowsRunning
  BY DEF Init, AdvertisingFollowsRunning
<1> QED BY <1>1, AdvertisingStep, TypeCorrect, PTL DEF Spec, AdvInv

-----------------------------------------------------------------------------
\* A run is started only by the application, which has cancelled the auto-stop
\* by then, and nothing arms it while the manager is stopped.
ArmedInv ==
  /\ AutostopOfThisRun
  /\ loc["app"] \in {"load", "advertise"} => running = "no"
  /\ loc["app"] = "advertise" => autostop = "off"

\* Every step keeps the auto-stop timer with the run that armed it.
LEMMA ArmedStep == TypeOK /\ ArmedInv /\ [Next]_vars => ArmedInv'
<1> SUFFICES ASSUME TypeOK, ArmedInv, [Next]_vars PROVE ArmedInv'
  OBVIOUS
<1> USE DEF ArmedInv, AutostopOfThisRun, TypeOK, Go, At, Stoppers
<1>1. CASE Starting
  BY <1>1 DEF Starting, Start, StartReset, StartAdvertise, StartFails, Cancel
<1>2. CASE Wait \/ WaitReturns \/ QueueResponse
  BY <1>2 DEF Wait, WaitReturns, QueueResponse
<1>3. ASSUME NEW t \in Stoppers, StopBegin(t) PROVE ArmedInv'
  BY <1>3 DEF StopBegin, Cancel
<1>4. ASSUME NEW t \in Stoppers, StopAlready(t) \/ StopFinish(t) PROVE ArmedInv'
  <2>1. After(t) \notin {"load", "advertise"}
    BY DEF After
  <2> QED
    BY <1>4, <2>1 DEF StopAlready, StopFinish
<1>6. CASE Terminal \/ Reprovision \/ ManagerReset
  BY <1>6 DEF Terminal, Reprovision, ManagerReset
<1>7. CASE Host
  BY <1>7 DEF Host, Connected, Disconnected, Recycled, Resume, ResumeFails
<1>8. CASE UNCHANGED vars
  BY <1>8 DEF vars
<1> QED
  BY <1>1, <1>2, <1>3, <1>4, <1>6, <1>7, <1>8 DEF Next, AppStop, CtrlEnd, Autostop

\* An auto-stop that is armed in a run was armed by a terminal step of that run,
\* however runs, stops and resets follow one another (manager.c:44-63, 192, 213).
THEOREM AutostopCorrect == Spec => []AutostopOfThisRun
<1>1. Init => ArmedInv
  BY DEF Init, ArmedInv, AutostopOfThisRun, Stoppers
<1>2. ArmedInv => AutostopOfThisRun
  BY DEF ArmedInv
<1> QED BY <1>1, <1>2, ArmedStep, TypeCorrect, PTL DEF Spec

-----------------------------------------------------------------------------
\* An application that waits for the end of a run before it starts the next: a
\* stop under way keeps it out of mgr_start, the event is posted once the stop
\* is over, and mgr_start clears it.
RunInv ==
  /\ running = "yes" => /\ ended = "clear"
                        /\ loc["app"] \in {"started", "wait"}
                        /\ \A t \in Stoppers : loc[t] # "silence"
  /\ \A t \in Stoppers : loc[t] = "silence" =>
       /\ ended = "clear"
       /\ loc["app"] \in {"started", "wait", "silence"}
       /\ \A u \in Stoppers : loc[u] = "silence" => u = t
  /\ loc["app"] = "advertise" => ended = "clear"

\* Every step keeps the stop event with the run that ended.
LEMMA RunStep == ASSUME Waits PROVE TypeOK /\ RunInv /\ [Next]_vars => RunInv'
<1> SUFFICES ASSUME TypeOK, RunInv, [Next]_vars PROVE RunInv'
  OBVIOUS
<1> USE DEF RunInv, TypeOK, Go, At, Stoppers
<1>1. CASE Starting
  BY <1>1 DEF Starting, Start, StartReset, StartAdvertise, StartFails
<1>2. CASE Wait \/ WaitReturns \/ QueueResponse
  BY <1>2 DEF Wait, WaitReturns, QueueResponse
<1>3. ASSUME NEW t \in Stoppers, StopBegin(t), t = "app" => loc[t] = "started"
      PROVE  RunInv'
  BY <1>3 DEF StopBegin
<1>4. ASSUME NEW t \in Stoppers, StopAlready(t), loc[t] # "silence",
             t = "app" => loc[t] = "started"
      PROVE  RunInv'
  <2>1. /\ After(t) # "silence"
        /\ t = "app" => After(t) = "started"
    BY DEF After
  <2> QED
    BY <1>4, <2>1 DEF StopAlready
<1>5. ASSUME NEW t \in Stoppers, StopFinish(t) PROVE RunInv'
  <2>1. /\ After(t) # "silence"
        /\ t = "app" => After(t) = "started"
    BY DEF After
  <2> QED
    BY <1>5, <2>1 DEF StopFinish
<1>6. CASE Terminal \/ Reprovision \/ ManagerReset
  BY <1>6 DEF Terminal, Reprovision, ManagerReset
<1>7. CASE Host
  BY <1>7 DEF Host, Connected, Disconnected, Recycled, Resume, ResumeFails
<1>8. CASE UNCHANGED vars
  BY <1>8 DEF vars
<1> QED
  BY <1>1, <1>2, <1>3, <1>4, <1>5, <1>6, <1>7, <1>8 DEF Next, AppStop, CtrlEnd, Autostop

\* With an application that starts again only once mgr_wait has returned, the
\* event that ends its wait is never left over in a later run, for every
\* interleaving of the application, the end request and the auto-stop
\* (manager.c:193, 206-219, 244).
THEOREM EndedCorrect == ASSUME Waits PROVE Spec => []EndedIsStopped
<1>1. Init => RunInv
  BY DEF Init, RunInv, Stoppers
<1>2. TypeOK /\ RunInv => EndedIsStopped
  BY DEF TypeOK, RunInv, EndedIsStopped
<1>3. TypeOK /\ RunInv /\ [Next]_vars => RunInv'
  BY RunStep
<1> QED BY <1>1, <1>2, <1>3, TypeCorrect, PTL DEF Spec

-----------------------------------------------------------------------------
\* The endpoints: the call under way is one that the capabilities the client has read allow.
AskedInv ==
  pc # "idle" => call \in CallsWith(caps) /\ request \in Sends(call)

\* Every call is on the endpoint of its operation, which a capability names.
LEMMA CallShape ==
  ASSUME NEW names, NEW c \in CallsWith(names)
  PROVE  /\ c.path \in {"ver", "ctrl", "auth", "config", "scan", "cred"}
         /\ c.path = "ver" <=> c.choice = "ver_req"
         /\ c.path = "auth" => "auth" \in names
         /\ c.path = "config" => "wifi" \in names
         /\ c.path = "scan" => "scan" \in names
         /\ c.path = "cred" => "cred" \in names
         /\ c.path = "ctrl" => c.choice \in {"ctrl_reset", "ctrl_reprovision", "ctrl_end"}
         /\ c.choice \in {"ctrl_reset", "ctrl_reprovision", "ctrl_end"} => c.path = "ctrl"
         /\ c.choice = "config_set" => c.path = "config" /\ c.m.wifi_config \in Configs
  BY DEF CallsWith, NoArgs

\* With all capabilities a client makes every call there is.
LEMMA CallsMonotone ==
  ASSUME NEW names
  PROVE  CallsWith(names) \subseteq CallsWith({"auth", "wifi", "scan", "cred"})
  BY DEF CallsWith, NoArgs

\* A step of the device takes the call from "asked" to "answered".
LEMMA DeviceStep ==
  ASSUME TooLong \/ Unauthorized \/ Refused \/ Handle
  PROVE  Arrived
  BY DEF TooLong, Unauthorized, Refused, Handle, Dispatched, Handler, HandleVer,
       HandleAuth, HandleCtrl, ConfigGetStatus, ConfigSet, ConfigApply, ScanStart,
       ScanGetStatus, ScanGetResults, CredWrite, CredFinalize, CredGetStatus

\* The client reads capabilities only between calls.
LEMMA AskedStep ==
  ASSUME AskedInv, [CallNext]_callVars
  PROVE  AskedInv'
<1>1. CASE \E c \in Calls : Call(c)
  BY <1>1 DEF Call, Calls, AskedInv
<1>2. CASE pc = "asked" /\ UNCHANGED <<caps, call, request>>
  BY <1>2 DEF AskedInv
<1>3. CASE pc' = "idle"
  BY <1>3 DEF AskedInv
<1>4. CASE UNCHANGED callVars
  BY <1>4 DEF AskedInv, callVars
<1>5. ASSUME Arrived PROVE pc = "asked" /\ UNCHANGED <<caps, call, request>>
  BY <1>5 DEF Arrived
<1>7. CASE Receive \/ Reconnect
  BY <1>7, <1>3 DEF Receive, Reconnect
<1> QED BY <1>1, <1>2, <1>4, <1>5, <1>7, DeviceStep DEF CallNext

\* A handler that was given the call as it was meant runs the operation asked for.
LEMMA HandlesCall ==
  ASSUME AskedInv, RequestUnderstood', NEW p, p # "ver", Handler(p)
  PROVE  In = [choice |-> call.choice, m |-> call.m] /\ call.path = p
<1>1. pc = "asked" /\ call' = call /\ call.path = p /\ got' = In /\ read' = "handled"
  BY DEF Handler, Dispatched, Arrived
<1>2. call.choice # "ver_req"
  BY <1>1, CallShape DEF AskedInv
<1> QED BY <1>1, <1>2 DEF RequestUnderstood, Struct

\* A status answer says its status.
LEMMA StatusSaid ==
  ASSUME NEW op, NEW s, RespondStatus(op, s)
  PROVE  said' = [status |-> s, rsp |-> <<>>]
  BY DEF RespondStatus

\* A reply says the status of the response, or an internal error when the
\* response does not fit.
LEMMA ReplySaid ==
  ASSUME NEW reply, Reply(reply)
  PROVE  \/ said' = [status |-> IF call.path \in {"ver", "ctrl"} THEN reply.status ELSE reply.m.status,
                     rsp |-> reply]
         \/ said' = [status |-> 3, rsp |-> <<>>] /\ ~EncodesRsp(call.path, reply, MsgMax)
  BY StatusSaid DEF Reply, internal_error

\* What the device has staged once it has answered: the configuration of a call
\* it accepted, nothing after a reset, else what it had acknowledged before.
StagedInv ==
  LET accepted == pc = "answered" /\ said.status = 0
  IN wc = IF accepted /\ call.choice = "config_set" THEN Meant(call.m.wifi_config)
          ELSE IF accepted /\ call.choice \in {"ctrl_reset", "ctrl_reprovision"} THEN NoConf
          ELSE staged

\* The device keeps StagedInv when it answers.
LEMMA StagedDevice ==
  ASSUME AnswersFit, ChannelsFit, AskedInv, StagedInv, RequestUnderstood',
         TooLong \/ Unauthorized \/ Refused \/ Handle
  PROVE  StagedInv'
<1>1. pc = "asked" /\ pc' = "answered" /\ UNCHANGED <<call, staged>> /\ wc = staged
  BY DeviceStep DEF Arrived, StagedInv
<1>2. ASSUME UNCHANGED wc, said'.status # 0 PROVE StagedInv'
  BY <1>1, <1>2 DEF StagedInv
<1>3. ASSUME UNCHANGED wc, call.choice \notin {"config_set", "ctrl_reset", "ctrl_reprovision"}
      PROVE  StagedInv'
  BY <1>1, <1>3 DEF StagedInv
<1>4. CASE TooLong \/ Unauthorized \/ Refused
  BY <1>2, <1>4, StatusSaid DEF TooLong, Unauthorized, Refused, invalid_argument, unauthorized
<1>5. CASE HandleVer
  <2>1. call.choice = "ver_req" /\ UNCHANGED wc
    BY <1>1, <1>5, CallShape DEF HandleVer, Handler, AskedInv
  <2> QED BY <2>1, <1>3
<1>6. CASE HandleAuth
  <2>1. call.path = "auth" /\ UNCHANGED wc
    BY <1>6 DEF HandleAuth, Handler
  <2> QED BY <1>1, <1>3, <2>1, CallShape DEF AskedInv
<1>7. CASE ConfigSet
  <2> DEFINE cfg == call.m.wifi_config
             reply == [choice |-> "config_set_rsp",
                     m |-> [status |-> IF InRange(cfg) THEN ok ELSE invalid_argument]]
  <2>1. In = [choice |-> "config_set", m |-> call.m] /\ call.choice = "config_set" /\ call.path = "config"
    BY <1>7, HandlesCall DEF ConfigSet
  <2>2. Reply(reply) /\ wc' = IF InRange(cfg) THEN Staged(cfg) ELSE wc
    BY <1>7, <2>1 DEF ConfigSet, ReplyChoice
  <2>3. EncodesRsp(call.path, reply, MsgMax)
    BY <2>1 DEF AnswersFit
  <2>4. said'.status = IF InRange(cfg) THEN 0 ELSE 2
    BY <2>1, <2>2, <2>3, ReplySaid DEF ok, invalid_argument
  <2>5. Staged(cfg) = Meant(cfg)
    <3>1. cfg \in Configs
      BY <1>1, <2>1, CallShape DEF AskedInv
    <3>2. Field(cfg, "ch", 0) \in 0..255
      BY <3>1 DEF ChannelsFit
    <3>3. Field(cfg, "ch", 0) % 256 = Field(cfg, "ch", 0)
      BY <3>2
    <3> QED BY <3>3 DEF Staged, Meant
  <2> QED BY <1>1, <2>1, <2>2, <2>4, <2>5 DEF StagedInv, Meant
<1>8. CASE HandleCtrl
  <2> DEFINE reply == [ctrl_op |-> CtrlOp(call.choice), status |-> ok]
  <2>1. In.choice = call.choice /\ call.path = "ctrl"
    BY <1>8, HandlesCall DEF HandleCtrl
  <2>2. Reply(reply) /\ wc' = IF call.choice \in {"ctrl_reset", "ctrl_reprovision"} THEN NoConf ELSE wc
    BY <1>8, <2>1 DEF HandleCtrl
  <2>3. CtrlOp(call.choice) \in 0..2
    BY DEF CtrlOp
  <2>4. EncodesRsp(call.path, reply, MsgMax)
    BY <2>1, <2>3 DEF AnswersFit
  <2>5. said'.status = 0
    BY <2>1, <2>2, <2>4, ReplySaid DEF ok
  <2>6. call.choice # "config_set"
    BY <1>1, <2>1, CallShape DEF AskedInv
  <2> QED BY <1>1, <2>2, <2>5, <2>6 DEF StagedInv
<1>9. CASE ConfigGetStatus \/ ConfigApply \/ ScanStart \/ ScanGetStatus \/ ScanGetResults
            \/ CredWrite \/ CredFinalize \/ CredGetStatus
  <2>1. UNCHANGED wc /\ \E p \in {"config", "scan", "cred"} : Handler(p) /\ In.choice # "config_set"
    BY <1>9 DEF ConfigGetStatus, ConfigApply, ScanStart, ScanGetStatus, ScanGetResults,
         CredWrite, CredFinalize, CredGetStatus
  <2>2. call.choice # "config_set" /\ call.path # "ctrl"
    BY <2>1, HandlesCall
  <2> QED BY <1>1, <1>3, <2>1, <2>2, CallShape DEF AskedInv
<1> QED BY <1>4, <1>5, <1>6, <1>7, <1>8, <1>9 DEF Handle

\* The client takes a call for accepted when the device has said so.
LEMMA StagedStep ==
  ASSUME AnswersFit, ChannelsFit, AskedInv, StagedInv, AnswerUnderstood, RequestUnderstood',
         [CallNext]_callVars
  PROVE  StagedInv'
<1>1. CASE \E c \in Calls : Call(c)
  BY <1>1 DEF Call, device, StagedInv
<1>2. CASE TooLong \/ Unauthorized \/ Refused \/ Handle
  BY <1>2, StagedDevice
<1>3. CASE Receive
  <2>1. Outcome.kind = "value" <=> said.status = 0
    BY <1>3 DEF Receive, AnswerUnderstood, ok
  <2>2. /\ pc = "answered" /\ pc' = "idle" /\ wc' = wc
        /\ staged' = CASE said.status = 0 /\ call.choice = "config_set" -> Meant(call.m.wifi_config)
                       [] said.status = 0 /\ call.choice \in {"ctrl_reset", "ctrl_reprovision"} -> NoConf
                       [] OTHER -> staged
    BY <1>3, <2>1 DEF Receive, device
  <2> QED BY <2>2 DEF StagedInv
<1>4. CASE Reconnect
  BY <1>4 DEF Reconnect, StagedInv
<1>5. CASE UNCHANGED callVars
  BY <1>5 DEF callVars, StagedInv, Meant
<1> QED BY <1>1, <1>2, <1>3, <1>4, <1>5 DEF CallNext

\* As long as client and device understand each other's messages, the device
\* has staged what it last acknowledged whenever no call is under way, for any
\* codec, build, configuration and order of calls and sessions
\* (wifi_config.c:221-249, ctrl.c:23-73).
THEOREM LastAcceptedCorrect ==
  ASSUME AnswersFit, ChannelsFit
  PROVE  CallSpec /\ []RequestUnderstood /\ []AnswerUnderstood => []StagedIsLastAccepted
<1>1. CallInit => AskedInv /\ StagedInv
  BY DEF CallInit, AskedInv, StagedInv
<1>2. AskedInv /\ [CallNext]_callVars => AskedInv'
  BY AskedStep
<1>3. AskedInv /\ StagedInv /\ AnswerUnderstood /\ RequestUnderstood' /\ [CallNext]_callVars => StagedInv'
  BY StagedStep
<1>4. StagedInv => StagedIsLastAccepted
  BY DEF StagedInv, StagedIsLastAccepted
<1> QED BY <1>1, <1>2, <1>3, <1>4, PTL DEF CallSpec

\* The elements of a concatenation.
LEMMA ConcatElements ==
  ASSUME NEW S, NEW s \in Seq(S), NEW t \in Seq(S)
  PROVE  ToSet(s \o t) = ToSet(s) \cup ToSet(t)
<1>1. /\ DOMAIN (s \o t) = 1..(Len(s) + Len(t)) /\ DOMAIN s = 1..Len(s) /\ DOMAIN t = 1..Len(t)
      /\ \A i \in 1..Len(s) : (s \o t)[i] = s[i]
      /\ \A i \in 1..Len(t) : (s \o t)[Len(s) + i] = t[i]
      /\ Len(s) \in Nat /\ Len(t) \in Nat
  OBVIOUS
<1>2. \A i \in 1..(Len(s) + Len(t)) :
        i \in 1..Len(s) \/ \E k \in 1..Len(t) : i = Len(s) + k
  <2> SUFFICES ASSUME NEW i \in 1..(Len(s) + Len(t)), i \notin 1..Len(s)
               PROVE  \E k \in 1..Len(t) : i = Len(s) + k
    OBVIOUS
  <2>1. i - Len(s) \in 1..Len(t) /\ i = Len(s) + (i - Len(s))
    BY <1>1
  <2> QED BY <2>1
<1>3. ToSet(s \o t) \subseteq ToSet(s) \cup ToSet(t)
  BY <1>1, <1>2 DEF ToSet
<1>4. ToSet(s) \subseteq ToSet(s \o t)
  BY <1>1 DEF ToSet
<1>5. ToSet(t) \subseteq ToSet(s \o t)
  <2>1. \A i \in 1..Len(t) : Len(s) + i \in 1..(Len(s) + Len(t))
    BY <1>1
  <2> QED BY <1>1, <2>1, Zenon DEF ToSet
<1> QED BY <1>3, <1>4, <1>5

\* The names version.c announces.
LEMMA AnnouncedNames ==
  LET names == ToSet(Caps)
  IN /\ "auth" \in names <=> Gated
     /\ "wifi" \in names <=> "wifi" \in build
     /\ "scan" \in names <=> "wifi" \in build
     /\ "cred" \in names <=> "cred" \in build
<1> DEFINE wifi == IF "wifi" \in build THEN <<"wifi", "scan">> ELSE <<>>
           cred == IF "cred" \in build THEN <<"cred">> ELSE <<>>
           auth == IF Gated THEN <<"auth">> ELSE <<>>
           Names == {"wifi", "scan", "cred", "auth"}
<1>1. wifi \in Seq(Names) /\ cred \in Seq(Names) /\ auth \in Seq(Names)
  <2>1. <<>> \in Seq(Names) /\ <<"cred">> \in Seq(Names) /\ <<"auth">> \in Seq(Names)
    OBVIOUS
  <2>2. <<"wifi", "scan">> \in Seq(Names)
    OBVIOUS
  <2> QED BY <2>1, <2>2, Zenon
<1>2. ToSet(wifi) = IF "wifi" \in build THEN {"wifi", "scan"} ELSE {}
  BY DEF ToSet
<1>3. ToSet(cred) = IF "cred" \in build THEN {"cred"} ELSE {}
  BY DEF ToSet
<1>4. ToSet(auth) = IF Gated THEN {"auth"} ELSE {}
  BY DEF ToSet
<1>5. Caps = (wifi \o cred) \o auth
  BY DEF Caps
<1> HIDE DEF wifi, cred, auth, Names
<1>6. ToSet(wifi \o cred) = ToSet(wifi) \cup ToSet(cred)
  BY <1>1, ConcatElements, Zenon
<1>7. wifi \o cred \in Seq(Names)
  BY <1>1
<1>8. ToSet((wifi \o cred) \o auth) = ToSet(wifi \o cred) \cup ToSet(auth)
  BY <1>1, <1>7, ConcatElements, Zenon
<1> QED BY <1>2, <1>3, <1>4, <1>5, <1>6, <1>8

\* The client knows what is announced or has not asked; what the device has
\* said is on its way; it has asked for a proof if it has a secret, or was
\* given a wrong one.
ServedInv ==
  /\ caps # {"?"} => caps = ToSet(Caps)
  /\ pc = "answered" =>
       /\ answer # <<>>
       /\ call.path = "ver" /\ said.status = 0 => said.rsp.ver_info.caps.tstr = Caps
       /\ said.status = 4 => call.path # "ver" /\ (pop \/ call.path = "auth")

\* The operation of a status answer is one that it can carry.
LEMMA OpFits ==
  ASSUME AnswersFit, AskedInv, pc # "idle"
  PROVE  peek_op(request) \in 0..2
  BY CallsMonotone DEF AskedInv, AnswersFit

\* A bare status always leaves an answer.
LEMMA StatusQueued ==
  ASSUME AnswersFit, NEW op \in 0..2, NEW s \in {2, 3, 4}, RespondStatus(op, s)
  PROVE  answer' # <<>>
  BY DEF AnswersFit, RespondStatus, invalid_argument, internal_error, unauthorized

\* So does a reply: when the response does not fit, the status that says so.
LEMMA ReplyQueued ==
  ASSUME AnswersFit, AskedInv, pc # "idle", NEW reply, Reply(reply)
  PROVE  answer' # <<>>
  BY OpFits, StatusQueued DEF Reply, internal_error

\* Whichever handler answers the call, the client gets an answer, and a refusal
\* for want of a proof only from a device that announces .prov/auth.
LEMMA ServedDevice ==
  ASSUME AnswersFit, AskedInv, ServedInv, TooLong \/ Unauthorized \/ Refused \/ Handle
  PROVE  ServedInv'
<1>1. /\ pc = "asked" /\ pc' = "answered" /\ UNCHANGED <<build, pop, caps, call>>
      /\ call.path = "ver" <=> call.choice = "ver_req"
  BY DeviceStep, CallShape DEF Arrived, AskedInv
<1>2. Caps' = Caps
  BY <1>1 DEF Caps, Gated
<1>3. ASSUME answer' # <<>>, said'.status \notin {0, 4} PROVE ServedInv'
  BY <1>1, <1>2, <1>3 DEF ServedInv
<1>4. ASSUME NEW reply, Reply(reply), call.path \notin {"ver", "ctrl"},
             reply.m.status = 4 => call.path = "auth"
      PROVE  ServedInv'
  BY <1>1, <1>2, <1>4, ReplyQueued, ReplySaid DEF ServedInv
<1>5. CASE TooLong \/ Refused
  BY <1>1, <1>3, <1>5, OpFits, StatusQueued, StatusSaid DEF TooLong, Refused, invalid_argument
<1>6. CASE Unauthorized
  <2>1. answer' # <<>> /\ said'.status = 4
    BY <1>1, <1>6, OpFits, StatusQueued, StatusSaid DEF Unauthorized, unauthorized
  <2>2. pop /\ call.path # "ver"
    BY <1>6 DEF Unauthorized, SessionAuthorized, require_auth
  <2> QED BY <1>1, <1>2, <2>1, <2>2 DEF ServedInv
<1>7. CASE HandleVer
  <2> DEFINE reply == [status |-> ok, ver_info |-> [proto |-> 1, caps |-> [tstr |-> Caps], blk |-> 512,
                                                    lib |-> "0.1.0", pop |-> Gated]]
  <2>1. Reply(reply) /\ call.path = "ver"
    BY <1>7 DEF HandleVer, Handler
  <2>2. said' = [status |-> 0, rsp |-> reply] \/ said' = [status |-> 3, rsp |-> <<>>]
    BY <2>1, ReplySaid DEF ok
  <2> QED BY <1>1, <1>2, <2>1, <2>2, ReplyQueued DEF ServedInv
<1>8. CASE HandleAuth
  <2>1. call.path = "auth"
    BY <1>8 DEF HandleAuth, Handler
  <2>2. \/ RespondStatus(peek_op(request), 3)
        \/ \E reply : Reply(reply)
    BY <1>8 DEF HandleAuth, ReplyChoice, internal_error
  <2>3. answer' # <<>>
    BY <1>1, <2>2, OpFits, StatusQueued, ReplyQueued
  <2> QED BY <1>1, <1>2, <2>1, <2>3 DEF ServedInv
<1>9. CASE HandleCtrl
  <2>1. call.path = "ctrl" /\ \E reply : Reply(reply) /\ reply.status = 0
    BY <1>9 DEF HandleCtrl, Handler, ok
  <2> QED BY <1>1, <1>2, <2>1, ReplyQueued, ReplySaid DEF ServedInv
<1>10. CASE ConfigGetStatus \/ ConfigSet \/ ConfigApply \/ ScanStart \/ ScanGetStatus
             \/ ScanGetResults \/ CredWrite \/ CredFinalize \/ CredGetStatus
  <2>1. call.path \in {"config", "scan", "cred"}
    BY <1>10 DEF ConfigGetStatus, ConfigSet, ConfigApply, ScanStart, ScanGetStatus,
         ScanGetResults, CredWrite, CredFinalize, CredGetStatus, Handler
  <2>2. \A sta, fail, net : StatusRsp(sta, fail, net).status = 0
    BY DEF StatusRsp, ok
  <2>3. \E choice, m : ReplyChoice(choice, m) /\ m.status # 4
    <3>1. CASE ConfigGetStatus
      BY <3>1, <2>2 DEF ConfigGetStatus
    <3>2. CASE ConfigSet
      BY <3>2 DEF ConfigSet, ok, invalid_argument
    <3>3. CASE ConfigApply
      BY <3>3 DEF ConfigApply, ok, internal_error, invalid_state
    <3>4. CASE ScanStart
      BY <3>4 DEF ScanStart, ok, internal_error
    <3>5. CASE ScanGetStatus \/ ScanGetResults
      <4>1. CASE ScanGetStatus
        BY <4>1 DEF ScanGetStatus, ok
      <4>2. CASE ScanGetResults
        BY <4>2 DEF ScanGetResults, ok
      <4> QED BY <3>5, <4>1, <4>2
    <3>6. CASE CredWrite
      BY <3>6 DEF CredWrite, ok, invalid_argument, internal_error
    <3>7. CASE CredFinalize
      BY <3>7 DEF CredFinalize, ok, invalid_argument, internal_error
    <3>8. CASE CredGetStatus
      BY <3>8 DEF CredGetStatus, ok
    <3> QED BY <1>10, <3>1, <3>2, <3>3, <3>4, <3>5, <3>6, <3>7, <3>8
  <2>4. PICK choice, m : ReplyChoice(choice, m) /\ m.status # 4
    BY <2>3
  <2> DEFINE reply == [choice |-> choice, m |-> m]
  <2>5. Reply(reply) /\ reply.m.status # 4
    BY <2>4 DEF ReplyChoice
  <2> HIDE DEF reply
  <2> QED BY <1>4, <2>1, <2>5
<1> QED BY <1>5, <1>6, <1>7, <1>8, <1>9, <1>10 DEF Handle

\* Every step keeps ServedInv: the capabilities the client goes by are those
\* version.c announced.
LEMMA ServedStep ==
  ASSUME AnswersFit, AskedInv, ServedInv, AnswerUnderstood, [CallNext]_callVars
  PROVE  ServedInv'
<1>1. CASE \E c \in Calls : Call(c)
  BY <1>1 DEF Call, device, ServedInv, Caps, Gated
<1>2. CASE TooLong \/ Unauthorized \/ Refused \/ Handle
  BY <1>2, ServedDevice
<1>3. CASE Receive
  <2>1. pc = "answered" /\ pc' = "idle" /\ Caps' = Caps
    BY <1>3 DEF Receive, device, Caps, Gated
  <2>2. CASE Outcome.kind = "value" /\ call.path = "ver"
    <3>1. call.choice = "ver_req"
      BY <2>1, <2>2, CallShape DEF AskedInv
    <3>2. said.status = 0 /\ Outcome.value = Report("ver_req", said.rsp)
      BY <2>1, <2>2, <3>1 DEF AnswerUnderstood, ok
    <3>3. Outcome.value.caps = Caps
      BY <2>1, <2>2, <3>2 DEF Report, ServedInv
    <3>4. caps' = ToSet(Caps)
      BY <1>3, <2>2, <3>3 DEF Receive
    <3>5. ToSet(Caps)' = ToSet(Caps)
      BY <2>1 DEF ToSet
    <3> QED BY <2>1, <3>4, <3>5 DEF ServedInv
  <2>3. CASE ~(Outcome.kind = "value" /\ call.path = "ver")
    <3>1. caps' = caps
      BY <1>3, <2>3 DEF Receive
    <3> QED BY <2>1, <3>1 DEF ServedInv
  <2> QED BY <2>2, <2>3
<1>4. CASE Reconnect
  BY <1>4 DEF Reconnect, ServedInv
<1>5. CASE UNCHANGED callVars
  BY <1>5 DEF callVars, ServedInv, Caps, Gated
<1> QED BY <1>1, <1>2, <1>3, <1>4, <1>5 DEF CallNext

\* A client that calls what the version endpoint has announced is always
\* answered, for any codec and build and as long as the client understands the
\* answers; it is asked for a proof only if it was told of one, but for a build
\* without .prov/auth that was given a secret, which asks for a proof it has not
\* announced (version.c:42-60, dispatch.c:29-45, 56-59).
THEOREM ServedCorrect ==
  ASSUME AnswersFit
  PROVE  CallSpec /\ []AnswerUnderstood => []AnnouncedIsServed
<1>1. CallInit => AskedInv /\ ServedInv
  BY DEF CallInit, AskedInv, ServedInv
<1>2. AskedInv /\ [CallNext]_callVars => AskedInv'
  BY AskedStep
<1>3. AskedInv /\ ServedInv /\ AnswerUnderstood /\ [CallNext]_callVars => ServedInv'
  BY ServedStep
<1>4. AskedInv /\ ServedInv => AnnouncedIsServed
  <2> SUFFICES ASSUME AskedInv, ServedInv, pc # "idle" PROVE AnnouncedIsServed
    BY DEF AnnouncedIsServed
  <2>1. call \in CallsWith(caps)
    BY DEF AskedInv
  <2>2. call.path \in Endpoints
    <3>1. \A n \in {"auth", "wifi", "scan", "cred"} : n \in caps => n \in ToSet(Caps)
      BY DEF ServedInv
    <3> QED BY <2>1, <3>1, CallShape, AnnouncedNames DEF Endpoints, Gated
  <2>3. ASSUME pc = "answered", said.status = 4, caps # {"?"}, pop => "auth" \in build
        PROVE  "auth" \in caps
    BY <2>1, <2>3, CallShape, AnnouncedNames DEF ServedInv, Gated
  <2> QED BY <2>2, <2>3 DEF AnnouncedIsServed, ServedInv, unauthorized
<1> QED BY <1>1, <1>2, <1>3, <1>4, PTL DEF CallSpec
=============================================================================
