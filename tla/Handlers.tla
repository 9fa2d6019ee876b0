------------------------------ MODULE Handlers ------------------------------
(***************************************************************************)
(* A client's calls and the device's endpoints: a call is dispatched       *)
(* (src/src/dispatch.c), decoded and answered by the handler of its        *)
(* endpoint (src/src/handlers), and the client decodes the answer.         *)
(* Entries arrive whole and in order; Rpc, Dispatch and the SAR modules    *)
(* are about how they get there.  The codecs of both ends are parameters,  *)
(* which Messages supplies.                                                *)
(*                                                                         *)
(* What a handler reports of the Wi-Fi driver, the credential store and    *)
(* the cryptography is any value they may have: WifiConfig, WifiScan,      *)
(* CredStore and Dispatch are about those.                                 *)
(***************************************************************************)
EXTENDS Integers, Sequences, SequencesExt, FiniteSetsExt

CONSTANTS
  EncodedReq(_, _),     \* the item of a call: encode_... of codec.py
  Revised(_),           \* what clients of a later revision may send for it
  Bytes(_),             \* bytes of an item
  DecodesReq(_, _),     \* cbor_decode_..._req of an endpoint succeeds,
  DecodedReq(_, _),     \* with this struct
  EncodesRsp(_, _, _),  \* cbor_encode_..._rsp of an endpoint fits a buffer,
  EncodedRsp(_, _),     \* with this item
  DecodedRsp(_, _, _),  \* decode_..._rsp of codec.py
  MsgMax,    \* POUCH_PROV_MSG_MAX
  PageMax,   \* PAGE_MAX of wifi_scan.c
  SsidMax,   \* SSID_MAX and PASS_MAX of wifi_config.c
  PassMax,
  Builds,    \* sets of options: CONFIG_POUCH_PROV_WIFI, _CRED, _AUTH
  Configs,   \* what clients set: [ssid, ?pass, ?bssid, ?ch], lengths and a channel
  Chunks,    \* what clients write: [kind, off, total, data], data a length
  Caches,    \* scan caches: sequences of SSID lengths
  Links,     \* SSID length of the interface status, 0 when the link is down
  None

ok == 0
invalid_argument == 2
internal_error == 3
unauthorized == 4
invalid_state == 5

VARIABLES
  build,       \* the options the device is built with
  pop,         \* TRUE: configured with a proof of possession
  authorized,  \* authorized of dispatch.c
  wc,          \* wc.ssid_len, wc.pass_len, wc.has_bssid, wc.channel
  caps,        \* capabilities the client has read, "?" before
  pc,          \* "idle", "asked", "answered"
  call,        \* [path, choice, m], m as the struct the client means
  request,     \* the item sent
  answer,      \* the response queue: no item or one
  \* History, read by no action:
  read,        \* "handled" with the struct in got, "refused" or "unread"
  got,
  said,        \* what the device answers: [status, rsp]
  staged       \* the configuration last acknowledged to the client

device == <<build, pop, authorized, wc>>
callVars == <<build, pop, authorized, wc, caps, pc, call, request, answer, read, got, said, staged>>

NoConf == [ssid |-> 0, pass |-> 0, bssid |-> FALSE, ch |-> 0]

CallInit ==
  /\ build \in Builds
  /\ pop \in BOOLEAN
  /\ authorized = FALSE
  /\ wc = NoConf
  /\ caps = {"?"}
  /\ pc = "idle"
  /\ call = [path |-> "ver", choice |-> "ver_req", m |-> <<>>]
  /\ request = <<>>
  /\ answer = <<>>
  /\ read = "unread"
  /\ got = <<>>
  /\ said = [status |-> ok, rsp |-> <<>>]
  /\ staged = NoConf

-----------------------------------------------------------------------------
\* The client's calls, on the endpoints that capabilities name.
NoArgs(path, choices) == {[path |-> path, choice |-> c, m |-> <<>>] : c \in choices}

CallsWith(names) ==
  NoArgs("ver", {"ver_req"})
  \cup NoArgs("ctrl", {"ctrl_reset", "ctrl_reprovision", "ctrl_end"})
  \cup (IF "auth" \in names
        THEN {[path |-> "auth", choice |-> "auth_challenge", m |-> [cli_nonce |-> 16]],
              [path |-> "auth", choice |-> "auth_proof", m |-> [cli_proof |-> 32]]} ELSE {})
  \cup (IF "wifi" \in names
        THEN NoArgs("config", {"config_get_status", "config_apply"})
             \cup {[path |-> "config", choice |-> "config_set", m |-> [wifi_config |-> c]] : c \in Configs}
        ELSE {})
  \cup (IF "scan" \in names
        THEN NoArgs("scan", {"scan_get_status"})
             \cup {[path |-> "scan", choice |-> "scan_start", m |-> [scan_params |-> p]] :
                     p \in {<<>>, [passive |-> TRUE], [passive |-> FALSE, period_ms |-> 300]}}
             \cup {[path |-> "scan", choice |-> "scan_get_results", m |-> [start |-> s, count |-> 6]] :
                     s \in {0, 6}}
        ELSE {})
  \cup (IF "cred" \in names
        THEN NoArgs("cred", {"cred_finalize", "cred_get_status"})
             \cup {[path |-> "cred", choice |-> "cred_write", m |-> [cred_chunk |-> c]] : c \in Chunks}
        ELSE {})

Calls == CallsWith(caps)

\* What a client sends for a call.
Sends(c) == {EncodedReq(c.choice, c.m)} \cup Revised(EncodedReq(c.choice, c.m))

Call(c) ==
  /\ pc = "idle"
  /\ call' = c
  /\ request' \in Sends(c)
  /\ pc' = "asked"
  /\ answer' = <<>>
  /\ read' = "unread"
  /\ got' = <<>>
  /\ UNCHANGED <<device, caps, said, staged>>

-----------------------------------------------------------------------------
\* dispatch.c: the endpoints of the build.
Endpoints ==
  {"ver", "ctrl"} \cup (IF "auth" \in build THEN {"auth"} ELSE {})
  \cup (IF "wifi" \in build THEN {"config", "scan"} ELSE {})
  \cup (IF "cred" \in build THEN {"cred"} ELSE {})

require_auth == {"ctrl", "config", "scan", "cred"}

\* Mutant: an error answer always carries operation 0.
peek_op_zero(x) == 0

\* The operation of a list of one to four elements that begins with a small
\* number, else 0.
peek_op(x) ==
  IF x[1] = "list" /\ Len(x[2]) \in 1..4 /\ x[2][1][1] = "uint" /\ x[2][1][2] < 24
  THEN x[2][1][2] ELSE 0

\* respond_status: a bare [op, status] in a buffer of 16 bytes.
RespondStatus(op, status) ==
  LET rsp == [ctrl_op |-> op, status |-> status]
  IN /\ answer' = IF EncodesRsp("ctrl", rsp, 16) THEN <<EncodedRsp("ctrl", rsp)>> ELSE <<>>
     /\ said' = [status |-> status, rsp |-> <<>>]

\* downlink_data has the whole entry.
Arrived ==
  /\ pc = "asked"
  /\ call.path \in Endpoints
  /\ pc' = "answered"
  /\ UNCHANGED <<build, pop, caps, call, request, staged>>

TooLong ==
  /\ Arrived
  /\ Bytes(request) > MsgMax
  /\ RespondStatus(0, invalid_argument)
  /\ UNCHANGED <<authorized, wc, read, got>>

\* Mutant: a device without a secret asks for a proof all the same.
SessionProved == authorized

SessionAuthorized == authorized \/ ~pop

Unauthorized ==
  /\ Arrived
  /\ Bytes(request) <= MsgMax
  /\ call.path \in require_auth /\ ~SessionAuthorized
  /\ RespondStatus(peek_op(request), unauthorized)
  /\ UNCHANGED <<authorized, wc, read, got>>

Dispatched ==
  /\ Arrived
  /\ Bytes(request) <= MsgMax
  /\ call.path \in require_auth => SessionAuthorized

\* The handler cannot decode it: -EBADMSG.
Refused ==
  /\ Dispatched
  /\ ~DecodesReq(call.path, request)
  /\ RespondStatus(peek_op(request), invalid_argument)
  /\ read' = "refused"
  /\ UNCHANGED <<authorized, wc, got>>

\* The handler of path p has decoded the request into In.
In == DecodedReq(call.path, request)

Handler(p) ==
  /\ Dispatched
  /\ call.path = p
  /\ DecodesReq(p, request)
  /\ read' = "handled"
  /\ got' = In

\* The handler answers with struct rsp; -ENOMEM when it does not encode.
Reply(rsp) ==
  IF EncodesRsp(call.path, rsp, MsgMax)
  THEN /\ answer' = <<EncodedRsp(call.path, rsp)>>
       /\ said' = [status |-> IF call.path \in {"ver", "ctrl"} THEN rsp.status ELSE rsp.m.status,
                   rsp |-> rsp]
  ELSE RespondStatus(peek_op(request), internal_error)

\* One of a union of responses.
ReplyChoice(choice, m) == Reply([choice |-> choice, m |-> m])

-----------------------------------------------------------------------------
\* version.c.
Gated == "auth" \in build /\ pop

Caps ==
  (IF "wifi" \in build THEN <<"wifi", "scan">> ELSE <<>>)
  \o (IF "cred" \in build THEN <<"cred">> ELSE <<>>)
  \o (IF Gated THEN <<"auth">> ELSE <<>>)

HandleVer ==
  /\ Handler("ver")
  /\ Reply([status |-> ok,
            ver_info |-> [proto |-> 1, caps |-> [tstr |-> Caps], blk |-> 512, lib |-> "0.1.0",
                          pop |-> Gated]])
  /\ UNCHANGED <<authorized, wc>>

\* auth.c: a challenge is answered unless the MAC fails, a proof has a status.
HandleAuth ==
  /\ Handler("auth")
  /\ UNCHANGED wc
  /\ \/ /\ In.choice = "auth_challenge"
        /\ \/ ReplyChoice("auth_challenge_rsp", [status |-> ok, dev_nonce |-> 16, dev_proof |-> 32])
           \/ RespondStatus(peek_op(request), internal_error)
        /\ UNCHANGED authorized
     \/ /\ In.choice = "auth_proof"
        /\ \/ \E s \in {ok, unauthorized, invalid_state} :
                /\ ReplyChoice("auth_proof_rsp", [status |-> s])
                /\ authorized' = (authorized \/ s = ok)
           \/ RespondStatus(peek_op(request), internal_error) /\ UNCHANGED authorized

-----------------------------------------------------------------------------
\* wifi_config.c.  The status has the reason of a failure, or the interface
\* status and address of a connection.
fill_connected(link) ==
  IF link # None THEN [ip4 |-> 4, ssid |-> link, rssi |-> -60] ELSE [ip4 |-> 4, ssid |-> wc.ssid]

StatusRsp(sta, fail, link) ==
  CASE sta = 0 -> [status |-> ok, sta_state |-> sta,
                   detail |-> [choice |-> "connected_info", m |-> fill_connected(link)]]
    [] sta = 3 -> [status |-> ok, sta_state |-> sta, detail |-> [choice |-> "fail_reason", m |-> fail]]
    [] OTHER -> [status |-> ok, sta_state |-> sta]

ConfigGetStatus ==
  /\ Handler("config")
  /\ In.choice = "config_get_status"
  /\ \E sta \in 0..3, fail \in 0..1, link \in Links \cup {None} :
       /\ sta = 0 => wc.ssid # 0
       /\ ReplyChoice("config_status_rsp", StatusRsp(sta, fail, link))
  /\ UNCHANGED <<authorized, wc>>

Field(cfg, key, default) == IF key \in DOMAIN cfg THEN cfg[key] ELSE default

\* Mutant: a configuration without a passphrase keeps the one before.
StagedKeepingPass(cfg) ==
  [ssid |-> cfg.ssid, pass |-> Field(cfg, "pass", wc.pass), bssid |-> "bssid" \in DOMAIN cfg,
   ch |-> Field(cfg, "ch", 0) % 256]

InRange(cfg) ==
  cfg.ssid # 0 /\ cfg.ssid <= SsidMax /\ Field(cfg, "pass", 0) <= PassMax

\* do_set: the channel is cast to uint8_t.
Staged(cfg) ==
  [ssid |-> cfg.ssid, pass |-> Field(cfg, "pass", 0), bssid |-> "bssid" \in DOMAIN cfg,
   ch |-> Field(cfg, "ch", 0) % 256]

\* What a client expects to be staged.
Meant(cfg) ==
  [ssid |-> cfg.ssid, pass |-> Field(cfg, "pass", 0), bssid |-> "bssid" \in DOMAIN cfg,
   ch |-> Field(cfg, "ch", 0)]

ConfigSet ==
  /\ Handler("config")
  /\ In.choice = "config_set"
  /\ LET cfg == In.m.wifi_config
     IN /\ wc' = IF InRange(cfg) THEN Staged(cfg) ELSE wc
        /\ ReplyChoice("config_set_rsp", [status |-> IF InRange(cfg) THEN ok ELSE invalid_argument])
  /\ UNCHANGED authorized

\* do_apply: there may be no interface, and storing may fail.
ConfigApply ==
  /\ Handler("config")
  /\ In.choice = "config_apply"
  /\ \E s \in IF wc.ssid = 0 THEN {invalid_state} ELSE {ok, internal_error, invalid_state} :
       ReplyChoice("config_apply_rsp", [status |-> s])
  /\ UNCHANGED <<authorized, wc>>

-----------------------------------------------------------------------------
\* wifi_scan.c.
ScanStart ==
  /\ Handler("scan")
  /\ In.choice = "scan_start"
  /\ \E s \in {ok, internal_error} : ReplyChoice("scan_start_rsp", [status |-> s])
  /\ UNCHANGED <<authorized, wc>>

ScanGetStatus ==
  /\ Handler("scan")
  /\ In.choice = "scan_get_status"
  /\ \E finished \in BOOLEAN, cache \in Caches :
       ReplyChoice("scan_status_rsp", [status |-> ok, finished |-> finished, total |-> Len(cache)])
  /\ UNCHANGED <<authorized, wc>>

\* encode_results: the entries from start, no more than asked for or PAGE_MAX.
Page(cache, start, want) ==
  LET wanted == SubSeq(cache, start + 1, Len(cache))
      n == Min({Len(wanted), want, PageMax})
  IN [i \in 1..n |-> [ssid |-> wanted[i], bssid |-> 6, ch |-> 11, rssi |-> -60, auth |-> 1]]

ScanGetResults ==
  /\ Handler("scan")
  /\ In.choice = "scan_get_results"
  /\ \E cache \in Caches :
       ReplyChoice("scan_results_rsp",
         [status |-> ok, list |-> [entries |-> Page(cache, In.m.start, In.m.count)]])
  /\ UNCHANGED <<authorized, wc>>

-----------------------------------------------------------------------------
\* cred.c: the results of pouch_prov_cred_stage and _finalize, through status_map.
CredWrite ==
  /\ Handler("cred")
  /\ In.choice = "cred_write"
  /\ \/ \E s \in {invalid_argument, internal_error} :
          ReplyChoice("cred_write_rsp", [status |-> s, received |-> 0])
     \/ ReplyChoice("cred_write_rsp",
          [status |-> ok, received |-> In.m.cred_chunk.off + In.m.cred_chunk.data])
  /\ UNCHANGED <<authorized, wc>>

CredFinalize ==
  /\ Handler("cred")
  /\ In.choice = "cred_finalize"
  /\ \E s \in {ok, invalid_argument, internal_error} : ReplyChoice("cred_finalize_rsp", [status |-> s])
  /\ UNCHANGED <<authorized, wc>>

\* The kinds with bytes received, in order.
KindNames == <<"0", "1", "2">>
CredGetStatus ==
  /\ Handler("cred")
  /\ In.choice = "cred_get_status"
  /\ \E received \in [1..3 -> {0, 700}] :
       ReplyChoice("cred_status_rsp", [status |-> ok, map |-> [tstruint |->
         LET kinds == SelectSeq(<<1, 2, 3>>, LAMBDA k : received[k] # 0)
         IN [i \in DOMAIN kinds |-> <<KindNames[kinds[i]], received[kinds[i]]>>]]])
  /\ UNCHANGED <<authorized, wc>>

-----------------------------------------------------------------------------
\* ctrl.c: reset and reprovision clear the staged configuration.
CtrlOp(choice) == CASE choice = "ctrl_reset" -> 0 [] choice = "ctrl_reprovision" -> 1 [] OTHER -> 2

HandleCtrl ==
  /\ Handler("ctrl")
  /\ Reply([ctrl_op |-> CtrlOp(In.choice), status |-> ok])
  /\ wc' = IF In.choice \in {"ctrl_reset", "ctrl_reprovision"} THEN NoConf ELSE wc
  /\ UNCHANGED authorized

-----------------------------------------------------------------------------
\* The client decodes the answer.
OpAsked == request[2][1][2]
Outcome == DecodedRsp(call.choice, OpAsked, Head(answer))

Receive ==
  /\ pc = "answered"
  /\ answer # <<>>
  /\ pc' = "idle"
  /\ LET succeeded == Outcome.kind = "value"
     IN /\ caps' = IF succeeded /\ call.path = "ver" THEN ToSet(Outcome.value.caps) ELSE caps
        /\ staged' = CASE succeeded /\ call.choice = "config_set" -> Meant(call.m.wifi_config)
                       [] succeeded /\ call.choice \in {"ctrl_reset", "ctrl_reprovision"} -> NoConf
                       [] OTHER -> staged
  /\ UNCHANGED <<device, call, request, answer, read, got, said>>

\* Another session begins: dispatch.c is reset, the client starts over.
Reconnect ==
  /\ pc = "idle"
  /\ authorized' = FALSE
  /\ caps' = {"?"}
  /\ UNCHANGED <<build, pop, wc, pc, call, request, answer, read, got, said, staged>>

Handle ==
  \/ HandleVer \/ HandleAuth \/ HandleCtrl
  \/ ConfigGetStatus \/ ConfigSet \/ ConfigApply
  \/ ScanStart \/ ScanGetStatus \/ ScanGetResults
  \/ CredWrite \/ CredFinalize \/ CredGetStatus

CallNext ==
  \/ \E c \in Calls : Call(c)
  \/ TooLong \/ Unauthorized \/ Refused \/ Handle
  \/ Receive
  \/ Reconnect

CallSpec == CallInit /\ [][CallNext]_callVars

-----------------------------------------------------------------------------
\* What the proofs suppose of the codecs: a bare status fits its buffer whatever
\* the operation of the request, and so do the answers to a configuration and to
\* a control request...
AnswersFit ==
  /\ \A c \in CallsWith({"auth", "wifi", "scan", "cred"}) : \A x \in Sends(c) : peek_op(x) \in 0..2
  /\ \A op \in 0..2, s \in {invalid_argument, internal_error, unauthorized} :
       EncodesRsp("ctrl", [ctrl_op |-> op, status |-> s], 16)
  /\ \A s \in {ok, invalid_argument} :
       EncodesRsp("config", [choice |-> "config_set_rsp", m |-> [status |-> s]], MsgMax)
  /\ \A op \in 0..2 : EncodesRsp("ctrl", [ctrl_op |-> op, status |-> ok], MsgMax)

\* ... and of the clients: a channel above 255 would be cut to eight bits.
ChannelsFit == \A cfg \in Configs : Field(cfg, "ch", 0) \in 0..255

\* What the protocol lets a request say (prov.cddl).
Valid(c) ==
  CASE c.choice = "config_set" ->
         LET cfg == c.m.wifi_config
         IN /\ cfg.ssid \in 1..32
            /\ Field(cfg, "pass", 0) \in 0..64
            /\ Field(cfg, "bssid", 6) = 6
    [] c.choice = "cred_write" -> c.m.cred_chunk.kind \in 0..2
    [] OTHER -> TRUE

Struct(c) == IF c.choice = "ver_req" THEN c.m ELSE [choice |-> c.choice, m |-> c.m]

Plain == request = EncodedReq(call.choice, call.m)

\* A handler works on what the client meant, field for field, and a valid
\* request is not refused: the decoder that was generated from the schema and
\* the hand-written encoder of the client agree on keys, their order, and which
\* of them may be missing.
RequestUnderstood ==
  /\ read = "handled" => got = Struct(call)
  /\ read = "refused" => ~Valid(call) \/ ~Plain

\* The fields of a response as the client is to report them.
Report(choice, rsp) ==
  CASE choice = "ver_req" ->
         [proto |-> rsp.ver_info.proto, caps |-> rsp.ver_info.caps.tstr, block_size |-> rsp.ver_info.blk,
          lib |-> rsp.ver_info.lib, pop_required |-> rsp.ver_info.pop]
    [] choice = "auth_challenge" -> <<rsp.m.dev_nonce, rsp.m.dev_proof>>
    [] choice = "config_get_status" ->
         [state |-> rsp.m.sta_state,
          detail |-> IF "detail" \notin DOMAIN rsp.m THEN <<>>
                     ELSE IF rsp.m.detail.choice = "fail_reason" THEN [fail_reason |-> rsp.m.detail.m]
                     ELSE rsp.m.detail.m]
    [] choice = "scan_get_status" -> <<rsp.m.finished, rsp.m.total>>
    [] choice = "scan_get_results" -> rsp.m.list.entries
    [] choice = "cred_write" -> rsp.m.received
    [] choice = "cred_get_status" ->
         LET pairs == ToSet(rsp.m.map.tstruint)
         IN [k \in {p[1] : p \in pairs} |-> (CHOOSE p \in pairs : p[1] = k)[2]]
    [] OTHER -> <<>>

\* The client reports the status and the fields the device answered with, on
\* every path through dispatch.c and the handlers: an error raised before the
\* operation is known still carries the operation the client waits for
\* (peek_op), so it is never taken for the answer to something else.
AnswerUnderstood ==
  pc = "answered" =>
    Outcome = IF said.status # ok THEN [kind |-> "ProvError", status |-> said.status]
              ELSE [kind |-> "value", value |-> Report(call.choice, said.rsp)]

\* Between calls the device has staged what it last acknowledged, whatever
\* refused, failed and repeated calls came before: pouch_prov_wifi_reset_state
\* and do_set leave nothing of an older configuration behind.
StagedIsLastAccepted ==
  pc = "idle" => wc = staged

\* What version.c announces is what dispatch.c serves: a client that calls only
\* what is announced always gets an answer, and is refused for want of a proof
\* only if it was told to give one.  The two differ on a secret in a build
\* without .prov/auth (README, "What does not hold").
AnnouncedIsServed ==
  /\ pc # "idle" => call.path \in Endpoints
  /\ pc = "answered" => answer # <<>>
  /\ pc = "answered" /\ said.status = unauthorized /\ caps # {"?"} /\ (pop => "auth" \in build)
       => "auth" \in caps

\* "a conservative bound that keeps the encoded page within POUCH_PROV_MSG_MAX":
\* a page of scan results is answered with the results.
PagesFit ==
  pc = "answered" /\ read = "handled" /\ call.choice = "scan_get_results" => said.status = ok

\* "decoders MUST ignore unknown keys": a valid request with one more key in
\* its map is not refused.
UnknownKeysIgnored ==
  read = "refused" => ~Valid(call)
=============================================================================
