---------------------------- MODULE ClientCodec ----------------------------
(***************************************************************************)
(* The messages of the client: src/cli/src/pouchprov/codec.py on top of    *)
(* the cbor2 library.                                                      *)
(***************************************************************************)
EXTENDS Cbor

\* A pair of a dict that is there when the argument is not None.
Optional(args, arg, pair) == IF arg \in DOMAIN args THEN <<pair>> ELSE <<>>
Pass(cfg) == Optional(cfg, "pass", Pair("pass", Bstr(cfg.pass)))
Bssid(cfg) == Optional(cfg, "bssid", Pair("bssid", Bstr(cfg.bssid)))
Ch(cfg) == Optional(cfg, "ch", Pair("ch", Uint(cfg.ch)))

encode_ver_req == List(<<Uint(0)>>)
encode_auth_challenge(cli_nonce) == List(<<Uint(0), Bstr(cli_nonce)>>)
encode_auth_proof(cli_proof) == List(<<Uint(1), Bstr(cli_proof)>>)
encode_config_get_status == List(<<Uint(0)>>)
encode_config_apply == List(<<Uint(2)>>)

\* Mutant: the channel comes before the BSSID.
ConfigDictSwapped(cfg) == <<Pair("ssid", Bstr(cfg.ssid))>> \o Pass(cfg) \o Ch(cfg) \o Bssid(cfg)

ConfigDict(cfg) == <<Pair("ssid", Bstr(cfg.ssid))>> \o Pass(cfg) \o Bssid(cfg) \o Ch(cfg)

encode_config_set(cfg) == List(<<Uint(1), Map(ConfigDict(cfg))>>)
encode_scan_start(params) ==
  List(<<Uint(0), Map(Optional(params, "passive", Pair("passive", Bool(params.passive)))
                        \o Optional(params, "period_ms", Pair("period-ms", Uint(params.period_ms))))>>)
encode_scan_get_status == List(<<Uint(1)>>)
encode_scan_get_results(start, count) == List(<<Uint(2), Uint(start), Uint(count)>>)
encode_cred_write(c) ==
  List(<<Uint(0), Map(<<Pair("kind", Uint(c.kind)), Pair("off", Uint(c.off)),
                        Pair("total", Uint(c.total)), Pair("data", Bstr(c.data))>>)>>)
encode_cred_finalize == List(<<Uint(1)>>)
encode_cred_get_status == List(<<Uint(2)>>)
encode_ctrl(op) == List(<<Uint(op)>>)

\* The call that a flow makes for an operation.
Encode(choice, m) ==
  CASE choice = "ver_req" -> encode_ver_req
    [] choice = "auth_challenge" -> encode_auth_challenge(m.cli_nonce)
    [] choice = "auth_proof" -> encode_auth_proof(m.cli_proof)
    [] choice = "config_get_status" -> encode_config_get_status
    [] choice = "config_set" -> encode_config_set(m.wifi_config)
    [] choice = "config_apply" -> encode_config_apply
    [] choice = "scan_start" -> encode_scan_start(m.scan_params)
    [] choice = "scan_get_status" -> encode_scan_get_status
    [] choice = "scan_get_results" -> encode_scan_get_results(m.start, m.count)
    [] choice = "cred_write" -> encode_cred_write(m.cred_chunk)
    [] choice = "cred_finalize" -> encode_cred_finalize
    [] choice = "cred_get_status" -> encode_cred_get_status
    [] choice = "ctrl_reset" -> encode_ctrl(0)
    [] choice = "ctrl_reprovision" -> encode_ctrl(1)
    [] choice = "ctrl_end" -> encode_ctrl(2)

-----------------------------------------------------------------------------
\* cbor2.loads: a map becomes a dict, whatever the order of its keys.
RECURSIVE loads(_)
loads(x) ==
  CASE x[1] = "list" -> [i \in DOMAIN x[2] |-> loads(x[2][i])]
    [] x[1] = "map" -> [k \in {p[2][1] : p \in ToSet(x[2])} |->
                          loads((CHOOSE p \in ToSet(x[2]) : p[2][1] = k)[2][2])]
    [] OTHER -> x[2]

\* The fields of a response that decode_..._rsp returns; an answer of status ok
\* has them all.
decode_ver_rsp(x) ==
  LET info == loads(x[2][3])
  IN [proto |-> info.proto, caps |-> info.caps, block_size |-> info.blk, lib |-> info.lib,
      pop_required |-> "pop" \in DOMAIN info /\ info.pop]

decode_auth_challenge_rsp(x) == <<loads(x[2][3]), loads(x[2][4])>>

decode_config_status_rsp(x) ==
  LET detail == x[2][4]
      shown == IF Len(x[2]) = 3 THEN <<>>
               ELSE IF detail[1] = "uint" THEN [fail_reason |-> loads(detail)]
               ELSE loads(detail)
  IN [state |-> loads(x[2][3]), detail |-> shown]

decode_scan_status_rsp(x) == <<loads(x[2][3]), loads(x[2][4])>>
decode_scan_results_rsp(x) == loads(x[2][3])
decode_cred_write_rsp(x) == loads(x[2][3])
decode_cred_status_rsp(x) == loads(x[2][3])

Fields(choice, x) ==
  CASE choice = "ver_req" -> decode_ver_rsp(x)
    [] choice = "auth_challenge" -> decode_auth_challenge_rsp(x)
    [] choice = "config_get_status" -> decode_config_status_rsp(x)
    [] choice = "scan_get_status" -> decode_scan_status_rsp(x)
    [] choice = "scan_get_results" -> decode_scan_results_rsp(x)
    [] choice = "cred_write" -> decode_cred_write_rsp(x)
    [] choice = "cred_get_status" -> decode_cred_status_rsp(x)
    [] OTHER -> <<>>

\* _decode: a list that answers the operation asked for, and its status.
Decode(choice, op, x) ==
  IF x[1] # "list" \/ Len(x[2]) < 2 \/ x[2][1] # Uint(op) THEN [kind |-> "DecodeError"]
  ELSE IF x[2][2] # Uint(0) THEN [kind |-> "ProvError", status |-> x[2][2][2]]
  ELSE [kind |-> "value", value |-> Fields(choice, x)]
=============================================================================
