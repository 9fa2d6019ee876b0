----------------------------- MODULE ProvDecode -----------------------------
(***************************************************************************)
(* src/src/codec/prov_decode.c: the type each generated function reads.    *)
(* The device decodes requests; the tests decode the responses as well.    *)
(***************************************************************************)
EXTENDS Cbor

decode_prov_status == UintIn(0..6)

decode_repeated_ver_info_pop == Key("pop", bool)

decode_ver_info == MapOf(<<
  One("proto", Key("proto", uint32)),
  One("caps", Key("caps", ListOf(<<Many("tstr", 8, tstr)>>))),
  One("blk", Key("blk", uint32)),
  One("lib", Key("lib", tstr)),
  Opt("pop", decode_repeated_ver_info_pop)>>)

decode_auth_challenge == ListOf(<<Op(0), One("cli_nonce", BstrIn({16}))>>)

decode_auth_proof == ListOf(<<Op(1), One("cli_proof", BstrIn({32}))>>)

decode_config_get_status == ListOf(<<Op(0)>>)

\* Mutant: passphrases of 32 bytes at most.
decode_pass_short == Key("pass", BstrIn(0..32))

decode_repeated_wifi_config_pass == Key("pass", BstrIn(0..64))

decode_repeated_wifi_config_bssid == Key("bssid", BstrIn({6}))

decode_repeated_wifi_config_ch == Key("ch", uint32)

decode_wifi_config == MapOf(<<
  One("ssid", Key("ssid", BstrIn(1..32))),
  Opt("pass", decode_repeated_wifi_config_pass),
  Opt("bssid", decode_repeated_wifi_config_bssid),
  Opt("ch", decode_repeated_wifi_config_ch)>>)

decode_config_set == ListOf(<<Op(1), One("wifi_config", decode_wifi_config)>>)

decode_config_apply == ListOf(<<Op(2)>>)

decode_repeated_scan_params_passive == Key("passive", bool)

decode_repeated_scan_params_period_ms == Key("period-ms", uint32)

decode_scan_params == MapOf(<<
  Opt("passive", decode_repeated_scan_params_passive),
  Opt("period_ms", decode_repeated_scan_params_period_ms)>>)

decode_scan_start == ListOf(<<Op(0), One("scan_params", decode_scan_params)>>)

decode_scan_get_status == ListOf(<<Op(1)>>)

decode_scan_get_results == ListOf(<<Op(2), One("start", uint32), One("count", uint32)>>)

decode_ctrl_reset == ListOf(<<Op(0)>>)

decode_ctrl_reprovision == ListOf(<<Op(1)>>)

decode_ctrl_end == ListOf(<<Op(2)>>)

decode_auth_challenge_rsp == ListOf(<<
  Op(0), One("status", decode_prov_status),
  One("dev_nonce", BstrIn({16})), One("dev_proof", BstrIn({32}))>>)

decode_auth_proof_rsp == ListOf(<<Op(1), One("status", decode_prov_status)>>)

decode_scan_start_rsp == ListOf(<<Op(0), One("status", decode_prov_status)>>)

decode_scan_status_rsp == ListOf(<<
  Op(1), One("status", decode_prov_status), One("finished", bool), One("total", uint32)>>)

decode_scan_entry == MapOf(<<
  One("ssid", Key("ssid", BstrIn(0..32))),
  One("bssid", Key("bssid", BstrIn({6}))),
  One("ch", Key("ch", uint32)),
  One("rssi", Key("rssi", int32)),
  One("auth", Key("auth", uint32))>>)

decode_scan_results_rsp == ListOf(<<
  Op(2), One("status", decode_prov_status),
  One("list", ListOf(<<Many("entries", 8, decode_scan_entry)>>))>>)

decode_cred_write_rsp == ListOf(<<
  Op(0), One("status", decode_prov_status), One("received", uint32)>>)

decode_cred_finalize_rsp == ListOf(<<Op(1), One("status", decode_prov_status)>>)

decode_repeated_map_tstruint == AnyKey(uint32)

decode_cred_status_rsp == ListOf(<<
  Op(2), One("status", decode_prov_status),
  One("map", MapOf(<<Many("tstruint", 8, decode_repeated_map_tstruint)>>))>>)

decode_sta_state == UintIn(0..3)

decode_fail_reason == UintIn(0..1)

decode_repeated_connected_info_rssi == Key("rssi", int32)

decode_connected_info == MapOf(<<
  One("ip4", Key("ip4", BstrIn({4}))),
  One("ssid", Key("ssid", BstrIn(1..32))),
  Opt("rssi", decode_repeated_connected_info_rssi)>>)

decode_config_detail == UnionOf(<<
  One("fail_reason", decode_fail_reason), One("connected_info", decode_connected_info)>>)

decode_config_status_rsp == ListOf(<<
  Op(0), One("status", decode_prov_status),
  One("sta_state", decode_sta_state), Opt("detail", decode_config_detail)>>)

decode_config_set_rsp == ListOf(<<Op(1), One("status", decode_prov_status)>>)

decode_config_apply_rsp == ListOf(<<Op(2), One("status", decode_prov_status)>>)

decode_cred_kind == UintIn(0..2)

decode_cred_chunk == MapOf(<<
  One("kind", Key("kind", decode_cred_kind)),
  One("off", Key("off", uint32)),
  One("total", Key("total", uint32)),
  One("data", Key("data", bstr))>>)

decode_cred_write == ListOf(<<Op(0), One("cred_chunk", decode_cred_chunk)>>)

decode_cred_finalize == ListOf(<<Op(1)>>)

decode_cred_get_status == ListOf(<<Op(2)>>)

decode_ctrl_rsp == ListOf(<<One("ctrl_op", UintIn(0..2)), One("status", decode_prov_status)>>)

decode_ctrl_req == UnionOf(<<
  One("ctrl_reset", decode_ctrl_reset), One("ctrl_reprovision", decode_ctrl_reprovision),
  One("ctrl_end", decode_ctrl_end)>>)

decode_cred_rsp == UnionOf(<<
  One("cred_write_rsp", decode_cred_write_rsp), One("cred_finalize_rsp", decode_cred_finalize_rsp),
  One("cred_status_rsp", decode_cred_status_rsp)>>)

decode_cred_req == UnionOf(<<
  One("cred_write", decode_cred_write), One("cred_finalize", decode_cred_finalize),
  One("cred_get_status", decode_cred_get_status)>>)

decode_scan_rsp == UnionOf(<<
  One("scan_start_rsp", decode_scan_start_rsp), One("scan_status_rsp", decode_scan_status_rsp),
  One("scan_results_rsp", decode_scan_results_rsp)>>)

decode_scan_req == UnionOf(<<
  One("scan_start", decode_scan_start), One("scan_get_status", decode_scan_get_status),
  One("scan_get_results", decode_scan_get_results)>>)

decode_config_rsp == UnionOf(<<
  One("config_status_rsp", decode_config_status_rsp), One("config_set_rsp", decode_config_set_rsp),
  One("config_apply_rsp", decode_config_apply_rsp)>>)

decode_config_req == UnionOf(<<
  One("config_get_status", decode_config_get_status), One("config_set", decode_config_set),
  One("config_apply", decode_config_apply)>>)

decode_auth_rsp == UnionOf(<<
  One("auth_challenge_rsp", decode_auth_challenge_rsp), One("auth_proof_rsp", decode_auth_proof_rsp)>>)

decode_auth_req == UnionOf(<<
  One("auth_challenge", decode_auth_challenge), One("auth_proof", decode_auth_proof)>>)

decode_ver_rsp == ListOf(<<
  Op(0), One("status", decode_prov_status), One("ver_info", decode_ver_info)>>)

decode_ver_req == ListOf(<<Op(0)>>)

-----------------------------------------------------------------------------
cbor_decode_ver_req == Entry(3, decode_ver_req)
cbor_decode_ver_rsp == Entry(5, decode_ver_rsp)
cbor_decode_auth_req == Entry(4, decode_auth_req)
cbor_decode_auth_rsp == Entry(5, decode_auth_rsp)
cbor_decode_config_req == Entry(5, decode_config_req)

\* Mutant: one state too few.
cbor_decode_config_rsp_short == Entry(5, decode_config_rsp)
cbor_decode_config_rsp == Entry(6, decode_config_rsp)
cbor_decode_scan_req == Entry(5, decode_scan_req)
cbor_decode_scan_rsp == Entry(6, decode_scan_rsp)
cbor_decode_cred_req == Entry(6, decode_cred_req)
cbor_decode_cred_rsp == Entry(5, decode_cred_rsp)
cbor_decode_ctrl_req == Entry(4, decode_ctrl_req)
cbor_decode_ctrl_rsp == Entry(4, decode_ctrl_rsp)
=============================================================================
