----------------------------- MODULE ProvEncode -----------------------------
(***************************************************************************)
(* src/src/codec/prov_encode.c: the type each generated function writes.   *)
(* The device encodes responses; the tests encode the requests as well.    *)
(***************************************************************************)
EXTENDS Cbor

encode_prov_status == UintIn(0..6)

encode_repeated_ver_info_pop == Key("pop", bool)

encode_ver_info == MapOf(<<
  One("proto", Key("proto", uint32)),
  One("caps", Key("caps", ListOf(<<Many("tstr", 8, tstr)>>))),
  One("blk", Key("blk", uint32)),
  One("lib", Key("lib", tstr)),
  Opt("pop", encode_repeated_ver_info_pop)>>)

encode_auth_challenge == ListOf(<<Op(0), One("cli_nonce", BstrIn({16}))>>)

encode_auth_proof == ListOf(<<Op(1), One("cli_proof", BstrIn({32}))>>)

encode_config_get_status == ListOf(<<Op(0)>>)

encode_repeated_wifi_config_pass == Key("pass", BstrIn(0..64))

encode_repeated_wifi_config_bssid == Key("bssid", BstrIn({6}))

encode_repeated_wifi_config_ch == Key("ch", uint32)

encode_wifi_config == MapOf(<<
  One("ssid", Key("ssid", BstrIn(1..32))),
  Opt("pass", encode_repeated_wifi_config_pass),
  Opt("bssid", encode_repeated_wifi_config_bssid),
  Opt("ch", encode_repeated_wifi_config_ch)>>)

encode_config_set == ListOf(<<Op(1), One("wifi_config", encode_wifi_config)>>)

encode_config_apply == ListOf(<<Op(2)>>)

encode_repeated_scan_params_passive == Key("passive", bool)

encode_repeated_scan_params_period_ms == Key("period-ms", uint32)

encode_scan_params == MapOf(<<
  Opt("passive", encode_repeated_scan_params_passive),
  Opt("period_ms", encode_repeated_scan_params_period_ms)>>)

encode_scan_start == ListOf(<<Op(0), One("scan_params", encode_scan_params)>>)

encode_scan_get_status == ListOf(<<Op(1)>>)

encode_scan_get_results == ListOf(<<Op(2), One("start", uint32), One("count", uint32)>>)

encode_ctrl_reset == ListOf(<<Op(0)>>)

encode_ctrl_reprovision == ListOf(<<Op(1)>>)

encode_ctrl_end == ListOf(<<Op(2)>>)

encode_auth_challenge_rsp == ListOf(<<
  Op(0), One("status", encode_prov_status),
  One("dev_nonce", BstrIn({16})), One("dev_proof", BstrIn({32}))>>)

encode_auth_proof_rsp == ListOf(<<Op(1), One("status", encode_prov_status)>>)

encode_scan_start_rsp == ListOf(<<Op(0), One("status", encode_prov_status)>>)

encode_scan_status_rsp == ListOf(<<
  Op(1), One("status", encode_prov_status), One("finished", bool), One("total", uint32)>>)

encode_scan_entry == MapOf(<<
  One("ssid", Key("ssid", BstrIn(0..32))),
  One("bssid", Key("bssid", BstrIn({6}))),
  One("ch", Key("ch", uint32)),
  One("rssi", Key("rssi", int32)),
  One("auth", Key("auth", uint32))>>)

encode_scan_results_rsp == ListOf(<<
  Op(2), One("status", encode_prov_status),
  One("list", ListOf(<<Many("entries", 8, encode_scan_entry)>>))>>)

encode_cred_write_rsp == ListOf(<<
  Op(0), One("status", encode_prov_status), One("received", uint32)>>)

encode_cred_finalize_rsp == ListOf(<<Op(1), One("status", encode_prov_status)>>)

encode_repeated_map_tstruint == AnyKey(uint32)

encode_cred_status_rsp == ListOf(<<
  Op(2), One("status", encode_prov_status),
  One("map", MapOf(<<Many("tstruint", 8, encode_repeated_map_tstruint)>>))>>)

encode_sta_state == UintIn(0..3)

encode_fail_reason == UintIn(0..1)

encode_repeated_connected_info_rssi == Key("rssi", int32)

encode_connected_info == MapOf(<<
  One("ip4", Key("ip4", BstrIn({4}))),
  One("ssid", Key("ssid", BstrIn(1..32))),
  Opt("rssi", encode_repeated_connected_info_rssi)>>)

encode_config_detail == UnionOf(<<
  One("fail_reason", encode_fail_reason), One("connected_info", encode_connected_info)>>)

encode_config_status_rsp == ListOf(<<
  Op(0), One("status", encode_prov_status),
  One("sta_state", encode_sta_state), Opt("detail", encode_config_detail)>>)

encode_config_set_rsp == ListOf(<<Op(1), One("status", encode_prov_status)>>)

encode_config_apply_rsp == ListOf(<<Op(2), One("status", encode_prov_status)>>)

encode_cred_kind == UintIn(0..2)

encode_cred_chunk == MapOf(<<
  One("kind", Key("kind", encode_cred_kind)),
  One("off", Key("off", uint32)),
  One("total", Key("total", uint32)),
  One("data", Key("data", bstr))>>)

encode_cred_write == ListOf(<<Op(0), One("cred_chunk", encode_cred_chunk)>>)

encode_cred_finalize == ListOf(<<Op(1)>>)

encode_cred_get_status == ListOf(<<Op(2)>>)

encode_ctrl_rsp == ListOf(<<One("ctrl_op", UintIn(0..2)), One("status", encode_prov_status)>>)

encode_ctrl_req == UnionOf(<<
  One("ctrl_reset", encode_ctrl_reset), One("ctrl_reprovision", encode_ctrl_reprovision),
  One("ctrl_end", encode_ctrl_end)>>)

encode_cred_rsp == UnionOf(<<
  One("cred_write_rsp", encode_cred_write_rsp), One("cred_finalize_rsp", encode_cred_finalize_rsp),
  One("cred_status_rsp", encode_cred_status_rsp)>>)

encode_cred_req == UnionOf(<<
  One("cred_write", encode_cred_write), One("cred_finalize", encode_cred_finalize),
  One("cred_get_status", encode_cred_get_status)>>)

encode_scan_rsp == UnionOf(<<
  One("scan_start_rsp", encode_scan_start_rsp), One("scan_status_rsp", encode_scan_status_rsp),
  One("scan_results_rsp", encode_scan_results_rsp)>>)

encode_scan_req == UnionOf(<<
  One("scan_start", encode_scan_start), One("scan_get_status", encode_scan_get_status),
  One("scan_get_results", encode_scan_get_results)>>)

encode_config_rsp == UnionOf(<<
  One("config_status_rsp", encode_config_status_rsp), One("config_set_rsp", encode_config_set_rsp),
  One("config_apply_rsp", encode_config_apply_rsp)>>)

encode_config_req == UnionOf(<<
  One("config_get_status", encode_config_get_status), One("config_set", encode_config_set),
  One("config_apply", encode_config_apply)>>)

encode_auth_rsp == UnionOf(<<
  One("auth_challenge_rsp", encode_auth_challenge_rsp), One("auth_proof_rsp", encode_auth_proof_rsp)>>)

encode_auth_req == UnionOf(<<
  One("auth_challenge", encode_auth_challenge), One("auth_proof", encode_auth_proof)>>)

encode_ver_rsp == ListOf(<<
  Op(0), One("status", encode_prov_status), One("ver_info", encode_ver_info)>>)

encode_ver_req == ListOf(<<Op(0)>>)

-----------------------------------------------------------------------------
cbor_encode_ver_req == Entry(3, encode_ver_req)
cbor_encode_ver_rsp == Entry(5, encode_ver_rsp)
cbor_encode_auth_req == Entry(4, encode_auth_req)
cbor_encode_auth_rsp == Entry(5, encode_auth_rsp)
cbor_encode_config_req == Entry(5, encode_config_req)

cbor_encode_config_rsp == Entry(6, encode_config_rsp)
cbor_encode_scan_req == Entry(5, encode_scan_req)
cbor_encode_scan_rsp == Entry(6, encode_scan_rsp)
cbor_encode_cred_req == Entry(6, encode_cred_req)
cbor_encode_cred_rsp == Entry(5, encode_cred_rsp)
cbor_encode_ctrl_req == Entry(4, encode_ctrl_req)
cbor_encode_ctrl_rsp == Entry(4, encode_ctrl_rsp)
=============================================================================
