---- MODULE MCMessages ----
EXTENDS Messages

MCBuilds == {{"wifi", "cred", "auth"}, {"wifi"}, {"cred", "auth"}}
MCConfigs ==
  {[ssid |-> 8], [ssid |-> 32, pass |-> 63, bssid |-> 6, ch |-> 11], [ssid |-> 1, pass |-> 64],
   [ssid |-> 33, pass |-> 8], [ssid |-> 0], [ssid |-> 8, bssid |-> 6], [ssid |-> 8, pass |-> 65, ch |-> 1]}
MCChunks ==
  {[kind |-> 0, off |-> 0, total |-> 700, data |-> 256], [kind |-> 2, off |-> 512, total |-> 700, data |-> 188],
   [kind |-> 3, off |-> 0, total |-> 10, data |-> 10], [kind |-> 1, off |-> 0, total |-> 700, data |-> 384]}
MCCaches == {<<>>, <<8, 0, 12>>, <<9, 10, 11, 12, 13, 14, 15>>, <<32, 32, 32, 32, 32, 32, 32>>}
====
