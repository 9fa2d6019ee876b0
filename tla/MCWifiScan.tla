----------------------------- MODULE MCWifiScan -----------------------------
\* Instances of WifiScan: more access points than the cache takes, and a cache
\* that is no multiple of the page.
EXTENDS WifiScan
=============================================================================
