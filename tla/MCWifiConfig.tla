---------------------------- MODULE MCWifiConfig ----------------------------
(* Small instances of WifiConfig for TLC. *)
EXTENDS WifiConfig

CONSTANTS n1, n2, p1, p2
=============================================================================
