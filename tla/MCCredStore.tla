---------------------------- MODULE MCCredStore ----------------------------
(* Small instances of CredStore for TLC. *)
EXTENDS CredStore

CONSTANTS a, b

\* Two certificates of different length, single-cell keys, no CA: the bytes
\* of a write that is restarted, interrupted or reloaded.
BytesCap == [k \in Kinds |-> CASE k = "cert" -> 2 [] k = "key" -> 1 [] k = "ca" -> 0]
BytesDerLen == [x \in {a, b} |-> IF x = a THEN 1 ELSE 2]
=============================================================================
