------------------------- MODULE MCCredStoreSessions -------------------------
(* Small instances of CredStoreSessions for TLC. *)
EXTENDS CredStoreSessions

CONSTANT a

\* One-cell blobs: the order of whole writes, saves and failures.
OneCellCap == [k \in Kinds |-> 1]
OneCellDerLen == [x \in {a} |-> 1]
=============================================================================
