------------------------------ MODULE Transfer ------------------------------
(***************************************************************************)
(* What a SAR transaction promises, whichever end is the client's: the     *)
(* fragments of one blob arrive in order, each once, and the client's call *)
(* returns normally only when all of them have; else it raises.            *)
(***************************************************************************)
EXTENDS Naturals, Sequences

CONSTANT Frags  \* fragments of the blob

VARIABLES
  got,  \* fragments the receiving end has taken
  out   \* the client's call: "busy", "ok" or "failed"

Init == got = <<>> /\ out = "busy"

Take ==
  /\ Len(got) < Frags
  /\ got' = Append(got, Len(got) + 1)
  /\ UNCHANGED out

Return ==
  /\ out = "busy"
  /\ Len(got) = Frags
  /\ out' = "ok"
  /\ UNCHANGED got

Raise ==
  /\ out = "busy"
  /\ out' = "failed"
  /\ UNCHANGED got

Next == Take \/ Return \/ Raise

Spec == Init /\ [][Next]_<<got, out>>
=============================================================================
