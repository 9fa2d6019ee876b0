------------------------------ MODULE SarSend ------------------------------
(***************************************************************************)
(* SarSender.send (src/cli/src/pouchprov/pouchlink/sar.py) against the     *)
(* receiving end of a device, which is pouch's: it is modelled from the    *)
(* one the client is tested with (transport/mock.py, _DeviceSarReceiver),  *)
(* and may repeat an ack, refuse with a NACK, fall silent or close its     *)
(* end, whereupon the channel (transport/ble.py) takes writes for          *)
(* delivered.  It handles the request when it gets the FIN, unless it is   *)
(* one of those docs/protocol.md describes, which a FIN without IDLE makes *)
(* drop the connection.                                                    *)
(*                                                                         *)
(* Writes and notifications keep their order.  A fragment is its number;   *)
(* sequence numbers and window arithmetic are modulo SeqMod (256).         *)
(***************************************************************************)
EXTENDS Naturals, Sequences

CONSTANTS
  Frags,    \* fragments of the blob, no more than SeqMod (sar.py:100)
  Window,   \* the window the device grants
  SeqMod,   \* SEQ_MASK + 1
  MaxAcks   \* bound on acks under way, for the repeated ones

VARIABLES
  pc,        \* send: "wait" for an ack, "burst" of writes, "fin", "ok" or "failed"
  seq,       \* seq
  target,    \* target
  sentLast,  \* sent_last: "no" or "yes"
  wire,      \* packets written, not yet taken by the device: [flags, seq, frag]
  acks,      \* acks notified, not yet taken: [code, seq]; history: count, the
             \* fragments the device had
  chunks,    \* the device's fragments
  closed,    \* "yes": the device has closed its end
  request,   \* the device: "open", then "handled" or "dropped" with the connection
  faults,    \* which of Faults may happen in this transfer
  written    \* history: fragments written

\* "strict" is the device of protocol.md:109-110; the others are failures.
Faults == {"nack", "silence", "close", "fin", "strict"}

sender == <<pc, seq, target, sentLast, written, faults>>
vars == <<pc, seq, target, sentLast, wire, acks, chunks, closed, request, faults, written>>

Prev(s) == (s + SeqMod - 1) % SeqMod
LastSeq == Prev(Len(chunks))
Ack(code) == [code |-> code, seq |-> LastSeq, count |-> Len(chunks)]

\* The device acks when the client subscribes.
Init ==
  /\ pc = "wait"
  /\ seq = 0
  /\ target = 0
  /\ sentLast = "no"
  /\ wire = <<>>
  /\ acks = <<[code |-> "ack", seq |-> SeqMod - 1, count |-> 0]>>
  /\ chunks = <<>>
  /\ closed = "no"
  /\ request = "open"
  /\ faults \in SUBSET Faults
  /\ written = 0

-----------------------------------------------------------------------------
\* The next ack is taken.
TakeAck(code) ==
  /\ pc = "wait"
  /\ acks # <<>>
  /\ Head(acks).code = code
  /\ acks' = Tail(acks)
  /\ UNCHANGED <<seq, sentLast, wire, chunks, written>>

\* Mutant: a window one larger than granted.
LimitOneMore(s) == (s + Window + 2) % SeqMod

Limit(s) == (s + Window + 1) % SeqMod

AckMore ==
  /\ TakeAck("ack")
  /\ sentLast = "no"
  /\ target' = Limit(Head(acks).seq)
  /\ pc' = "burst"

\* Mutant: any ack after the last fragment ends the transfer.
AllAckedEarly(s) == TRUE

AllAcked(s) == s = Prev(seq)

AckStale ==
  /\ TakeAck("ack")
  /\ sentLast = "yes"
  /\ ~AllAcked(Head(acks).seq)
  /\ target' = Limit(Head(acks).seq)
  /\ UNCHANGED pc

AckLast ==
  /\ TakeAck("ack")
  /\ sentLast = "yes"
  /\ AllAcked(Head(acks).seq)
  /\ target' = Limit(Head(acks).seq)
  /\ pc' = "fin"

AckRefused ==
  /\ TakeAck("nack")
  /\ pc' = "failed"
  /\ UNCHANGED target

Flags ==
  (IF seq = 0 THEN {"FIRST"} ELSE {}) \cup (IF seq = Frags - 1 THEN {"LAST"} ELSE {})

\* Mutant: the sequence number is not masked.
NextSeqUnmasked == seq + 1

NextSeq == (seq + 1) % SeqMod

Packet == [flags |-> Flags, seq |-> seq, frag |-> seq + 1]

\* One fragment of the inner loop.  _BleChannel.write repeats a write that is
\* refused while the link is being encrypted, and takes one that finds the
\* device's end closed for delivered.
Write ==
  /\ pc = "burst"
  /\ seq # target
  /\ sentLast = "no"
  /\ wire' = IF closed = "yes" THEN wire ELSE Append(wire, Packet)
  /\ sentLast' = IF "LAST" \in Flags THEN "yes" ELSE "no"
  /\ seq' = NextSeq
  /\ written' = written + 1
  /\ UNCHANGED <<pc, target, acks, chunks>>

\* The write raises, with or without the device having the fragment.
WriteFails ==
  /\ "silence" \in faults
  /\ closed = "no"
  /\ pc = "burst"
  /\ seq # target
  /\ sentLast = "no"
  /\ wire' \in {wire, Append(wire, Packet)}
  /\ written' = written + 1
  /\ pc' = "failed"
  /\ UNCHANGED <<seq, target, sentLast, acks, chunks>>

BurstEnds ==
  /\ pc = "burst"
  /\ seq = target \/ sentLast = "yes"
  /\ pc' = "wait"
  /\ UNCHANGED <<seq, target, sentLast, wire, acks, chunks, written>>

\* FIN is best effort: send returns also when its write fails.
Fin ==
  /\ pc = "fin"
  /\ pc' = "ok"
  /\ wire' \in (IF closed = "yes" THEN {} ELSE {Append(wire, [flags |-> {"FIN"}, seq |-> 0, frag |-> 0])})
                 \cup (IF "fin" \in faults \/ closed = "yes" THEN {wire} ELSE {})
  /\ UNCHANGED <<seq, target, sentLast, acks, chunks, written>>

Timeout ==
  /\ faults \cap {"silence", "close"} # {}
  /\ pc = "wait"
  /\ acks = <<>>
  /\ pc' = "failed"
  /\ UNCHANGED <<seq, target, sentLast, wire, acks, chunks, written>>

-----------------------------------------------------------------------------
\* The device takes the next fragment, in order, and acks it ...
DeviceTake ==
  /\ wire # <<>>
  /\ "FIN" \notin Head(wire).flags
  /\ chunks' = Append(chunks, Head(wire).frag)
  /\ acks' = Append(acks, [code |-> "ack", seq |-> Head(wire).seq, count |-> Len(chunks) + 1])
  /\ wire' = Tail(wire)
  /\ UNCHANGED <<closed, request, sender>>

\* ... handles the request with the FIN, or drops the connection ...
DeviceFin ==
  /\ wire # <<>>
  /\ "FIN" \in Head(wire).flags
  /\ wire' = Tail(wire)
  /\ request' = IF "strict" \in faults /\ "IDLE" \notin Head(wire).flags
                THEN "dropped" ELSE "handled"
  /\ UNCHANGED <<acks, chunks, closed, sender>>

\* ... may repeat the last ack ...
DeviceReack ==
  /\ closed = "no"
  /\ Len(acks) < MaxAcks
  /\ acks' = Append(acks, Ack("ack"))
  /\ UNCHANGED <<wire, chunks, closed, request, sender>>

\* ... may refuse ...
DeviceNack ==
  /\ closed = "no"
  /\ "nack" \in faults
  /\ Len(acks) < MaxAcks
  /\ acks' = Append(acks, Ack("nack"))
  /\ UNCHANGED <<wire, chunks, closed, request, sender>>

\* ... and may close its end, with what it was sent.
DeviceClose ==
  /\ "close" \in faults
  /\ closed' = "yes"
  /\ wire' = <<>>
  /\ UNCHANGED <<acks, chunks, request, sender>>

-----------------------------------------------------------------------------
Client ==
  /\ \/ AckMore \/ AckStale \/ AckLast \/ AckRefused \/ Write \/ WriteFails
     \/ BurstEnds \/ Fin \/ Timeout
  /\ UNCHANGED <<closed, request, faults>>

Next == Client \/ DeviceTake \/ DeviceFin \/ DeviceReack \/ DeviceNack \/ DeviceClose

Spec == Init /\ [][Next]_vars

-----------------------------------------------------------------------------
\* The types of both ends' state.
TypeOK ==
  /\ pc \in {"wait", "burst", "fin", "ok", "failed"}
  /\ seq \in 0..(SeqMod - 1)
  /\ target \in 0..(SeqMod - 1)
  /\ sentLast \in {"no", "yes"}
  /\ wire \in Seq([flags : SUBSET {"FIRST", "LAST", "FIN"}, seq : 0..(SeqMod - 1), frag : 0..Frags])
  /\ acks \in Seq([code : {"ack", "nack"}, seq : 0..(SeqMod - 1), count : 0..Frags])
  /\ chunks \in Seq(1..Frags)
  /\ closed \in {"no", "yes"}
  /\ request \in {"open", "handled", "dropped"}
  /\ faults \subseteq Faults
  /\ written \in 0..Frags

\* The sender never has more fragments out than the window it was granted, also
\* when acks are repeated or stale (sar.py:84, 99).
WindowRespected == written - Len(chunks) <= Window

\* send returns only with the whole blob at the device, each fragment once and in
\* order, at up to SeqMod fragments (sar.py:86-96), and although writes to an end
\* that is closed count as delivered (ble.py:112).
T == INSTANCE Transfer WITH got <- chunks,
                            out <- IF pc \in {"ok", "failed"} THEN pc ELSE "busy"
ImplementsTransfer == T!Spec

\* protocol.md:109: "The client's final FIN must carry the IDLE flag".
\* The code does not keep to it: see "What does not hold" in README.md.
FinCarriesIdle ==
  \A i \in DOMAIN wire : "FIN" \in wire[i].flags => "IDLE" \in wire[i].flags
=============================================================================
