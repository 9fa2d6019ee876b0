----------------------------- MODULE SarReceive -----------------------------
(***************************************************************************)
(* SarReceiver.receive (src/cli/src/pouchprov/pouchlink/sar.py) against    *)
(* the sending end of a device, which is pouch's: it is modelled from the  *)
(* one the client is tested with (transport/mock.py, _DeviceSarSender) and *)
(* from docs/protocol.md:115, "the device re-pushes pending fragments"     *)
(* when an ack is repeated, so that the client sees fragments again.       *)
(*                                                                         *)
(* A blob may have more fragments than there are sequence numbers.         *)
(***************************************************************************)
EXTENDS Naturals, Sequences

CONSTANTS
  Frags,    \* fragments of the blob
  Window,   \* window of the receiver
  SeqMod,   \* SEQ_MASK + 1
  MaxAcks   \* bound on acks under way, for the periodic ones

VARIABLES
  pc,        \* receive: "open", "wait", "ok" or "failed"
  expected,  \* expected
  last,      \* last
  ended,     \* ended: "no" or "yes"
  chunks,    \* chunks, as fragment numbers
  wire,      \* packets notified, not yet taken: [flags, seq, frag]; history: high,
             \* the fragments sent before it
  acks,      \* acks written, not yet taken by the device: [seq]; history: count,
             \* the fragments received before it
  acked,     \* device: fragments known to have arrived
  sent,      \* device: fragments sent
  device,    \* device: "sending", "fin" or "aborted"
  faults     \* which of Faults may happen in this transfer

Faults == {"abort", "silence"}

client == <<pc, expected, last, ended, chunks, faults>>
dev == <<acked, sent, device, faults>>
vars == <<pc, expected, last, ended, chunks, wire, acks, acked, sent, device, faults>>

Init ==
  /\ pc = "open"
  /\ expected = 0
  /\ last = SeqMod - 1
  /\ ended = "no"
  /\ chunks = <<>>
  /\ wire = <<>>
  /\ acks = <<>>
  /\ acked = 0
  /\ sent = 0
  /\ device = "sending"
  /\ faults \in SUBSET Faults

-----------------------------------------------------------------------------
Ack(s, n) == [seq |-> s, count |-> n]

\* The first ack invites the device to send.
Open ==
  /\ pc = "open"
  /\ pc' = "wait"
  /\ acks' = Append(acks, Ack(last, Len(chunks)))
  /\ UNCHANGED <<expected, last, ended, chunks, wire, dev>>

\* No packet for reack_interval: the last ack again.
Reack ==
  /\ pc = "wait"
  /\ Len(acks) < MaxAcks
  /\ acks' = Append(acks, Ack(last, Len(chunks)))
  /\ UNCHANGED <<client, wire, dev>>

\* The deadline passes, or an ack cannot be written.
Timeout ==
  /\ "silence" \in faults
  /\ pc \in {"open", "wait"}
  /\ pc' = "failed"
  /\ UNCHANGED <<expected, last, ended, chunks, wire, acks, dev>>

TakePacket ==
  /\ pc = "wait"
  /\ wire # <<>>
  /\ wire' = Tail(wire)
  /\ UNCHANGED dev

Fragment == TakePacket /\ "FIN" \notin Head(wire).flags

\* Mutant: a fragment seen again is taken again.
InOrderAnyway == TRUE

InOrder == Head(wire).seq = expected

OutOfOrder ==
  /\ Fragment
  /\ ~InOrder
  /\ acks' = Append(acks, Ack(last, Len(chunks)))
  /\ UNCHANGED client

\* Mutant: the LAST flag is not noticed.
AcceptForgetsLast ==
  /\ Fragment
  /\ InOrder
  /\ ended = "no"
  /\ chunks' = Append(chunks, Head(wire).frag)
  /\ last' = Head(wire).seq
  /\ expected' = (Head(wire).seq + 1) % SeqMod
  /\ ended' = "no"
  /\ acks' = Append(acks, Ack(last', Len(chunks')))
  /\ UNCHANGED pc

\* An in-order fragment.  After the last one none is in order: the device's
\* window is smaller than the sequence space (sar.py:165 raises).
Accept ==
  /\ Fragment
  /\ InOrder
  /\ ended = "no"
  /\ chunks' = Append(chunks, Head(wire).frag)
  /\ last' = Head(wire).seq
  /\ expected' = (Head(wire).seq + 1) % SeqMod
  /\ ended' = IF "LAST" \in Head(wire).flags THEN "yes" ELSE "no"
  /\ acks' = Append(acks, Ack(last', Len(chunks')))
  /\ UNCHANGED pc

FinPacket == TakePacket /\ "FIN" \in Head(wire).flags /\ UNCHANGED <<expected, last, ended, chunks, acks>>

\* A FIN with code 0 after the last fragment ends the transaction, any other
\* raises.
FinOk ==
  /\ FinPacket
  /\ ended = "yes"
  /\ Head(wire).seq = 0
  /\ pc' = "ok"

FinBad ==
  /\ FinPacket
  /\ ended = "no" \/ Head(wire).seq # 0
  /\ pc' = "failed"

-----------------------------------------------------------------------------
\* The device learns from an ack how many fragments have arrived.
Distance(s) == (s + 1 + SeqMod - (acked % SeqMod)) % SeqMod

Packet(i) ==
  [flags |-> IF i = Frags THEN {"LAST"} ELSE {}, seq |-> (i - 1) % SeqMod, frag |-> i,
   high |-> IF sent < i THEN i - 1 ELSE sent]

\* It sends on to the end of the window; a repeated ack makes it push what is
\* pending once more.
DevicePush(from, upto) == wire' = wire \o [k \in 1..(upto - from) |-> Packet(from + k)]

Upto(a) == IF a + Window < Frags THEN a + Window ELSE Frags

DeviceAck ==
  /\ device = "sending"
  /\ acks # <<>>
  /\ acks' = Tail(acks)
  /\ acked' = acked + Distance(Head(acks).seq)
  /\ acked' < Frags
  /\ sent' = Upto(acked')
  /\ \/ DevicePush(sent, sent')
     \/ acked' = acked /\ Len(wire) < Window /\ DevicePush(acked, sent')
  /\ UNCHANGED <<device, client>>

DeviceFin ==
  /\ device = "sending"
  /\ acks # <<>>
  /\ acks' = Tail(acks)
  /\ acked' = acked + Distance(Head(acks).seq)
  /\ acked' = Frags
  /\ device' = "fin"
  /\ wire' = Append(wire, [flags |-> {"FIN"}, seq |-> 0, frag |-> 0, high |-> sent])
  /\ UNCHANGED <<sent, client>>

DeviceIdle ==
  /\ device # "sending"
  /\ acks # <<>>
  /\ acks' = Tail(acks)
  /\ UNCHANGED <<wire, dev, client>>

\* It may give up, with a FIN that says so.
DeviceAbort ==
  /\ "abort" \in faults
  /\ device = "sending"
  /\ device' = "aborted"
  /\ wire' = Append(wire, [flags |-> {"FIN"}, seq |-> 2, frag |-> 0, high |-> sent])
  /\ UNCHANGED <<acked, sent, acks, client>>

-----------------------------------------------------------------------------
Client == Open \/ OutOfOrder \/ Accept \/ FinOk \/ FinBad

Device == DeviceAck \/ DeviceFin \/ DeviceIdle

Next == Client \/ Reack \/ Timeout \/ Device \/ DeviceAbort

Spec == Init /\ [][Next]_vars

-----------------------------------------------------------------------------
\* The types of both ends' state.
TypeOK ==
  /\ pc \in {"open", "wait", "ok", "failed"}
  /\ expected \in 0..(SeqMod - 1)
  /\ last \in 0..(SeqMod - 1)
  /\ ended \in {"no", "yes"}
  /\ chunks \in Seq(1..Frags)
  /\ wire \in Seq([flags : SUBSET {"LAST", "FIN"}, seq : 0..(SeqMod - 1), frag : 0..Frags,
                   high : 0..Frags])
  /\ acks \in Seq([seq : 0..(SeqMod - 1), count : 0..Frags])
  /\ acked \in 0..Frags
  /\ sent \in 0..Frags
  /\ device \in {"sending", "fin", "aborted"}
  /\ faults \subseteq Faults

\* receive returns the blob: each fragment once and in order, though fragments
\* are pushed again and sequence numbers wrap (sar.py:160-173).
T == INSTANCE Transfer WITH got <- chunks,
                            out <- IF pc \in {"ok", "failed"} THEN pc ELSE "busy"
ImplementsTransfer == T!Spec
=============================================================================
