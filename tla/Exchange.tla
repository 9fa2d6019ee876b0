------------------------------ MODULE Exchange ------------------------------
(***************************************************************************)
(* One exchange of a session (src/cli/src/pouchprov/session.py): the       *)
(* request pouch is sent on the downlink characteristic (SarSend), then    *)
(* the response pouch is received on the uplink one (SarReceive).  Rpc is  *)
(* about the polls for a response that is not ready.                       *)
(***************************************************************************)
EXTENDS Naturals, Sequences

CONSTANTS
  ReqFrags, ReqWindow, ReqSeqMod,  \* request: fragments, device's window, sequence numbers
  RspFrags, RspWindow, RspSeqMod,  \* response: fragments, client's window, sequence numbers
  MaxAcks                          \* bound on acks under way

\* sar.py:100: "fragments are < 256 for provisioning payloads".  The code of a
\* FIN, 0 or 2, has a sequence number's byte (sar.py:9-10).
ASSUME ExchangeAssumption ==
  /\ ReqSeqMod \in Nat /\ ReqFrags \in 1..ReqSeqMod /\ ReqWindow \in 1..(ReqSeqMod - 1)
  /\ RspSeqMod \in Nat /\ RspSeqMod > 2 /\ RspFrags \in Nat \ {0} /\ RspWindow \in 1..(RspSeqMod - 1)
  /\ MaxAcks \in Nat \ {0}

VARIABLES
  side,  \* the characteristic subscribed: "downlink" or "uplink"
  sPc, seq, target, sentLast, sWire, sAcks, sChunks, closed, request, sFaults, written,
  rPc, expected, last, ended, rChunks, rWire, rAcks, acked, sent, device, rFaults

S == INSTANCE SarSend WITH
       Frags <- ReqFrags, Window <- ReqWindow, SeqMod <- ReqSeqMod,
       pc <- sPc, wire <- sWire, acks <- sAcks, chunks <- sChunks, faults <- sFaults
R == INSTANCE SarReceive WITH
       Frags <- RspFrags, Window <- RspWindow, SeqMod <- RspSeqMod,
       pc <- rPc, wire <- rWire, acks <- rAcks, chunks <- rChunks, faults <- rFaults

sending == <<sPc, seq, target, sentLast, sWire, sAcks, sChunks, closed, request, sFaults, written>>
receiving == <<rPc, expected, last, ended, rChunks, rWire, rAcks, acked, sent, device, rFaults>>
vars == <<side, sending, receiving>>

Init == side = "downlink" /\ S!Init /\ R!Init /\ rFaults = {}

Downlink(A) == side = "downlink" /\ A /\ UNCHANGED <<side, receiving>>
Uplink(A) == side = "uplink" /\ A /\ UNCHANGED <<side, sending>>

\* send has returned, its last write with the device's response: the downlink is
\* unsubscribed and the uplink subscribed.
Turn ==
  /\ side = "downlink"
  /\ sPc = "ok"
  /\ sWire = <<>>
  /\ request # "dropped"
  /\ side' = "uplink"
  /\ sWire' = <<>>
  /\ sAcks' = <<>>
  /\ rFaults' \in SUBSET R!Faults
  /\ UNCHANGED <<sPc, seq, target, sentLast, sChunks, closed, request, sFaults, written,
                 rPc, expected, last, ended, rChunks, rWire, rAcks, acked, sent, device>>

\* Without a connection the uplink is not to be subscribed: the exchange raises.
TurnFails ==
  /\ side = "downlink"
  /\ sPc = "ok"
  /\ request = "dropped"
  /\ side' = "uplink"
  /\ rPc' = "failed"
  /\ UNCHANGED <<sending, expected, last, ended, rChunks, rWire, rAcks, acked, sent, device, rFaults>>

Next == Downlink(S!Next) \/ Turn \/ TurnFails \/ Uplink(R!Next)

Spec == Init /\ [][Next]_vars

\* The client's task runs; the device takes what it is sent and answers acks.
FairSpec ==
  /\ Spec
  /\ WF_vars(Downlink(S!Client)) /\ WF_vars(Downlink(S!DeviceTake \/ S!DeviceFin))
  /\ WF_vars(Turn \/ TurnFails)
  /\ WF_vars(Uplink(R!Client)) /\ WF_vars(Uplink(R!Device))

-----------------------------------------------------------------------------
\* The types of both transfers.
TypeOK == side \in {"downlink", "uplink"} /\ S!TypeOK /\ R!TypeOK

\* The sender keeps to the window it was granted (sar.py:84, 99).
WindowRespected == S!WindowRespected

\* send returns only with the request at the device, each fragment once and in
\* order (sar.py:86-96, ble.py:112).
RequestDelivered == S!ImplementsTransfer

\* receive returns the response whole, each fragment once and in order
\* (sar.py:160-173).
ResponseDelivered == R!ImplementsTransfer

\* With a device that takes the client's FIN as the simulated one does
\* (mock.py:280-285), and without a fault, the exchange returns and the request has
\* been handled by then: neither end waits for ever for an ack or a fragment that
\* will not come, on either characteristic.  With a lost FIN it returns too, though
\* such a device has not handled the request.
ExchangeReturns ==
  sFaults \subseteq {"fin"} ~>
    (rPc = "ok" /\ (sFaults = {} => request = "handled")) \/ rFaults # {}

\* protocol.md:109-110: "the device treats a bare FIN as failure and drops the BLE
\* connection."  The client's exchange returns with such a device too.
\* The code does not keep to it: see "What does not hold" in README.md.
ReturnsFromStrict == sFaults = {"strict"} ~> rPc = "ok" \/ rFaults # {}
=============================================================================
