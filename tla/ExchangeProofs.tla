--------------------------- MODULE ExchangeProofs ---------------------------
(***************************************************************************)
(* Proofs about an exchange: send and receive implement Transfer, send     *)
(* keeps to the window, and an exchange that returns has delivered both    *)
(* pouches; for any windows below the number of sequence numbers, requests *)
(* of up to as many fragments as there are numbers, and responses of any   *)
(* length.                                                                 *)
(*                                                                         *)
(* The request.  Sequence numbers alone do not tell an ack for all         *)
(* fragments from one for none when there are as many fragments as         *)
(* numbers.  What rules the mistake out is that acks keep their order and  *)
(* that the window is smaller than the sequence space: the invariant       *)
(* (SendInv) ties every ack under way to the window the sender is in       *)
(* (Credit).                                                               *)
(*                                                                         *)
(* The response.  The sequence comes round, so that a fragment pushed      *)
(* again and a later one may carry the same number.  What keeps the        *)
(* receiver from taking one for the other is where on the wire a fragment  *)
(* can be: the packets under way lead without a gap from what has been     *)
(* received to what has been sent (Line), and each is at most a window     *)
(* behind the ones before it (Sound), which is less than a round.          *)
(***************************************************************************)
EXTENDS Exchange, SequenceTheorems, TLAPS

\* The sizes of a request, as ExchangeAssumption has them.
LEMMA Bounds ==
  ReqSeqMod \in Nat /\ ReqFrags \in 1..ReqSeqMod /\ ReqWindow \in 1..(ReqSeqMod - 1)
  BY ExchangeAssumption

Flag == SUBSET {"FIRST", "LAST", "FIN"}
Packets == [flags : Flag, seq : 0..(ReqSeqMod - 1), frag : 0..ReqFrags]
Acks == [code : {"ack", "nack"}, seq : 0..(ReqSeqMod - 1), count : 0..ReqFrags]

-----------------------------------------------------------------------------
\* Sequence numbers: the remainder in the first round.
LEMMA ModSmall ==
  ASSUME NEW M \in Nat \ {0}, NEW x \in 0..(M - 1)
  PROVE  x % M = x
  OBVIOUS

\* The remainder in the second round.
LEMMA ModLarge ==
  ASSUME NEW M \in Nat \ {0}, NEW x \in M..(2 * M - 1)
  PROVE  x % M = x - M
  OBVIOUS

\* The number that an ack for c fragments carries.
LEMMA PrevIs ==
  ASSUME NEW c \in 0..ReqSeqMod
  PROVE  S!Prev(c) = (IF c = 0 THEN ReqSeqMod - 1 ELSE c - 1) /\ S!Prev(c) \in 0..(ReqSeqMod - 1)
<1>1. ReqSeqMod \in Nat \ {0}
  BY Bounds
<1>2. CASE c = 0
  <2>1. c + ReqSeqMod - 1 = ReqSeqMod - 1 /\ ReqSeqMod - 1 \in 0..(ReqSeqMod - 1)
    BY <1>1, <1>2
  <2> QED BY <1>1, <1>2, <2>1, ModSmall DEF S!Prev
<1>3. CASE c # 0
  <2>1. c + ReqSeqMod - 1 \in ReqSeqMod..(2 * ReqSeqMod - 1) /\ c - 1 \in 0..(ReqSeqMod - 1)
        /\ (c + ReqSeqMod - 1) - ReqSeqMod = c - 1
    BY <1>1, <1>3
  <2> QED BY <1>1, <1>3, <2>1, ModLarge DEF S!Prev
<1> QED BY <1>2, <1>3

\* The end of the window that it grants.
LEMMA LimitIs ==
  ASSUME NEW c \in 0..ReqSeqMod
  PROVE  S!Limit(S!Prev(c)) = (c + ReqWindow) % ReqSeqMod /\ S!Limit(S!Prev(c)) \in 0..(ReqSeqMod - 1)
<1>1. ReqSeqMod \in Nat \ {0} /\ ReqWindow \in 1..(ReqSeqMod - 1)
  BY Bounds
<1>2. CASE c = 0
  <2>1. S!Prev(c) + ReqWindow + 1 = ReqSeqMod + ReqWindow
    BY <1>1, <1>2, PrevIs
  <2>2. ReqSeqMod + ReqWindow \in ReqSeqMod..(2 * ReqSeqMod - 1) /\ (ReqSeqMod + ReqWindow) - ReqSeqMod = ReqWindow
        /\ ReqWindow \in 0..(ReqSeqMod - 1) /\ c + ReqWindow = ReqWindow
    BY <1>1, <1>2
  <2> QED BY <1>1, <2>1, <2>2, ModLarge, ModSmall DEF S!Limit
<1>3. CASE c # 0
  <2>1. S!Prev(c) + ReqWindow + 1 = c + ReqWindow /\ c + ReqWindow \in Nat
    BY <1>1, <1>3, PrevIs
  <2>2. (c + ReqWindow) % ReqSeqMod \in 0..(ReqSeqMod - 1)
    BY <1>1, <2>1
  <2> QED BY <2>1, <2>2 DEF S!Limit
<1> QED BY <1>2, <1>3

-----------------------------------------------------------------------------
\* What the sender has written and been told.
Progress ==
  /\ sPc # "failed" => /\ seq = written % ReqSeqMod
                       /\ sentLast = "yes" <=> written = ReqFrags
  /\ sPc \in {"fin", "ok"} => sentLast = "yes" /\ Len(sChunks) = ReqFrags

\* The fragments under way are the ones after those at the device.
Numbered ==
  \A i \in DOMAIN sWire :
    IF "FIN" \in sWire[i].flags
    THEN sPc = "ok" /\ i = Len(sWire)
    ELSE /\ Len(sChunks) + i <= ReqFrags
         /\ sWire[i].frag = Len(sChunks) + i
         /\ sWire[i].seq = S!Prev(Len(sChunks) + i)

\* None is lost unless the device closes its end.
Counted ==
  /\ sPc # "ok" => Len(sChunks) + Len(sWire) <= written
  /\ closed = "no" /\ sPc \notin {"ok", "failed"} => Len(sChunks) + Len(sWire) = written
  /\ closed = "yes" => sWire = <<>>

\* Acks say what the device has, older ones first.
AcksOrdered ==
  /\ \A i \in DOMAIN sAcks : sAcks[i].count <= Len(sChunks) /\ sAcks[i].seq = S!Prev(sAcks[i].count)
  /\ \A i, j \in DOMAIN sAcks : i < j => sAcks[i].count <= sAcks[j].count

\* The sender is within the window of an ack for g fragments, and no ack under
\* way is older.
Credit(g) ==
  /\ g <= Len(sChunks)
  /\ written <= g + ReqWindow
  /\ sPc = "burst" => target = (g + ReqWindow) % ReqSeqMod
  /\ \A i \in DOMAIN sAcks : g <= sAcks[i].count

SendInv ==
  /\ S!TypeOK /\ Progress /\ Numbered /\ Counted /\ AcksOrdered
  /\ \E g \in 0..ReqFrags : Credit(g)

-----------------------------------------------------------------------------
\* The typed view of the state that the steps below use.
LEMMA Types ==
  ASSUME S!TypeOK
  PROVE  /\ seq \in 0..(ReqSeqMod - 1) /\ target \in 0..(ReqSeqMod - 1) /\ written \in 0..ReqFrags
         /\ sWire \in Seq(Packets) /\ sAcks \in Seq(Acks) /\ sChunks \in Seq(1..ReqFrags)
         /\ Len(sWire) \in Nat /\ Len(sChunks) \in Nat /\ Len(sAcks) \in Nat
         /\ ReqSeqMod \in Nat \ {0} /\ ReqFrags \in Nat \ {0} /\ ReqFrags <= ReqSeqMod /\ ReqWindow \in Nat
  BY Bounds DEF S!TypeOK, Packets, Flag, Acks

\* An ack is taken.
LEMMA TailAcks ==
  ASSUME sAcks \in Seq(Acks), sAcks # <<>>, sAcks' = Tail(sAcks), sChunks' = sChunks, AcksOrdered
  PROVE  /\ sAcks' \in Seq(Acks) /\ AcksOrdered'
         /\ Head(sAcks) \in Acks /\ Head(sAcks) = sAcks[1] /\ 1 \in DOMAIN sAcks
         /\ \A g : (\A i \in DOMAIN sAcks : g <= sAcks[i].count) => \A i \in DOMAIN sAcks' : g <= sAcks'[i].count
         /\ \A i \in DOMAIN sAcks' : Head(sAcks).count <= sAcks'[i].count
<1>1. /\ sAcks' \in Seq(Acks) /\ Head(sAcks) \in Acks /\ Len(sAcks') = Len(sAcks) - 1 /\ Len(sAcks) \in Nat \ {0}
      /\ \A i \in 1..Len(sAcks') : sAcks'[i] = sAcks[i + 1]
      /\ DOMAIN sAcks = 1..Len(sAcks) /\ DOMAIN sAcks' = 1..Len(sAcks')
  BY HeadTailProperties, EmptySeq, LenProperties
<1>2. Head(sAcks) = sAcks[1]
  OBVIOUS
<1>3. \A i \in DOMAIN sAcks' : i + 1 \in DOMAIN sAcks /\ sAcks'[i] = sAcks[i + 1] /\ 1 < i + 1
  BY <1>1
<1>4. 1 \in DOMAIN sAcks
  BY <1>1
<1>5. AcksOrdered'
  <2>1. \A i \in DOMAIN sAcks' : sAcks'[i].count <= Len(sChunks') /\ sAcks'[i].seq = S!Prev(sAcks'[i].count)
    BY <1>3 DEF AcksOrdered
  <2>2. ASSUME NEW i \in DOMAIN sAcks', NEW j \in DOMAIN sAcks', i < j
        PROVE  sAcks'[i].count <= sAcks'[j].count
    <3>1. i + 1 < j + 1
      BY <1>1, <2>2
    <3> QED BY <1>3, <2>2, <3>1 DEF AcksOrdered
  <2> QED BY <2>1, <2>2 DEF AcksOrdered
<1>6. \A i \in DOMAIN sAcks' : Head(sAcks).count <= sAcks'[i].count
  BY <1>2, <1>3, <1>4 DEF AcksOrdered
<1> QED BY <1>1, <1>2, <1>3, <1>4, <1>5, <1>6

\* An ack is notified.
LEMMA AppendAcks ==
  ASSUME sAcks \in Seq(Acks), NEW a \in Acks, sAcks' = Append(sAcks, a), AcksOrdered,
         Len(sChunks) \in Nat, Len(sChunks') \in Nat, Len(sChunks) <= a.count, a.count <= Len(sChunks'),
         a.count \in Nat, a.seq = S!Prev(a.count)
  PROVE  /\ sAcks' \in Seq(Acks) /\ AcksOrdered'
         /\ \A g \in Nat : g <= Len(sChunks) /\ (\A i \in DOMAIN sAcks : g <= sAcks[i].count) =>
                          \A i \in DOMAIN sAcks' : g <= sAcks'[i].count
<1>1. /\ sAcks' \in Seq(Acks) /\ Len(sAcks') = Len(sAcks) + 1 /\ Len(sAcks) \in Nat
      /\ \A i \in 1..Len(sAcks) : sAcks'[i] = sAcks[i]
      /\ sAcks'[Len(sAcks) + 1] = a
      /\ DOMAIN sAcks = 1..Len(sAcks) /\ DOMAIN sAcks' = 1..Len(sAcks')
  BY AppendProperties, LenProperties
<1>2. \A i \in DOMAIN sAcks' : \/ i \in DOMAIN sAcks /\ sAcks'[i] = sAcks[i]
                               \/ i = Len(sAcks) + 1 /\ sAcks'[i] = a
  BY <1>1
<1>3. \A i \in DOMAIN sAcks : sAcks[i].count \in Nat /\ sAcks[i].count <= Len(sChunks)
  <2>1. \A i \in DOMAIN sAcks : sAcks[i] \in Acks
    BY <1>1
  <2> QED BY <2>1 DEF AcksOrdered, Acks
<1>4. \A i \in DOMAIN sAcks' : sAcks'[i].count <= Len(sChunks') /\ sAcks'[i].seq = S!Prev(sAcks'[i].count)
  BY <1>2, <1>3 DEF AcksOrdered
<1>5. ASSUME NEW i \in DOMAIN sAcks', NEW j \in DOMAIN sAcks', i < j
      PROVE  sAcks'[i].count <= sAcks'[j].count
  <2>1. i \in DOMAIN sAcks
    BY <1>1, <1>5
  <2>2. sAcks'[i] = sAcks[i]
    BY <1>1, <2>1
  <2> QED BY <1>2, <1>3, <1>5, <2>1, <2>2 DEF AcksOrdered
<1>6. AcksOrdered'
  BY <1>4, <1>5 DEF AcksOrdered
<1>7. ASSUME NEW g \in Nat, g <= Len(sChunks), \A i \in DOMAIN sAcks : g <= sAcks[i].count
      PROVE  \A i \in DOMAIN sAcks' : g <= sAcks'[i].count
  BY <1>2, <1>7
<1> QED BY <1>1, <1>6, <1>7

\* send takes an ack.
LEMMA AckStep ==
  ASSUME SendInv, S!AckMore \/ S!AckStale \/ S!AckLast \/ S!AckRefused, UNCHANGED <<closed, request, sFaults>>
  PROVE  SendInv'
<1>1. /\ sPc = "wait" /\ sAcks # <<>> /\ sAcks' = Tail(sAcks)
      /\ UNCHANGED <<seq, sentLast, sWire, sChunks, written, closed, request, sFaults>>
      /\ sPc' \in {"burst", "wait", "fin", "failed"}
  BY DEF S!AckMore, S!AckStale, S!AckLast, S!AckRefused, S!TakeAck
<1>2. sAcks \in Seq(Acks) /\ Len(sChunks) \in Nat /\ ReqFrags <= ReqSeqMod /\ ReqFrags \in Nat /\ ReqSeqMod \in Nat
      /\ written \in 0..ReqFrags /\ ReqWindow \in Nat
  BY Types DEF SendInv
<1>3. /\ sAcks' \in Seq(Acks) /\ AcksOrdered'
      /\ Head(sAcks) \in Acks /\ Head(sAcks) = sAcks[1] /\ 1 \in DOMAIN sAcks
      /\ \A g : (\A i \in DOMAIN sAcks : g <= sAcks[i].count) => \A i \in DOMAIN sAcks' : g <= sAcks'[i].count
      /\ \A i \in DOMAIN sAcks' : Head(sAcks).count <= sAcks'[i].count
  BY <1>1, <1>2, TailAcks DEF SendInv
<1>0. PICK c \in 0..ReqFrags : c = Head(sAcks).count
  BY <1>3 DEF Acks
<1>4. /\ c \in 0..ReqSeqMod /\ c <= Len(sChunks) /\ Head(sAcks).seq = S!Prev(c)
      /\ \A i \in DOMAIN sAcks' : c <= sAcks'[i].count
  BY <1>0, <1>2, <1>3 DEF SendInv, AcksOrdered
<1>5. target' \in 0..(ReqSeqMod - 1) /\ (sPc' = "burst" => target' = (c + ReqWindow) % ReqSeqMod)
  <2>1. (target' = target /\ sPc' # "burst") \/ target' = S!Limit(S!Prev(c))
    BY <1>4 DEF S!AckMore, S!AckStale, S!AckLast, S!AckRefused
  <2> QED BY <1>4, <2>1, LimitIs, Types DEF SendInv
<1>6. S!TypeOK'
  BY <1>1, <1>3, <1>5 DEF SendInv, S!TypeOK, Acks
<1>7. PICK g \in 0..ReqFrags : Credit(g)
  BY DEF SendInv
<1>8. g <= c
  BY <1>0, <1>3, <1>7 DEF Credit
<1>9. Credit(c)'
  <2>1. written <= c + ReqWindow
    BY <1>2, <1>4, <1>7, <1>8 DEF Credit
  <2> QED BY <1>1, <1>4, <1>5, <2>1 DEF Credit
<1>10. Numbered' /\ Counted'
  BY <1>1 DEF SendInv, Numbered, Counted
<1>11. Progress'
  <2>1. CASE sPc' # "fin"
    BY <1>1, <2>1 DEF SendInv, Progress
  <2>2. CASE sPc' = "fin"
    <3>1. sentLast = "yes" /\ written = ReqFrags /\ seq = written % ReqSeqMod /\ S!Prev(c) = S!Prev(seq)
      BY <1>1, <1>4, <2>2 DEF S!AckMore, S!AckStale, S!AckLast, S!AckRefused, S!AllAcked, SendInv, Progress
    <3>2. Len(sChunks) <= ReqFrags
      BY <1>1, <1>2, <3>1, Types DEF SendInv, Counted
    <3>3. c = ReqFrags
      <4>1. CASE ReqFrags < ReqSeqMod
        <5>1. ReqFrags \in 0..(ReqSeqMod - 1) /\ ReqSeqMod \in Nat \ {0} /\ ReqFrags \in 0..ReqSeqMod /\ ReqFrags # 0
          BY <1>2, <4>1, Types DEF SendInv
        <5>2. seq = ReqFrags
          BY <3>1, <5>1, ModSmall
        <5>3. S!Prev(ReqFrags) = ReqFrags - 1 /\ S!Prev(c) = (IF c = 0 THEN ReqSeqMod - 1 ELSE c - 1)
          BY <1>4, <5>1, PrevIs
        <5> QED BY <1>2, <1>4, <3>1, <4>1, <5>2, <5>3
      <4>2. CASE ReqFrags = ReqSeqMod
        <5>1. ReqSeqMod \in ReqSeqMod..(2 * ReqSeqMod - 1) /\ ReqSeqMod - ReqSeqMod = 0 /\ ReqSeqMod \in Nat \ {0} /\ 0 \in 0..ReqSeqMod
          BY <1>2, Types DEF SendInv
        <5>2. seq = 0
          BY <3>1, <4>2, <5>1, ModLarge
        <5>3. S!Prev(0) = ReqSeqMod - 1 /\ S!Prev(c) = (IF c = 0 THEN ReqSeqMod - 1 ELSE c - 1)
          BY <1>4, <5>1, PrevIs
        <5>4. c # 0
          BY <1>2, <1>7, <1>8, <3>1, <4>2, Bounds DEF Credit
        <5> QED BY <1>2, <1>4, <3>1, <4>2, <5>2, <5>3, <5>4
      <4> QED BY <1>2, <4>1, <4>2
    <3> QED BY <1>1, <1>2, <1>4, <2>2, <3>1, <3>2, <3>3 DEF SendInv, Progress
  <2> QED BY <2>1, <2>2
<1> QED BY <1>3, <1>4, <1>6, <1>9, <1>10, <1>11 DEF SendInv

\* A packet is written.
LEMMA AppendPacket ==
  ASSUME sWire \in Seq(Packets), NEW p \in Packets, sWire' = Append(sWire, p), sChunks' = sChunks,
         Numbered, sPc # "ok", Len(sChunks) \in Nat, Len(sWire) \in Nat,
         \/ "FIN" \in p.flags /\ sPc' = "ok"
         \/ /\ "FIN" \notin p.flags /\ Len(sChunks) + Len(sWire) + 1 <= ReqFrags
            /\ p.frag = Len(sChunks) + Len(sWire) + 1 /\ p.seq = S!Prev(Len(sChunks) + Len(sWire) + 1)
  PROVE  sWire' \in Seq(Packets) /\ Len(sWire') = Len(sWire) + 1 /\ Numbered'
<1>1. /\ sWire' \in Seq(Packets) /\ Len(sWire') = Len(sWire) + 1
      /\ \A i \in 1..Len(sWire) : sWire'[i] = sWire[i]
      /\ sWire'[Len(sWire) + 1] = p
      /\ DOMAIN sWire = 1..Len(sWire) /\ DOMAIN sWire' = 1..Len(sWire')
  BY AppendProperties, LenProperties
<1>2. ASSUME NEW i \in DOMAIN sWire, "FIN" \notin sWire[i].flags
      PROVE  /\ Len(sChunks') + i <= ReqFrags /\ sWire'[i].frag = Len(sChunks') + i
             /\ sWire'[i].seq = S!Prev(Len(sChunks') + i) /\ sWire'[i] = sWire[i]
  BY <1>1, <1>2 DEF Numbered
<1>3. \A i \in DOMAIN sWire : "FIN" \notin sWire[i].flags
  BY DEF Numbered
<1>4. \A i \in DOMAIN sWire' : i \in DOMAIN sWire \/ i = Len(sWire) + 1
  BY <1>1
<1>5. CASE "FIN" \in p.flags /\ sPc' = "ok"
  BY <1>1, <1>2, <1>3, <1>4, <1>5 DEF Numbered
<1>6. CASE /\ "FIN" \notin p.flags /\ Len(sChunks) + Len(sWire) + 1 <= ReqFrags
           /\ p.frag = Len(sChunks) + Len(sWire) + 1 /\ p.seq = S!Prev(Len(sChunks) + Len(sWire) + 1)
  <2>1. Len(sChunks) + (Len(sWire) + 1) = Len(sChunks) + Len(sWire) + 1
    OBVIOUS
  <2> QED BY <1>1, <1>2, <1>3, <1>4, <1>6, <2>1 DEF Numbered
<1> QED BY <1>1, <1>5, <1>6

\* The fragment that send writes next, and its room in the window.
LEMMA NextPacket ==
  ASSUME SendInv, sPc = "burst", seq # target, sentLast = "no"
  PROVE  /\ written + 1 <= ReqFrags /\ seq = written
         /\ S!Packet \in Packets /\ "FIN" \notin S!Packet.flags
         /\ S!Packet.frag = written + 1 /\ S!Packet.seq = S!Prev(written + 1)
         /\ \A g \in 0..ReqFrags : Credit(g) => written + 1 <= g + ReqWindow
<1>1. /\ written \in 0..ReqFrags /\ written # ReqFrags /\ seq = written % ReqSeqMod
      /\ ReqSeqMod \in Nat \ {0} /\ ReqFrags \in Nat \ {0} /\ ReqFrags <= ReqSeqMod /\ ReqWindow \in Nat
  BY Types DEF SendInv, Progress
<1>2. written \in 0..(ReqSeqMod - 1) /\ written + 1 <= ReqFrags /\ written + 1 \in 0..ReqSeqMod /\ written + 1 \in 0..ReqFrags
      /\ written + 1 # 0 /\ (written + 1) - 1 = written
  BY <1>1
<1>3. seq = written
  BY <1>1, <1>2, ModSmall
<1>4. S!Flags \in Flag /\ "FIN" \notin S!Flags
  BY DEF S!Flags, Flag
<1>5. S!Packet \in Packets /\ S!Packet.flags = S!Flags /\ S!Packet.frag = written + 1 /\ S!Packet.seq = written
  BY <1>2, <1>3, <1>4 DEF S!Packet, Packets
<1>6. S!Prev(written + 1) = written
  BY <1>2, PrevIs
<1>7. ASSUME NEW g \in 0..ReqFrags, Credit(g) PROVE written + 1 <= g + ReqWindow
  <2>1. written # g + ReqWindow
    BY <1>1, <1>7 DEF Credit
  <2>2. written <= g + ReqWindow
    BY <1>7 DEF Credit
  <2> QED BY <1>1, <2>1, <2>2
<1> QED BY <1>2, <1>3, <1>4, <1>5, <1>6, <1>7

\* send writes a fragment.
LEMMA WriteStep ==
  ASSUME SendInv, S!Write \/ S!WriteFails, UNCHANGED <<closed, request, sFaults>>
  PROVE  SendInv'
<1>1. /\ sPc = "burst" /\ seq # target /\ sentLast = "no" /\ written' = written + 1
      /\ sWire' \in {sWire, Append(sWire, S!Packet)} /\ UNCHANGED <<target, sAcks, sChunks, closed, request, sFaults>>
  BY DEF S!Write, S!WriteFails
<1>2. /\ written \in 0..ReqFrags /\ sWire \in Seq(Packets) /\ Len(sWire) \in Nat /\ Len(sChunks) \in Nat
      /\ ReqSeqMod \in Nat \ {0} /\ ReqFrags \in Nat \ {0} /\ ReqFrags <= ReqSeqMod /\ ReqWindow \in Nat
  BY Types DEF SendInv
<1>3. /\ written + 1 <= ReqFrags /\ seq = written
      /\ S!Packet \in Packets /\ "FIN" \notin S!Packet.flags
      /\ S!Packet.frag = written + 1 /\ S!Packet.seq = S!Prev(written + 1)
      /\ \A g \in 0..ReqFrags : Credit(g) => written + 1 <= g + ReqWindow
  BY <1>1, NextPacket
<1>4. /\ sWire' \in Seq(Packets) /\ Numbered' /\ Len(sChunks) + Len(sWire') <= written + 1
      /\ sWire' # sWire => Len(sWire') = Len(sWire) + 1 /\ closed = "no"
  <2>1. CASE sWire' = sWire
    <3>1. Numbered'
      BY <1>1, <2>1 DEF S!Write, S!WriteFails, SendInv, Numbered
    <3>2. Len(sChunks) + Len(sWire) <= written
      BY <1>1 DEF SendInv, Counted
    <3> QED BY <1>2, <2>1, <3>1, <3>2
  <2>2. CASE sWire' # sWire
    <3>1. closed = "no" /\ sWire' = Append(sWire, S!Packet)
      BY <1>1, <2>2 DEF S!Write, S!WriteFails, SendInv, S!TypeOK
    <3>2. Len(sChunks) + Len(sWire) = written
      BY <1>1, <3>1 DEF SendInv, Counted
    <3>3. sWire' \in Seq(Packets) /\ Len(sWire') = Len(sWire) + 1 /\ Numbered'
      BY <1>1, <1>2, <1>3, <3>1, <3>2, AppendPacket DEF SendInv
    <3> QED BY <1>2, <3>1, <3>2, <3>3
  <2> QED BY <2>1, <2>2
<1>5. /\ seq' \in 0..(ReqSeqMod - 1) /\ sentLast' \in {"no", "yes"} /\ sPc' \in {"burst", "failed"}
      /\ sPc' = "burst" => seq' = written' % ReqSeqMod /\ (sentLast' = "yes" <=> written' = ReqFrags)
  <2>1. CASE S!Write
    <3>1. seq' = (written + 1) % ReqSeqMod /\ sPc' = "burst"
      BY <1>1, <1>3, <2>1 DEF S!Write, S!NextSeq
    <3>2. (written + 1) % ReqSeqMod \in 0..(ReqSeqMod - 1)
      BY <1>2
    <3>3. "LAST" \in S!Flags <=> written + 1 = ReqFrags
      BY <1>2, <1>3 DEF S!Flags
    <3> QED BY <1>1, <2>1, <3>1, <3>2, <3>3 DEF S!Write
  <2>2. CASE S!WriteFails
    BY <2>2, Types DEF S!WriteFails, SendInv, S!TypeOK
  <2> QED BY <2>1, <2>2
<1>6. S!TypeOK'
  <2>1. written' \in 0..ReqFrags
    BY <1>1, <1>2, <1>3
  <2> QED BY <1>1, <1>4, <1>5, <2>1 DEF SendInv, S!TypeOK, Packets, Flag
<1>7. Progress'
  BY <1>5 DEF Progress
<1>8. Counted'
  <2>1. ASSUME closed = "yes" PROVE sWire' = <<>>
    BY <1>4, <2>1 DEF SendInv, Counted
  <2>2. ASSUME closed = "no", sPc' = "burst" PROVE Len(sChunks) + Len(sWire') = written + 1
    <3>1. sWire' = Append(sWire, S!Packet) /\ Len(sChunks) + Len(sWire) = written
      BY <1>1, <1>5, <2>2 DEF S!Write, S!WriteFails, SendInv, Counted
    <3>2. Len(sWire') = Len(sWire) + 1
      BY <1>2, <1>3, <3>1, AppendProperties
    <3> QED BY <1>2, <3>1, <3>2
  <2> QED BY <1>1, <1>4, <1>5, <2>1, <2>2 DEF Counted
<1>9. AcksOrdered'
  BY <1>1 DEF SendInv, AcksOrdered
<1>10. \E g \in 0..ReqFrags : Credit(g)'
  <2>1. PICK g \in 0..ReqFrags : Credit(g)
    BY DEF SendInv
  <2> QED BY <1>1, <1>3, <2>1 DEF Credit
<1> QED BY <1>4, <1>6, <1>7, <1>8, <1>9, <1>10 DEF SendInv

\* send leaves the inner loop, ends or gives up.
LEMMA EndStep ==
  ASSUME SendInv, S!BurstEnds \/ S!Fin \/ S!Timeout, UNCHANGED <<closed, request, sFaults>>
  PROVE  SendInv'
<1>1. CASE S!BurstEnds \/ S!Timeout
  <2>1. /\ UNCHANGED <<seq, target, sentLast, sWire, sAcks, sChunks, closed, request, sFaults, written>>
        /\ sPc' \in {"wait", "failed"} /\ sPc \in {"burst", "wait"}
    BY <1>1 DEF S!BurstEnds, S!Timeout
  <2>2. S!TypeOK' /\ Progress' /\ Numbered' /\ Counted' /\ AcksOrdered'
    BY <2>1 DEF SendInv, S!TypeOK, Progress, Numbered, Counted, AcksOrdered
  <2>3. \E g \in 0..ReqFrags : Credit(g)'
    BY <2>1 DEF SendInv, Credit
  <2> QED BY <2>2, <2>3 DEF SendInv
<1>2. CASE S!Fin
  <2> DEFINE fin == [flags |-> {"FIN"}, seq |-> 0, frag |-> 0]
  <2>1. /\ sPc = "fin" /\ sPc' = "ok" /\ UNCHANGED <<seq, target, sentLast, sAcks, sChunks, closed, request, sFaults, written>>
        /\ sWire' = sWire \/ (sWire' = Append(sWire, fin) /\ closed = "no")
    BY <1>2, Types DEF S!Fin, SendInv, S!TypeOK
  <2>2. sWire \in Seq(Packets) /\ Len(sWire) \in Nat /\ Len(sChunks) \in Nat
    BY Types DEF SendInv
  <2>3. sWire' \in Seq(Packets) /\ Numbered'
    <3>1. fin \in Packets /\ "FIN" \in fin.flags
      BY Types DEF SendInv, Packets, Flag
    <3>2. CASE sWire' = sWire
      BY <2>1, <2>2, <3>2 DEF SendInv, Numbered
    <3>3. CASE sWire' = Append(sWire, fin)
      BY <2>1, <2>2, <3>1, <3>3, AppendPacket DEF SendInv
    <3> QED BY <2>1, <3>2, <3>3
  <2>4. S!TypeOK' /\ Progress' /\ Counted' /\ AcksOrdered'
    BY <2>1, <2>3 DEF SendInv, S!TypeOK, Progress, Counted, AcksOrdered, Packets, Flag
  <2>5. \E g \in 0..ReqFrags : Credit(g)'
    BY <2>1 DEF SendInv, Credit
  <2> QED BY <2>3, <2>4, <2>5 DEF SendInv
<1> QED BY <1>1, <1>2

\* The device takes a packet.
LEMMA TakeStep ==
  ASSUME SendInv, S!DeviceTake \/ S!DeviceFin
  PROVE  /\ SendInv'
         /\ S!DeviceTake => Len(sChunks) < ReqFrags /\ sChunks' = Append(sChunks, Len(sChunks) + 1)
<1>1. /\ sWire # <<>> /\ sWire' = Tail(sWire) /\ UNCHANGED <<closed, sPc, seq, target, sentLast, written, sFaults>>
      /\ request' \in {request, "handled", "dropped"}
  BY DEF S!DeviceTake, S!DeviceFin, S!sender
<1>2. /\ written \in 0..ReqFrags /\ sWire \in Seq(Packets) /\ Len(sWire) \in Nat /\ Len(sChunks) \in Nat
      /\ ReqSeqMod \in Nat \ {0} /\ ReqFrags \in Nat \ {0} /\ ReqFrags <= ReqSeqMod /\ ReqWindow \in Nat
      /\ sChunks \in Seq(1..ReqFrags) /\ sAcks \in Seq(Acks)
  BY Types DEF SendInv
<1>3. /\ sWire' \in Seq(Packets) /\ Len(sWire') = Len(sWire) - 1 /\ Len(sWire) # 0
      /\ \A i \in 1..Len(sWire') : sWire'[i] = sWire[i + 1]
      /\ DOMAIN sWire = 1..Len(sWire) /\ DOMAIN sWire' = 1..Len(sWire')
  BY <1>1, <1>2, HeadTailProperties, LenProperties, EmptySeq
<1>4. Head(sWire) = sWire[1] /\ 1 \in DOMAIN sWire
  BY <1>1, <1>2, <1>3
<1>5. CASE S!DeviceFin
  <2>1. sPc = "ok" /\ Len(sWire) = 1 /\ UNCHANGED <<sAcks, sChunks>>
    BY <1>4, <1>5 DEF S!DeviceFin, SendInv, Numbered
  <2>2. DOMAIN sWire' = {}
    BY <1>3, <2>1
  <2>3. sWire' = <<>>
    BY <1>3, <2>1, EmptySeq
  <2>4. S!TypeOK' /\ Progress' /\ Numbered' /\ Counted' /\ AcksOrdered'
    BY <1>1, <1>3, <2>1, <2>2, <2>3
    DEF SendInv, S!TypeOK, Progress, Numbered, Counted, AcksOrdered, Packets, Flag
  <2>5. \E g \in 0..ReqFrags : Credit(g)'
    BY <1>1, <2>1 DEF SendInv, Credit
  <2> QED BY <1>5, <2>4, <2>5 DEF SendInv, S!DeviceFin, S!DeviceTake
<1>6. CASE S!DeviceTake
  <2> DEFINE n == Len(sChunks) + 1
  <2>1. /\ "FIN" \notin sWire[1].flags /\ sChunks' = Append(sChunks, sWire[1].frag)
        /\ sAcks' = Append(sAcks, [code |-> "ack", seq |-> sWire[1].seq, count |-> n])
    BY <1>4, <1>6 DEF S!DeviceTake
  <2>2. n <= ReqFrags /\ sWire[1].frag = n /\ sWire[1].seq = S!Prev(n) /\ sPc # "ok"
    <3>1. n <= ReqFrags /\ sWire[1].frag = n /\ sWire[1].seq = S!Prev(n)
      BY <1>4, <2>1 DEF SendInv, Numbered
    <3> QED BY <1>2, <3>1 DEF SendInv, Progress
  <2>3. n \in 1..ReqFrags /\ n \in 0..ReqSeqMod
    BY <1>2, <2>2
  <2>4. sChunks' \in Seq(1..ReqFrags) /\ Len(sChunks') = n
    BY <1>2, <2>1, <2>2, <2>3, AppendProperties
  <2>5. [code |-> "ack", seq |-> S!Prev(n), count |-> n] \in Acks
    BY <1>2, <2>3, PrevIs DEF Acks
  <2>6. /\ sAcks' \in Seq(Acks) /\ AcksOrdered'
        /\ \A g \in Nat : g <= Len(sChunks) /\ (\A i \in DOMAIN sAcks : g <= sAcks[i].count) =>
                         \A i \in DOMAIN sAcks' : g <= sAcks'[i].count
    <3>1. PICK a \in Acks : a = [code |-> "ack", seq |-> S!Prev(n), count |-> n]
      BY <2>5
    <3>2. /\ sAcks' = Append(sAcks, a) /\ a.count = n /\ a.seq = S!Prev(a.count)
          /\ Len(sChunks') \in Nat /\ Len(sChunks) <= a.count /\ a.count <= Len(sChunks') /\ a.count \in Nat
      BY <1>2, <2>1, <2>2, <2>3, <2>4, <3>1
    <3> QED BY <1>2, <3>2, AppendAcks DEF SendInv
  <2>7. S!TypeOK'
    BY <1>1, <1>3, <2>4, <2>6 DEF SendInv, S!TypeOK, Packets, Flag, Acks
  <2>8. Progress'
    BY <1>1, <2>2 DEF SendInv, Progress
  <2>9. Numbered'
    <3>1. ASSUME NEW i \in DOMAIN sWire'
          PROVE  /\ i + 1 \in DOMAIN sWire /\ sWire'[i] = sWire[i + 1] /\ Len(sChunks) + (i + 1) = Len(sChunks') + i
      BY <1>2, <1>3, <2>4, <3>1
    <3> QED BY <1>1, <2>2, <3>1 DEF SendInv, Numbered
  <2>10. Counted'
    <3>1. Len(sChunks') + Len(sWire') = Len(sChunks) + Len(sWire)
      BY <1>2, <1>3, <2>4
    <3>2. closed = "no"
      BY <1>1 DEF SendInv, S!TypeOK, Counted
    <3> QED BY <1>1, <2>2, <3>1, <3>2 DEF SendInv, Counted
  <2>11. \E g \in 0..ReqFrags : Credit(g)'
    <3>1. PICK g \in 0..ReqFrags : Credit(g)
      BY DEF SendInv
    <3>2. g <= Len(sChunks') /\ g \in Nat
      BY <1>2, <2>4, <3>1 DEF Credit
    <3> QED BY <1>1, <2>6, <3>1, <3>2 DEF Credit
  <2> QED BY <1>2, <2>1, <2>2, <2>6, <2>7, <2>8, <2>9, <2>10, <2>11 DEF SendInv
<1> QED BY <1>5, <1>6

\* The device repeats an ack, refuses or closes its end.
LEMMA DeviceStep ==
  ASSUME SendInv, S!DeviceReack \/ S!DeviceNack \/ S!DeviceClose
  PROVE  SendInv'
<1>1. /\ sChunks' = sChunks /\ UNCHANGED <<sPc, seq, target, sentLast, written, request, sFaults>>
  BY DEF S!DeviceReack, S!DeviceNack, S!DeviceClose, S!sender
<1>2. /\ sAcks \in Seq(Acks) /\ Len(sChunks) \in Nat /\ ReqFrags \in Nat /\ ReqFrags <= ReqSeqMod /\ written \in 0..ReqFrags
  BY Types DEF SendInv
<1>3. Len(sChunks) <= ReqFrags
  BY <1>2, Types DEF SendInv, Counted, Progress
<1>4. CASE S!DeviceReack \/ S!DeviceNack
  <2>1. PICK a \in Acks : sAcks' = Append(sAcks, a) /\ a.count = Len(sChunks) /\ a.seq = S!Prev(Len(sChunks))
    <3>1. S!Prev(Len(sChunks)) \in 0..(ReqSeqMod - 1)
      BY <1>2, <1>3, PrevIs, Bounds
    <3>2. S!Ack("ack") \in Acks /\ S!Ack("nack") \in Acks
      BY <1>2, <1>3, <3>1 DEF S!Ack, S!LastSeq, Acks
    <3> QED BY <1>4, <3>2 DEF S!DeviceReack, S!DeviceNack, S!Ack, S!LastSeq
  <2>2. /\ sAcks' \in Seq(Acks) /\ AcksOrdered'
        /\ \A g \in Nat : g <= Len(sChunks) /\ (\A i \in DOMAIN sAcks : g <= sAcks[i].count) =>
                         \A i \in DOMAIN sAcks' : g <= sAcks'[i].count
    BY <1>1, <1>2, <2>1, AppendAcks DEF SendInv
  <2>3. UNCHANGED <<sWire, closed>>
    BY <1>4 DEF S!DeviceReack, S!DeviceNack
  <2>4. S!TypeOK' /\ Progress' /\ Numbered' /\ Counted'
    BY <1>1, <2>2, <2>3 DEF SendInv, S!TypeOK, Progress, Numbered, Counted, Acks
  <2>5. \E g \in 0..ReqFrags : Credit(g)'
    <3>1. PICK g \in 0..ReqFrags : Credit(g)
      BY DEF SendInv
    <3>2. g \in Nat
      BY <1>2
    <3> QED BY <1>1, <2>2, <3>1, <3>2 DEF Credit
  <2> QED BY <2>2, <2>4, <2>5 DEF SendInv
<1>5. CASE S!DeviceClose
  <2>1. sWire' = <<>> /\ closed' = "yes" /\ sAcks' = sAcks
    BY <1>5 DEF S!DeviceClose
  <2>2. sWire' \in Seq(Packets) /\ Len(sWire') = 0 /\ DOMAIN sWire' = {}
    BY <2>1, EmptySeq
  <2>3. sPc # "ok" => Len(sChunks) <= written
    BY <1>2, Types DEF SendInv, Counted
  <2>4. Counted' /\ Numbered'
    BY <1>1, <1>2, <2>1, <2>2, <2>3 DEF Counted, Numbered
  <2>5. S!TypeOK' /\ Progress' /\ AcksOrdered'
    BY <1>1, <2>1, <2>2 DEF SendInv, S!TypeOK, Progress, AcksOrdered, Packets, Flag
  <2>6. \E g \in 0..ReqFrags : Credit(g)'
    BY <1>1, <2>1 DEF SendInv, Credit
  <2> QED BY <2>4, <2>5, <2>6 DEF SendInv
<1> QED BY <1>4, <1>5

\* The state in which the client has just subscribed.
LEMMA InitInv == S!Init => SendInv
<1> SUFFICES ASSUME S!Init PROVE SendInv
  OBVIOUS
<1>1. ReqSeqMod \in Nat \ {0} /\ ReqFrags \in Nat \ {0} /\ ReqFrags <= ReqSeqMod /\ ReqWindow \in Nat /\ 0 \in 0..ReqSeqMod
  BY Bounds
<1>2. /\ sWire \in Seq(Packets) /\ Len(sWire) = 0 /\ DOMAIN sWire = {}
      /\ sChunks \in Seq(1..ReqFrags) /\ Len(sChunks) = 0
  BY EmptySeq DEF S!Init
<1>3. /\ sAcks \in Seq(Acks) /\ DOMAIN sAcks = {1} /\ sAcks[1].count = 0 /\ sAcks[1].seq = ReqSeqMod - 1
  BY <1>1 DEF S!Init, Acks
<1>4. 0 % ReqSeqMod = 0
  BY <1>1
<1>5. S!TypeOK
  BY <1>1, <1>2, <1>3 DEF S!Init, S!TypeOK, Packets, Flag, Acks
<1>6. Progress /\ Numbered /\ Counted
  BY <1>1, <1>2, <1>4 DEF S!Init, Progress, Numbered, Counted
<1>7. AcksOrdered
  <2>1. S!Prev(0) = ReqSeqMod - 1
    BY <1>1, PrevIs
  <2> QED BY <1>2, <1>3, <2>1 DEF AcksOrdered
<1>8. Credit(0) /\ 0 \in 0..ReqFrags
  BY <1>1, <1>2, <1>3 DEF S!Init, Credit
<1> QED BY <1>5, <1>6, <1>7, <1>8 DEF SendInv

\* Every step keeps the invariant.
LEMMA StepInv == SendInv /\ [S!Next]_S!vars => SendInv'
<1> SUFFICES ASSUME SendInv, [S!Next]_S!vars PROVE SendInv'
  OBVIOUS
<1>1. CASE S!Next
  BY <1>1, AckStep, WriteStep, EndStep, TakeStep, DeviceStep DEF S!Next, S!Client
<1>2. CASE UNCHANGED S!vars
  BY <1>2 DEF S!vars, SendInv, S!TypeOK, Progress, Numbered, Counted, AcksOrdered, Credit, S!Prev
<1> QED BY <1>1, <1>2

\* The other steps of the exchange leave the request alone, or drop what is
\* left of it once send has returned.
LEMMA RequestInv == Spec => []SendInv
<1>1. Init => SendInv
  BY InitInv DEF Init
<1>2. SendInv /\ [Next]_vars => SendInv'
  <2> SUFFICES ASSUME SendInv, [Next]_vars PROVE SendInv'
    OBVIOUS
  <2>1. CASE Downlink(S!Next)
    BY <2>1, StepInv DEF Downlink
  <2>2. CASE Turn
    <3>1. /\ sPc = "ok" /\ sWire' = <<>> /\ sAcks' = <<>>
          /\ UNCHANGED <<sPc, seq, target, sentLast, sChunks, closed, request, sFaults, written>>
      BY <2>2 DEF Turn
    <3>2. /\ sWire' \in Seq(Packets) /\ DOMAIN sWire' = {}
          /\ sAcks' \in Seq(Acks) /\ DOMAIN sAcks' = {}
      BY <3>1, EmptySeq
    <3>3. S!TypeOK' /\ Progress' /\ Numbered' /\ Counted' /\ AcksOrdered'
      BY <3>1, <3>2 DEF SendInv, S!TypeOK, Progress, Numbered, Counted, AcksOrdered, Packets, Flag, Acks
    <3>4. \E g \in 0..ReqFrags : Credit(g)'
      BY <3>1, <3>2 DEF SendInv, Credit
    <3> QED BY <3>3, <3>4 DEF SendInv
  <2>3. CASE TurnFails \/ Uplink(R!Next) \/ UNCHANGED vars
    BY <2>3, StepInv DEF TurnFails, Uplink, vars, sending, S!vars
  <2> QED BY <2>1, <2>2, <2>3 DEF Next
<1> QED BY <1>1, <1>2, PTL DEF Spec

\* The sender never has more fragments out than the device's window, for any
\* window, whatever acks are repeated or late (sar.py:84, 99).
THEOREM WindowCorrect == Spec => []WindowRespected
<1>1. SendInv => WindowRespected
  <2> SUFFICES ASSUME SendInv PROVE WindowRespected
    OBVIOUS
  <2>1. PICK g \in 0..ReqFrags : g <= Len(sChunks) /\ written <= g + ReqWindow
    BY DEF SendInv, Credit
  <2> QED BY <2>1, Types DEF SendInv, WindowRespected, S!WindowRespected
<1> QED BY <1>1, RequestInv, PTL

\* send implements Transfer: it returns only with every fragment at the device,
\* once and in order, for any number of fragments up to the number of sequence
\* numbers (sar.py:86-100), though writes to a closed end count as delivered.
THEOREM RequestCorrect == Spec => RequestDelivered
<1> DEFINE result == IF sPc \in {"ok", "failed"} THEN sPc ELSE "busy"
<1>1. Init => S!T!Init
  BY DEF Init, S!Init, S!T!Init
<1>2. SendInv /\ [Next]_vars => [S!T!Next]_<<sChunks, result>>
  <2> SUFFICES ASSUME SendInv, [Next]_vars PROVE S!T!Next \/ UNCHANGED <<sChunks, result>>
    OBVIOUS
  <2>1. CASE S!DeviceTake
    <3>1. Len(sChunks) < ReqFrags /\ sChunks' = Append(sChunks, Len(sChunks) + 1) /\ sPc' = sPc
      BY <2>1, TakeStep DEF S!DeviceTake, S!sender
    <3> QED BY <3>1 DEF S!T!Next, S!T!Take
  <2>2. CASE S!Fin
    BY <2>2 DEF S!Fin, SendInv, Progress, S!T!Next, S!T!Return
  <2>3. CASE S!AckRefused \/ S!WriteFails \/ S!Timeout
    BY <2>3 DEF S!AckRefused, S!TakeAck, S!WriteFails, S!Timeout, S!T!Next, S!T!Raise
  <2>4. CASE S!AckMore \/ S!AckStale \/ S!AckLast \/ S!Write \/ S!BurstEnds
    BY <2>4 DEF S!AckMore, S!AckStale, S!AckLast, S!TakeAck, S!Write, S!BurstEnds
  <2>5. CASE S!DeviceFin \/ S!DeviceReack \/ S!DeviceNack \/ S!DeviceClose
    BY <2>5 DEF S!DeviceFin, S!DeviceReack, S!DeviceNack, S!DeviceClose, S!sender
  <2>6. CASE Turn \/ TurnFails \/ Uplink(R!Next) \/ UNCHANGED vars
    BY <2>6 DEF Turn, TurnFails, Uplink, vars, sending
  <2> QED BY <2>1, <2>2, <2>3, <2>4, <2>5, <2>6 DEF Next, Downlink, S!Next, S!Client
<1> QED BY <1>1, <1>2, RequestInv, PTL DEF Spec, RequestDelivered, S!ImplementsTransfer, S!T!Spec

-----------------------------------------------------------------------------
\* The response.  Its sizes, as ExchangeAssumption has them.
LEMMA RspBounds ==
  RspSeqMod \in Nat \ {0} /\ RspSeqMod > 2 /\ RspFrags \in Nat \ {0} /\ RspWindow \in 1..(RspSeqMod - 1)
  BY ExchangeAssumption

-----------------------------------------------------------------------------
\* Division with remainder.
LEMMA ModDef ==
  ASSUME NEW M \in Nat \ {0}, NEW x \in Nat
  PROVE  x % M \in 0..(M - 1) /\ x \div M \in Nat /\ x = M * (x \div M) + (x % M)
  OBVIOUS

\* Multiples of M are M apart.
LEMMA MulGap ==
  ASSUME NEW M \in Nat \ {0}, NEW p \in Int, NEW q \in Int, p < q
  PROVE  M * p + M <= M * q /\ M * p \in Int /\ M * q \in Int
<1>1. PICK d \in Nat : q = p + 1 + d
  BY q = p + 1 + (q - p - 1)
<1>2. M * q = M * p + M + M * d /\ M * d \in Nat /\ M * p \in Int
  BY <1>1
<1> QED BY <1>2

\* The remainder is the only one.
LEMMA ModUnique ==
  ASSUME NEW M \in Nat \ {0}, NEW q \in Nat, NEW r \in 0..(M - 1)
  PROVE  (M * q + r) % M = r
<1> DEFINE x == M * q + r
<1>1. x \in Nat
  OBVIOUS
<1>2. x % M \in 0..(M - 1) /\ x \div M \in Nat /\ x = M * (x \div M) + (x % M)
  BY <1>1, ModDef
<1> HIDE DEF x
<1>5. PICK p \in Nat, s \in 0..(M - 1) : x = M * p + s /\ s = x % M
  BY <1>2
<1>6. x = M * q + r
  BY DEF x
<1>3. CASE p < q
  BY <1>3, <1>5, <1>6, MulGap
<1>4. CASE q < p
  BY <1>4, <1>5, <1>6, MulGap
<1>7. CASE p = q
  <2>1. M * p \in Int
    BY <1>5
  <2> QED BY <1>7, <1>5, <1>6, <2>1 DEF x
<1> QED BY <1>3, <1>4, <1>7

\* The same, of a number by name.
LEMMA ModIs ==
  ASSUME NEW M \in Nat \ {0}, NEW q \in Nat, NEW r \in 0..(M - 1), NEW x, x = M * q + r
  PROVE  x % M = r
  BY ModUnique

\* Every number is some rounds and a remainder, which more rounds do not change.
LEMMA ModRounds ==
  ASSUME NEW M \in Nat \ {0}, NEW x \in Nat
  PROVE  \E m \in Nat, r \in 0..(M - 1) :
           /\ x = m + r /\ r = x % M
           /\ \A s \in 0..(M - 1) : /\ (m + s) % M = s
                                     /\ (m + M + s) % M = s
                                     /\ (m + 2 * M + s) % M = s
<1>1. PICK q \in Nat, r \in 0..(M - 1) : x = M * q + r /\ r = x % M
  BY ModDef
<1>2. PICK m \in Nat : m = M * q
  OBVIOUS
<1>3. PICK q1 \in Nat, q2 \in Nat : M * q1 = m + M /\ M * q2 = m + 2 * M
  <2>1. M * (q + 1) = m + M /\ M * (q + 2) = m + 2 * M /\ q + 1 \in Nat /\ q + 2 \in Nat
    BY <1>2
  <2> QED BY <2>1
<1>4. ASSUME NEW s \in 0..(M - 1)
      PROVE  (m + s) % M = s /\ (m + M + s) % M = s /\ (m + 2 * M + s) % M = s
  <2>1. (m + s) % M = s
    BY <1>2, ModIs
  <2>2. (m + M + s) % M = s
    <3>1. m + M + s = M * q1 + s
      BY <1>3
    <3> QED BY <3>1, ModIs
  <2>3. (m + 2 * M + s) % M = s
    <3>1. m + 2 * M + s = M * q2 + s
      BY <1>3
    <3> QED BY <3>1, ModIs
  <2> QED BY <2>1, <2>2, <2>3
<1> QED BY <1>1, <1>2, <1>4

\* The first rounds.
LEMMA ModTwo ==
  ASSUME NEW M \in Nat \ {0}, NEW s \in 0..(M - 1)
  PROVE  s % M = s /\ (M + s) % M = s /\ (2 * M + s) % M = s
<1>1. s = M * 0 + s /\ M + s = M * 1 + s /\ 2 * M + s = M * 2 + s
  OBVIOUS
<1>2. s % M = s
  BY <1>1, ModIs
<1>3. (M + s) % M = s
  BY <1>1, ModIs
<1>4. (2 * M + s) % M = s
  BY <1>1, ModIs
<1> QED BY <1>2, <1>3, <1>4

\* The number after a sequence number.
LEMMA ModNext ==
  ASSUME NEW M \in Nat \ {0}, NEW x \in Nat
  PROVE  (x + 1) % M = ((x % M) + 1) % M
<1>1. PICK m \in Nat, r \in 0..(M - 1) :
        /\ x = m + r /\ r = x % M
        /\ \A s \in 0..(M - 1) : (m + s) % M = s /\ (m + M + s) % M = s /\ (m + 2 * M + s) % M = s
  BY ModRounds
<1>2. CASE r = M - 1
  <2>1. x + 1 = m + M + 0 /\ 0 \in 0..(M - 1) /\ r + 1 = M + 0
    BY <1>1, <1>2
  <2> QED BY <1>1, <2>1, ModTwo
<1>3. CASE r # M - 1
  <2>1. x + 1 = m + (r + 1) /\ r + 1 \in 0..(M - 1)
    BY <1>1, <1>3
  <2> QED BY <1>1, <2>1, ModTwo
<1> QED BY <1>2, <1>3

\* A round later the number is the same.
LEMMA ModShift ==
  ASSUME NEW M \in Nat \ {0}, NEW x \in Nat
  PROVE  (x + M) % M = x % M
<1>1. PICK m \in Nat, r \in 0..(M - 1) :
        /\ x = m + r /\ r = x % M
        /\ \A s \in 0..(M - 1) : (m + s) % M = s /\ (m + M + s) % M = s /\ (m + 2 * M + s) % M = s
  BY ModRounds
<1>2. x + M = m + M + r
  BY <1>1
<1> QED BY <1>1, <1>2

\* Numbers less than a round apart have the same remainder only if equal.
LEMMA ModSame ==
  ASSUME NEW M \in Nat \ {0}, NEW x \in Nat, NEW y \in Nat, x % M = y % M, x - y < M, y - x < M
  PROVE  x = y
<1>1. PICK q \in Nat, r \in 0..(M - 1) : x = M * q + r /\ r = x % M
  BY ModDef
<1>2. PICK p \in Nat, s \in 0..(M - 1) : y = M * p + s /\ s = y % M
  BY ModDef
<1>3. CASE p < q
  BY <1>1, <1>2, <1>3, MulGap
<1>4. CASE q < p
  BY <1>1, <1>2, <1>4, MulGap
<1>5. CASE p = q
  BY <1>1, <1>2, <1>5
<1> QED BY <1>3, <1>4, <1>5

\* The device reads off an ack how many fragments arrived since the last one
\* (Distance), if fewer than a round.
LEMMA ModDistance ==
  ASSUME NEW M \in Nat \ {0}, NEW a \in Nat, NEW d \in 0..(M - 1)
  PROVE  (((a + d + M - 1) % M) + 1 + M - (a % M)) % M = d
<1>1. PICK m \in Nat, r \in 0..(M - 1) :
        /\ a = m + r /\ r = a % M
        /\ \A s \in 0..(M - 1) : (m + s) % M = s /\ (m + M + s) % M = s /\ (m + 2 * M + s) % M = s
  BY ModRounds
<1> SUFFICES (((a + d + M - 1) % M) + 1 + M - r) % M = d
  BY <1>1
<1> DEFINE p == (a + d + M - 1) % M
           e == p + 1 + M - r
<1>2. CASE r + d = 0
  <2>1. a + d + M - 1 = m + (M - 1) /\ M - 1 \in 0..(M - 1)
    BY <1>1, <1>2
  <2>2. p = M - 1
    BY <1>1, <2>1
  <2>3. e = 2 * M + d
    BY <1>2, <2>2
  <2> QED BY <2>3, ModTwo
<1>3. CASE r + d \in 1..M
  <2>1. a + d + M - 1 = m + M + (r + d - 1) /\ r + d - 1 \in 0..(M - 1)
    BY <1>1, <1>3
  <2>2. p = r + d - 1
    BY <1>1, <2>1
  <2>3. e = M + d
    BY <1>3, <2>2
  <2> QED BY <2>3, ModTwo
<1>4. CASE r + d > M
  <2>1. a + d + M - 1 = m + 2 * M + (r + d - M - 1) /\ r + d - M - 1 \in 0..(M - 1)
    BY <1>1, <1>4
  <2>2. p = r + d - M - 1
    BY <1>1, <2>1
  <2>3. e = d
    BY <1>4, <2>2
  <2>4. d % M = d
    BY ModTwo
  <2> QED BY <2>3, <2>4
<1> QED BY <1>1, <1>2, <1>3, <1>4

-----------------------------------------------------------------------------
\* The packets and acks of a response.
Frames == [flags : SUBSET {"LAST", "FIN"}, seq : 0..(RspSeqMod - 1), frag : 0..RspFrags, high : 0..RspFrags]
RspAcks == [seq : 0..(RspSeqMod - 1), count : 0..RspFrags]

\* The fragments sent once p is.
After(p) == IF p.high < p.frag THEN p.frag ELSE p.high

\* A fragment is at most the next one and at most a window behind; a FIN of
\* success comes after all.
Sound(p) ==
  IF "FIN" \in p.flags
  THEN p.frag = 0
  ELSE /\ p.frag \in 1..RspFrags /\ p.frag <= p.high + 1 /\ p.high < p.frag + RspWindow
       /\ p.seq = (p.frag - 1) % RspSeqMod
       /\ "LAST" \in p.flags <=> p.frag = RspFrags

\* The packets of w lead from n fragments to s.
Line(w, n, s) ==
  /\ \A i \in 1..Len(w) : Sound(w[i])
  /\ \A i \in 1..(Len(w) - 1) : w[i + 1].high = After(w[i])
  /\ \A i \in 1..Len(w) : After(w[i]) <= s
  /\ IF Len(w) = 0 THEN n = s ELSE w[1].high = n /\ After(w[Len(w)]) = s

\* The acks of k are for lo to hi fragments, older ones first.
Ordered(k, lo, hi) ==
  /\ \A i \in 1..Len(k) : /\ lo <= k[i].count /\ k[i].count <= hi
                           /\ k[i].seq = (k[i].count + RspSeqMod - 1) % RspSeqMod
  /\ \A i, j \in 1..Len(k) : i < j => k[i].count <= k[j].count

\* A packet is taken off the wire.
LEMMA LineTail ==
  ASSUME NEW w \in Seq(Frames), w # <<>>, NEW n, NEW s, Line(w, n, s)
  PROVE  /\ Head(w) \in Frames /\ Sound(Head(w)) /\ Head(w).high = n
         /\ Tail(w) \in Seq(Frames) /\ Line(Tail(w), After(Head(w)), s) /\ After(Head(w)) <= s
<1>1. /\ Head(w) \in Frames /\ Tail(w) \in Seq(Frames) /\ Len(Tail(w)) = Len(w) - 1 /\ Len(w) \in Nat \ {0}
      /\ \A i \in 1..Len(Tail(w)) : Tail(w)[i] = w[i + 1]
  BY HeadTailProperties, EmptySeq
<1>2. Head(w) = w[1]
  OBVIOUS
<1> DEFINE t == Tail(w)
<1> HIDE DEF t
<1>3. Len(t) = Len(w) - 1 /\ \A i \in 1..Len(t) : t[i] = w[i + 1]
  BY <1>1 DEF t
<1>4. \A i \in 1..Len(t) : Sound(t[i]) /\ After(t[i]) <= s
  BY <1>1, <1>3 DEF Line
<1>5. ASSUME NEW i \in 1..(Len(t) - 1) PROVE t[i + 1].high = After(t[i])
  <2>1. i + 1 \in 1..(Len(w) - 1) /\ i \in 1..Len(t) /\ i + 1 \in 1..Len(t)
    BY <1>1, <1>3
  <2>2. t[i] = w[i + 1] /\ t[i + 1] = w[(i + 1) + 1]
    BY <1>3, <2>1
  <2> QED BY <2>1, <2>2 DEF Line
<1>6. CASE Len(w) = 1
  BY <1>1, <1>2, <1>3, <1>4, <1>5, <1>6 DEF Line, t
<1>7. CASE Len(w) # 1
  <2>1. Len(t) # 0 /\ 1 \in 1..Len(t) /\ Len(t) \in 1..Len(t) /\ 1 \in 1..(Len(w) - 1) /\ Len(t) + 1 = Len(w)
    BY <1>1, <1>3, <1>7
  <2>2. t[1] = w[1 + 1] /\ t[Len(t)] = w[Len(w)]
    BY <1>3, <2>1
  <2>3. t[1].high = After(w[1]) /\ After(t[Len(t)]) = s
    BY <1>1, <2>1, <2>2 DEF Line
  <2>4. Line(t, After(Head(w)), s)
    BY <1>2, <1>4, <1>5, <2>1, <2>3 DEF Line
  <2> QED BY <1>1, <1>2, <2>4 DEF Line, t
<1> QED BY <1>6, <1>7

\* Packets are put on it.
LEMMA LinePush ==
  ASSUME NEW w \in Seq(Frames), NEW f \in Seq(Frames), Len(f) # 0, NEW n, NEW s \in Nat, Line(w, n, s),
         NEW z \in Nat, Line(f, s, z)
  PROVE  w \o f \in Seq(Frames) /\ Line(w \o f, n, z)
<1> DEFINE v == w \o f
<1>1. /\ v \in Seq(Frames) /\ Len(v) = Len(w) + Len(f) /\ Len(w) \in Nat /\ Len(f) \in Nat \ {0}
      /\ \A i \in 1..(Len(w) + Len(f)) : v[i] = IF i <= Len(w) THEN w[i] ELSE f[i - Len(w)]
  BY ConcatProperties, LenProperties
<1> HIDE DEF v
<1>2. \A i \in 1..Len(v) : \/ i \in 1..Len(w) /\ v[i] = w[i]
                           \/ i - Len(w) \in 1..Len(f) /\ v[i] = f[i - Len(w)]
  BY <1>1
<1>3. \A i \in 1..Len(v) : Sound(v[i]) /\ After(v[i]) <= z
  <2>1. \A p \in Frames : p.high \in Nat /\ p.frag \in Nat /\ After(p) \in Nat /\ p.high <= After(p)
    BY RspBounds DEF Frames, After
  <2>2. 1 \in 1..Len(f) /\ f[1] \in Frames /\ \A i \in 1..Len(w) : w[i] \in Frames
    BY <1>1
  <2>3. s <= z
    BY <2>1, <2>2 DEF Line
  <2>4. \A i \in 1..Len(w) : Sound(w[i]) /\ After(w[i]) <= z
    <3>1. \A i \in 1..Len(w) : Sound(w[i]) /\ After(w[i]) <= s /\ After(w[i]) \in Nat
      BY <2>1, <2>2 DEF Line
    <3> QED BY <2>3, <3>1
  <2>5. \A i \in 1..Len(f) : Sound(f[i]) /\ After(f[i]) <= z
    BY DEF Line
  <2> QED BY <1>2, <2>4, <2>5
<1>4. ASSUME NEW i \in 1..(Len(v) - 1) PROVE v[i + 1].high = After(v[i])
  <2>1. CASE i < Len(w)
    <3>1. i \in 1..(Len(w) - 1) /\ v[i] = w[i] /\ v[i + 1] = w[i + 1]
      BY <1>1, <2>1
    <3> QED BY <3>1 DEF Line
  <2>2. CASE i = Len(w)
    <3>1. v[i] = w[Len(w)] /\ v[i + 1] = f[1] /\ Len(w) # 0
      BY <1>1, <2>2
    <3> QED BY <1>1, <3>1 DEF Line
  <2>3. CASE i > Len(w)
    <3>1. i - Len(w) \in 1..(Len(f) - 1) /\ v[i] = f[i - Len(w)] /\ v[i + 1] = f[(i - Len(w)) + 1]
      BY <1>1, <2>3
    <3> QED BY <3>1 DEF Line
  <2> QED BY <1>1, <2>1, <2>2, <2>3
<1>5. v[1].high = n
  <2>1. CASE Len(w) = 0
    <3>1. v[1] = f[1] /\ n = s /\ f[1].high = s
      BY <1>1, <2>1 DEF Line
    <3> QED BY <3>1
  <2>2. CASE Len(w) # 0
    BY <1>1, <2>2 DEF Line
  <2> QED BY <2>1, <2>2
<1>6. After(v[Len(v)]) = z
  <2>1. v[Len(v)] = f[Len(f)]
    BY <1>1
  <2> QED BY <1>1, <2>1 DEF Line
<1> QED BY <1>1, <1>3, <1>4, <1>5, <1>6 DEF Line, v

\* A packet is put on it that sends no new fragment.
LEMMA LineAppend ==
  ASSUME NEW w \in Seq(Frames), NEW p \in Frames, NEW n, NEW s \in Nat, Line(w, n, s),
         Sound(p), p.high = s, After(p) = s
  PROVE  Append(w, p) \in Seq(Frames) /\ Line(Append(w, p), n, s)
<1>1. PICK f : f = <<p>>
  OBVIOUS
<1>2. f \in Seq(Frames) /\ Len(f) = 1 /\ f[1] = p
  BY <1>1
<1>3. Line(f, s, s)
  BY <1>2 DEF Line
<1>4. Append(w, p) = w \o f
  BY <1>1, AppendIsConcat
<1> QED BY <1>2, <1>3, <1>4, LinePush

\* An ack is taken.
LEMMA OrderedTail ==
  ASSUME NEW k \in Seq(RspAcks), k # <<>>, NEW lo, NEW hi, Ordered(k, lo, hi)
  PROVE  /\ Head(k) \in RspAcks /\ lo <= Head(k).count /\ Head(k).count <= hi
         /\ Head(k).seq = (Head(k).count + RspSeqMod - 1) % RspSeqMod
         /\ Tail(k) \in Seq(RspAcks)
         /\ Ordered(Tail(k), lo, hi) /\ Ordered(Tail(k), Head(k).count, hi)
<1> DEFINE t == Tail(k)
<1>1. /\ Head(k) \in RspAcks /\ t \in Seq(RspAcks) /\ Len(t) = Len(k) - 1 /\ Len(k) \in Nat \ {0}
      /\ \A i \in 1..Len(t) : t[i] = k[i + 1]
  BY HeadTailProperties, EmptySeq
<1>2. Head(k) = k[1]
  OBVIOUS
<1> HIDE DEF t
<1>3. \A i \in 1..Len(t) : i + 1 \in 1..Len(k) /\ t[i] = k[i + 1] /\ 1 < i + 1
  BY <1>1
<1>4. 1 \in 1..Len(k)
  BY <1>1
<1>5. \A i \in 1..Len(t) : /\ lo <= t[i].count /\ t[i].count <= hi /\ k[1].count <= t[i].count
                           /\ t[i].seq = (t[i].count + RspSeqMod - 1) % RspSeqMod
  BY <1>3, <1>4 DEF Ordered
<1>6. ASSUME NEW i \in 1..Len(t), NEW j \in 1..Len(t), i < j PROVE t[i].count <= t[j].count
  <2>1. i + 1 < j + 1
    BY <1>1, <1>6
  <2> QED BY <1>3, <2>1 DEF Ordered
<1>7. Ordered(t, lo, hi) /\ Ordered(t, k[1].count, hi)
  BY <1>5, <1>6 DEF Ordered
<1> QED BY <1>1, <1>2, <1>4, <1>7 DEF Ordered, t

\* An ack is written.
LEMMA OrderedAppend ==
  ASSUME NEW k \in Seq(RspAcks), NEW lo \in Nat, NEW hi \in Nat, Ordered(k, lo, hi),
         NEW a \in RspAcks, hi <= a.count, lo <= hi, a.seq = (a.count + RspSeqMod - 1) % RspSeqMod
  PROVE  Append(k, a) \in Seq(RspAcks) /\ Ordered(Append(k, a), lo, a.count)
<1> DEFINE v == Append(k, a)
<1>1. /\ v \in Seq(RspAcks) /\ Len(v) = Len(k) + 1 /\ Len(k) \in Nat
      /\ \A i \in 1..Len(k) : v[i] = k[i] /\ k[i] \in RspAcks
      /\ v[Len(k) + 1] = a
  BY AppendProperties, LenProperties
<1> HIDE DEF v
<1>2. \A i \in 1..Len(v) : \/ i \in 1..Len(k) /\ v[i] = k[i]
                           \/ i = Len(k) + 1 /\ v[i] = a
  BY <1>1
<1>3. a.count \in Nat /\ \A i \in 1..Len(k) : k[i].count \in Nat /\ k[i].count <= hi
  <2>1. \A b \in RspAcks : b.count \in Nat
    BY RspBounds DEF RspAcks
  <2> QED BY <1>1, <2>1 DEF Ordered
<1>4. \A i \in 1..Len(v) : /\ lo <= v[i].count /\ v[i].count <= a.count
                           /\ v[i].seq = (v[i].count + RspSeqMod - 1) % RspSeqMod
  BY <1>2, <1>3 DEF Ordered
<1>5. ASSUME NEW i \in 1..Len(v), NEW j \in 1..Len(v), i < j PROVE v[i].count <= v[j].count
  <2>1. i \in 1..Len(k) /\ v[i] = k[i]
    BY <1>1, <1>5
  <2>2. CASE j \in 1..Len(k)
    BY <1>1, <1>5, <2>1, <2>2 DEF Ordered
  <2>3. CASE j = Len(k) + 1
    BY <1>1, <1>3, <2>1, <2>3
  <2> QED BY <1>2, <2>2, <2>3
<1> QED BY <1>1, <1>4, <1>5 DEF Ordered, v

-----------------------------------------------------------------------------
\* What the receiver has, and what it knows.
Received ==
  /\ expected = Len(rChunks) % RspSeqMod
  /\ last = (Len(rChunks) + RspSeqMod - 1) % RspSeqMod
  /\ ended = "yes" <=> Len(rChunks) = RspFrags

\* The device is within the window of what it knows to have arrived.
Windowed ==
  acked <= Len(rChunks) /\ Len(rChunks) <= sent /\ sent <= acked + RspWindow

ReceiveInv ==
  /\ R!TypeOK /\ Received /\ Windowed
  /\ Line(rWire, Len(rChunks), sent)
  /\ Ordered(rAcks, acked, Len(rChunks))

\* The typed view of the state that the steps below use.
LEMMA RspTypes ==
  ASSUME R!TypeOK
  PROVE  /\ rWire \in Seq(Frames) /\ rAcks \in Seq(RspAcks) /\ rChunks \in Seq(1..RspFrags)
         /\ Len(rChunks) \in Nat /\ acked \in 0..RspFrags /\ sent \in 0..RspFrags
  BY LenProperties DEF R!TypeOK, Frames, RspAcks

\* The invariant holds before the response.
LEMMA ReceiveInit == R!Init => ReceiveInv
<1> SUFFICES ASSUME R!Init PROVE ReceiveInv
  OBVIOUS
<1>1. rWire = <<>> /\ rAcks = <<>> /\ rChunks = <<>> /\ sent = 0 /\ acked = 0
  BY DEF R!Init
<1>2. Len(rWire) = 0 /\ Len(rAcks) = 0 /\ Len(rChunks) = 0
  BY <1>1
<1>3. rWire \in Seq(Frames) /\ rAcks \in Seq(RspAcks) /\ rChunks \in Seq(1..RspFrags)
  BY <1>1, EmptySeq
<1>4. 0 % RspSeqMod = 0 /\ (0 + RspSeqMod - 1) % RspSeqMod = RspSeqMod - 1
  <2>1. 0 \in 0..(RspSeqMod - 1) /\ 0 + RspSeqMod - 1 = RspSeqMod - 1 /\ RspSeqMod - 1 \in 0..(RspSeqMod - 1)
    BY RspBounds
  <2> QED BY <2>1, RspBounds, ModTwo
<1>5. R!TypeOK
  BY <1>1, <1>3, RspBounds DEF R!Init, R!TypeOK, Frames, RspAcks
<1>6. Received /\ Windowed
  BY <1>1, <1>2, <1>4, RspBounds DEF R!Init, Received, Windowed
<1>7. Line(rWire, Len(rChunks), sent) /\ Ordered(rAcks, acked, Len(rChunks))
  <2>1. 1..0 = {} /\ 1..(0 - 1) = {}
    OBVIOUS
  <2> QED BY <1>1, <1>2, <2>1 DEF Line, Ordered
<1> QED BY <1>5, <1>6, <1>7 DEF ReceiveInv

\* receive acks the fragments it has.
LEMMA AckStepRsp ==
  ASSUME ReceiveInv, rAcks' = Append(rAcks, R!Ack(last, Len(rChunks)))
  PROVE  rAcks' \in Seq(RspAcks) /\ Ordered(rAcks', acked, Len(rChunks))
<1> DEFINE a == R!Ack(last, Len(rChunks))
<1>1. Len(rChunks) \in 0..RspFrags
  BY RspBounds, RspTypes DEF ReceiveInv, Windowed
<1>2. a \in RspAcks /\ a.count = Len(rChunks) /\ a.seq = (Len(rChunks) + RspSeqMod - 1) % RspSeqMod
  BY <1>1 DEF R!Ack, RspAcks, ReceiveInv, Received, R!TypeOK
<1>3. acked \in Nat /\ acked <= Len(rChunks)
  BY RspTypes DEF ReceiveInv, Windowed
<1> HIDE DEF a
<1>4. /\ Append(rAcks, a) \in Seq(RspAcks) /\ Ordered(Append(rAcks, a), acked, a.count)
  BY <1>1, <1>2, <1>3, RspTypes, OrderedAppend DEF ReceiveInv
<1> QED BY <1>2, <1>4 DEF a

\* A fragment that is not the next one is an earlier one: nothing is missed.
LEMMA OldStep ==
  ASSUME ReceiveInv, R!OutOfOrder
  PROVE  ReceiveInv'
<1>1. /\ rWire # <<>> /\ rWire' = Tail(rWire) /\ "FIN" \notin Head(rWire).flags /\ Head(rWire).seq # expected
      /\ UNCHANGED <<rPc, expected, last, ended, rChunks, rFaults, acked, sent, device>>
      /\ rAcks' = Append(rAcks, R!Ack(last, Len(rChunks)))
  BY DEF R!OutOfOrder, R!Fragment, R!TakePacket, R!InOrder, R!client, R!dev
<1>2. /\ Head(rWire) \in Frames /\ Sound(Head(rWire)) /\ Head(rWire).high = Len(rChunks)
      /\ rWire' \in Seq(Frames) /\ Line(rWire', After(Head(rWire)), sent)
  BY <1>1, RspTypes, LineTail DEF ReceiveInv
<1>3. After(Head(rWire)) = Len(rChunks)
  <2>1. /\ Head(rWire).frag \in Nat /\ Head(rWire).frag <= Len(rChunks) + 1
        /\ Head(rWire).seq = (Head(rWire).frag - 1) % RspSeqMod
    <3>1. \A p \in Frames : p.frag \in Nat
      BY RspBounds DEF Frames
    <3> QED BY <1>1, <1>2, <3>1 DEF Sound
  <2>2. Head(rWire).frag # Len(rChunks) + 1
    <3>1. CASE Head(rWire).frag = Len(rChunks) + 1
      <4>1. Head(rWire).frag - 1 = Len(rChunks)
        BY <3>1, RspTypes DEF ReceiveInv
      <4> QED BY <1>1, <2>1, <4>1 DEF ReceiveInv, Received
    <3> QED BY <3>1
  <2> QED BY <1>2, <2>1, <2>2, RspTypes DEF After, ReceiveInv
<1>4. rAcks' \in Seq(RspAcks) /\ Ordered(rAcks', acked, Len(rChunks))
  BY <1>1, AckStepRsp
<1>5. R!TypeOK'
  BY <1>1, <1>2, <1>4 DEF ReceiveInv, R!TypeOK, Frames, RspAcks
<1>6. Received' /\ Windowed'
  BY <1>1 DEF ReceiveInv, Received, Windowed
<1> QED BY <1>1, <1>2, <1>3, <1>4, <1>5, <1>6 DEF ReceiveInv

\* A fragment whose number is the expected one is the next, though the numbers
\* come round, and never one after the last.
LEMMA InOrderIsNext ==
  ASSUME ReceiveInv, rWire # <<>>, "FIN" \notin Head(rWire).flags, Head(rWire).seq = expected
  PROVE  /\ Head(rWire).frag = Len(rChunks) + 1 /\ Len(rChunks) < RspFrags /\ ended = "no"
         /\ "LAST" \in Head(rWire).flags <=> Head(rWire).frag = RspFrags
<1>1. Head(rWire) \in Frames /\ Sound(Head(rWire)) /\ Head(rWire).high = Len(rChunks)
  BY RspTypes, LineTail DEF ReceiveInv
<1>2. /\ Head(rWire).frag \in 1..RspFrags /\ Head(rWire).frag <= Len(rChunks) + 1
      /\ Len(rChunks) < Head(rWire).frag + RspWindow
      /\ (Head(rWire).frag - 1) % RspSeqMod = Len(rChunks) % RspSeqMod
      /\ "LAST" \in Head(rWire).flags <=> Head(rWire).frag = RspFrags
  BY <1>1 DEF Sound, ReceiveInv, Received
<1>3. PICK x \in Nat : x = Head(rWire).frag - 1
  BY <1>2, RspBounds
<1>4. PICK y \in Nat : y = Len(rChunks)
  BY RspTypes DEF ReceiveInv
<1>5. x % RspSeqMod = y % RspSeqMod /\ x - y < RspSeqMod /\ y - x < RspSeqMod
  BY <1>2, <1>3, <1>4, RspBounds
<1>6. x = y
  BY <1>5, RspBounds, ModSame
<1>7. Head(rWire).frag = Len(rChunks) + 1 /\ Len(rChunks) < RspFrags
  BY <1>2, <1>3, <1>4, <1>6, RspBounds
<1> QED BY <1>2, <1>4, <1>7, RspBounds DEF ReceiveInv, Received, R!TypeOK

\* A fragment is accepted.
LEMMA AcceptStep ==
  ASSUME ReceiveInv, R!Accept
  PROVE  /\ ReceiveInv' /\ Len(rChunks) < RspFrags /\ rChunks' = Append(rChunks, Len(rChunks) + 1)
         /\ rPc' = rPc
<1>1. /\ rWire # <<>> /\ rWire' = Tail(rWire) /\ "FIN" \notin Head(rWire).flags /\ Head(rWire).seq = expected
      /\ UNCHANGED <<rPc, rFaults, acked, sent, device>>
      /\ rChunks' = Append(rChunks, Head(rWire).frag)
      /\ last' = Head(rWire).seq /\ expected' = (Head(rWire).seq + 1) % RspSeqMod
      /\ ended' = IF "LAST" \in Head(rWire).flags THEN "yes" ELSE "no"
      /\ rAcks' = Append(rAcks, R!Ack(last', Len(rChunks')))
  BY DEF R!Accept, R!Fragment, R!TakePacket, R!InOrder, R!dev
<1>2. /\ Head(rWire) \in Frames /\ Sound(Head(rWire)) /\ Head(rWire).high = Len(rChunks)
      /\ rWire' \in Seq(Frames) /\ Line(rWire', After(Head(rWire)), sent)
  BY <1>1, RspTypes, LineTail DEF ReceiveInv
<1>3. /\ Head(rWire).frag = Len(rChunks) + 1 /\ Len(rChunks) < RspFrags
      /\ "LAST" \in Head(rWire).flags <=> Head(rWire).frag = RspFrags
  BY <1>1, InOrderIsNext
<1>4. PICK n \in Nat : n = Len(rChunks)
  BY RspTypes DEF ReceiveInv
<1>5. n + 1 \in 1..RspFrags
  BY <1>3, <1>4, RspBounds
<1>6. rChunks' \in Seq(1..RspFrags) /\ Len(rChunks') = n + 1
  BY <1>1, <1>3, <1>4, <1>5, RspTypes, AppendProperties DEF ReceiveInv
<1>7. After(Head(rWire)) = n + 1
  BY <1>2, <1>3, <1>4 DEF After
<1>8. /\ expected = n % RspSeqMod /\ n % RspSeqMod \in 0..(RspSeqMod - 1)
      /\ expected' = (n + 1) % RspSeqMod /\ (n + 1) % RspSeqMod \in 0..(RspSeqMod - 1)
  <2>1. expected = n % RspSeqMod
    BY <1>4 DEF ReceiveInv, Received
  <2>2. n % RspSeqMod \in 0..(RspSeqMod - 1) /\ (n + 1) % RspSeqMod \in 0..(RspSeqMod - 1)
    BY RspBounds, n + 1 \in Nat, ModDef
  <2>3. (n + 1) % RspSeqMod = ((n % RspSeqMod) + 1) % RspSeqMod
    BY RspBounds, ModNext
  <2> QED BY <1>1, <2>1, <2>2, <2>3
<1>9. last' = ((n + 1) + RspSeqMod - 1) % RspSeqMod
  <2>1. (n + RspSeqMod) % RspSeqMod = n % RspSeqMod
    BY RspBounds, ModShift
  <2>2. (n + 1) + RspSeqMod - 1 = n + RspSeqMod
    BY RspBounds
  <2> QED BY <1>1, <1>8, <2>1, <2>2
<1>10. last' \in 0..(RspSeqMod - 1)
  BY <1>1, <1>8
<1>11. Received'
  BY <1>1, <1>3, <1>4, <1>6, <1>8, <1>9 DEF Received
<1>12. n + 1 <= sent
  BY <1>1, <1>7, RspTypes, LineTail DEF ReceiveInv
<1>13. Windowed'
  <2>1. acked <= n /\ n <= sent /\ sent <= acked + RspWindow /\ acked \in Nat
    BY <1>4, RspTypes DEF ReceiveInv, Windowed
  <2> QED BY <1>1, <1>6, <1>12, <2>1 DEF Windowed
<1>14. rAcks' \in Seq(RspAcks) /\ Ordered(rAcks', acked, n + 1)
  <2> DEFINE a == R!Ack(last', Len(rChunks'))
  <2>1. a \in RspAcks /\ a.count = n + 1 /\ a.seq = ((n + 1) + RspSeqMod - 1) % RspSeqMod
    BY <1>5, <1>6, <1>9, <1>10 DEF R!Ack, RspAcks
  <2> HIDE DEF a
  <2>2. acked \in Nat /\ acked <= n /\ n <= a.count
    BY <1>4, <2>1, RspTypes DEF ReceiveInv, Windowed
  <2>3. Append(rAcks, a) \in Seq(RspAcks) /\ Ordered(Append(rAcks, a), acked, a.count)
    BY <1>4, <2>1, <2>2, RspTypes, OrderedAppend DEF ReceiveInv
  <2> QED BY <1>1, <2>1, <2>3 DEF a
<1>15. R!TypeOK'
  BY <1>1, <1>2, <1>6, <1>8, <1>10, <1>14 DEF ReceiveInv, R!TypeOK, Frames, RspAcks
<1> QED BY <1>1, <1>2, <1>3, <1>6, <1>7, <1>11, <1>13, <1>14, <1>15 DEF ReceiveInv

\* The other steps of receive.
LEMMA ReceiverStep ==
  ASSUME ReceiveInv, R!Open \/ R!Reack \/ R!Timeout \/ R!FinOk \/ R!FinBad
  PROVE  ReceiveInv' /\ rChunks' = rChunks
<1>1. CASE R!Open \/ R!Reack
  <2>1. /\ rAcks' = Append(rAcks, R!Ack(last, Len(rChunks))) /\ rPc' \in {"wait", rPc}
        /\ UNCHANGED <<expected, last, ended, rChunks, rWire, acked, sent, device, rFaults>>
    BY <1>1 DEF R!Open, R!Reack, R!client, R!dev
  <2>2. rAcks' \in Seq(RspAcks) /\ Ordered(rAcks', acked, Len(rChunks))
    BY <2>1, AckStepRsp
  <2>3. R!TypeOK'
    BY <2>1, <2>2 DEF ReceiveInv, R!TypeOK, RspAcks
  <2> QED BY <2>1, <2>2, <2>3 DEF ReceiveInv, Received, Windowed
<1>2. CASE R!Timeout
  BY <1>2 DEF R!Timeout, R!dev, ReceiveInv, R!TypeOK, Received, Windowed
<1>3. CASE R!FinOk \/ R!FinBad
  <2>1. /\ rWire # <<>> /\ rWire' = Tail(rWire) /\ "FIN" \in Head(rWire).flags /\ rPc' \in {"ok", "failed"}
        /\ UNCHANGED <<expected, last, ended, rChunks, rAcks, acked, sent, device, rFaults>>
    BY <1>3 DEF R!FinOk, R!FinBad, R!FinPacket, R!TakePacket, R!dev
  <2>2. /\ Head(rWire) \in Frames /\ Sound(Head(rWire)) /\ Head(rWire).high = Len(rChunks)
        /\ rWire' \in Seq(Frames) /\ Line(rWire', After(Head(rWire)), sent)
    BY <2>1, RspTypes, LineTail DEF ReceiveInv
  <2>3. After(Head(rWire)) = Len(rChunks)
    BY <2>1, <2>2, RspTypes DEF Sound, After, ReceiveInv
  <2>4. R!TypeOK'
    BY <2>1, <2>2 DEF ReceiveInv, R!TypeOK, Frames
  <2> QED BY <2>1, <2>2, <2>3, <2>4 DEF ReceiveInv, Received, Windowed
<1> QED BY <1>1, <1>2, <1>3

\* An ack tells the device what has arrived.
LEMMA DistanceIs ==
  ASSUME ReceiveInv, rAcks # <<>>
  PROVE  /\ Head(rAcks).count \in 0..RspFrags /\ acked <= Head(rAcks).count
         /\ Head(rAcks).count <= Len(rChunks)
         /\ acked + R!Distance(Head(rAcks).seq) = Head(rAcks).count
         /\ Tail(rAcks) \in Seq(RspAcks) /\ Ordered(Tail(rAcks), acked, Len(rChunks))
         /\ Ordered(Tail(rAcks), Head(rAcks).count, Len(rChunks))
<1>1. /\ Head(rAcks) \in RspAcks /\ acked <= Head(rAcks).count /\ Head(rAcks).count <= Len(rChunks)
      /\ Head(rAcks).seq = (Head(rAcks).count + RspSeqMod - 1) % RspSeqMod
      /\ Tail(rAcks) \in Seq(RspAcks) /\ Ordered(Tail(rAcks), acked, Len(rChunks))
      /\ Ordered(Tail(rAcks), Head(rAcks).count, Len(rChunks))
  BY RspTypes, OrderedTail DEF ReceiveInv
<1>2. Head(rAcks).count \in 0..RspFrags
  BY <1>1 DEF RspAcks
<1>3. PICK c \in Nat, a \in Nat : c = Head(rAcks).count /\ a = acked
  BY <1>2, RspTypes, RspBounds DEF ReceiveInv
<1>4. PICK d \in 0..(RspSeqMod - 1) : c = a + d
  <2>1. c - a \in 0..(RspSeqMod - 1) /\ c = a + (c - a)
    <3>1. PICK n \in Nat, z \in Nat : n = Len(rChunks) /\ z = sent
      BY RspTypes, RspBounds DEF ReceiveInv
    <3>2. a <= c /\ c <= n /\ n <= z /\ z <= a + RspWindow
      BY <1>1, <1>3, <3>1 DEF ReceiveInv, Windowed
    <3> QED BY <3>2, RspBounds
  <2> QED BY <2>1
<1>5. (((a + d + RspSeqMod - 1) % RspSeqMod) + 1 + RspSeqMod - (a % RspSeqMod)) % RspSeqMod = d
  BY RspBounds, ModDistance
<1>6. R!Distance(Head(rAcks).seq) = d
  BY <1>1, <1>3, <1>4, <1>5 DEF R!Distance
<1> QED BY <1>1, <1>2, <1>3, <1>4, <1>6

\* Sequences are functions.
LEMMA FunctionIsSeq ==
  ASSUME NEW S0, NEW n \in Nat, NEW g \in [1..n -> S0]
  PROVE  g \in Seq(S0) /\ Len(g) = n
<1>1. g \in Seq(S0)
  BY SeqDef
<1> QED BY <1>1, LenProperties

\* What the device pushes, anew or once more, leads from what it had sent on.
LEMMA Pushed ==
  ASSUME ReceiveInv, NEW from \in Nat, NEW upto \in 0..RspFrags,
         acked <= from, from <= sent, sent <= upto, from < upto
  PROVE  LET f == [k \in 1..(upto - from) |-> R!Packet(from + k)]
         IN  f \in Seq(Frames) /\ Len(f) = upto - from /\ Line(f, sent, upto)
<1>1. PICK s \in 0..RspFrags, a \in Nat : s = sent /\ a = acked /\ s <= a + RspWindow
  BY RspTypes, RspBounds DEF ReceiveInv, Windowed
<1>2. ASSUME NEW i \in (from + 1)..upto
      PROVE  /\ R!Packet(i) \in Frames /\ Sound(R!Packet(i)) /\ R!Packet(i).high = (IF s < i THEN i - 1 ELSE s)
             /\ After(R!Packet(i)) = (IF s < i THEN i ELSE s)
  <2>1. i \in 1..RspFrags /\ i - 1 \in Nat /\ i - 1 \in 0..RspFrags
    BY RspBounds
  <2>2. (i - 1) % RspSeqMod \in 0..(RspSeqMod - 1)
    BY <2>1, RspBounds, ModDef
  <2>3. /\ R!Packet(i).flags = (IF i = RspFrags THEN {"LAST"} ELSE {})
        /\ R!Packet(i).seq = (i - 1) % RspSeqMod /\ R!Packet(i).frag = i
        /\ R!Packet(i).high = (IF s < i THEN i - 1 ELSE s)
        /\ DOMAIN R!Packet(i) = {"flags", "seq", "frag", "high"}
    BY <1>1 DEF R!Packet
  <2>4. R!Packet(i) \in Frames
    BY <1>1, <2>1, <2>2 DEF R!Packet, Frames
  <2>5. s < i + RspWindow /\ i - 1 < i + RspWindow /\ i <= (IF s < i THEN i - 1 ELSE s) + 1
    BY <1>1, <2>1, RspBounds
  <2>6. Sound(R!Packet(i))
    BY <2>1, <2>3, <2>5 DEF Sound
  <2>7. After(R!Packet(i)) = (IF s < i THEN i ELSE s)
    BY <1>1, <2>1, <2>3 DEF After
  <2> QED BY <2>3, <2>4, <2>6, <2>7
<1> DEFINE n == upto - from
           f == [k \in 1..n |-> R!Packet(from + k)]
<1>3. n \in Nat \ {0} /\ \A k \in 1..n : from + k \in (from + 1)..upto
  BY RspBounds
<1>4. f \in [1..n -> Frames] /\ \A k \in 1..n : f[k] = R!Packet(from + k)
  BY <1>2, <1>3
<1>5. f \in Seq(Frames) /\ Len(f) = n
  <2> HIDE DEF f, n
  <2> QED BY <1>3, <1>4, FunctionIsSeq
<1> HIDE DEF f, n
<1>6. \A k \in 1..n : /\ Sound(f[k]) /\ f[k].high = (IF s < from + k THEN from + k - 1 ELSE s)
                      /\ After(f[k]) = (IF s < from + k THEN from + k ELSE s)
  <2> TAKE k \in 1..n
  <2>1. PICK i \in (from + 1)..upto : i = from + k
    BY <1>3
  <2>2. f[k] = R!Packet(i)
    BY <1>4, <2>1
  <2> QED BY <1>2, <2>1, <2>2
<1>7. n = upto - from /\ from <= s /\ s <= upto /\ s \in Nat /\ upto \in Nat
  BY <1>1, RspBounds DEF n
<1>8. \A k \in 1..n : Sound(f[k]) /\ After(f[k]) <= upto
  BY <1>3, <1>6, <1>7
<1>9. ASSUME NEW k \in 1..(n - 1) PROVE f[k + 1].high = After(f[k])
  <2>1. k \in 1..n /\ k + 1 \in 1..n
    BY <1>3
  <2>2. /\ f[k + 1].high = (IF s < from + (k + 1) THEN from + (k + 1) - 1 ELSE s)
        /\ After(f[k]) = (IF s < from + k THEN from + k ELSE s)
    BY <1>6, <2>1
  <2> QED BY <1>7, <2>2
<1>10. f[1].high = s /\ After(f[n]) = upto
  <2>1. 1 \in 1..n /\ n \in 1..n /\ from + n = upto
    BY <1>3, <1>7
  <2>2. /\ f[1].high = (IF s < from + 1 THEN from + 1 - 1 ELSE s)
        /\ After(f[n]) = (IF s < from + n THEN from + n ELSE s)
    BY <1>6, <2>1
  <2> QED BY <1>7, <2>1, <2>2
<1>11. Line(f, s, upto)
  BY <1>3, <1>5, <1>8, <1>9, <1>10 DEF Line
<1> QED BY <1>1, <1>5, <1>11 DEF f, n

\* The device hears an ack, and sends on.
LEMMA DeviceAckStep ==
  ASSUME ReceiveInv, R!DeviceAck
  PROVE  ReceiveInv'
<1>1. /\ rAcks # <<>> /\ rAcks' = Tail(rAcks) /\ acked' = acked + R!Distance(Head(rAcks).seq) /\ acked' < RspFrags
      /\ sent' = R!Upto(acked') /\ UNCHANGED <<device, rPc, expected, last, ended, rChunks, rFaults>>
      /\ R!DevicePush(sent, sent') \/ (acked' = acked /\ R!DevicePush(acked, sent'))
  BY DEF R!DeviceAck, R!client
<1>2. PICK c \in 0..RspFrags : c = acked' /\ acked <= c /\ c <= Len(rChunks) /\ c < RspFrags
                             /\ rAcks' \in Seq(RspAcks) /\ Ordered(rAcks', c, Len(rChunks))
  BY <1>1, DistanceIs
<1>3. PICK a \in Nat, n \in Nat, s \in 0..RspFrags :
        /\ a = acked /\ n = Len(rChunks) /\ s = sent
        /\ a <= n /\ n <= s /\ s <= a + RspWindow
  BY RspTypes, RspBounds DEF ReceiveInv, Windowed
<1>4. PICK u \in 0..RspFrags : u = sent' /\ s <= u /\ c < u /\ u <= c + RspWindow
  BY <1>1, <1>2, <1>3, RspBounds DEF R!Upto
<1>5. rWire \in Seq(Frames) /\ Line(rWire, n, s)
  BY <1>3, RspTypes DEF ReceiveInv
<1>6. rWire' \in Seq(Frames) /\ Line(rWire', n, u)
  <2>1. ASSUME NEW from \in Nat, R!DevicePush(from, u), a <= from, from <= s, from < u
        PROVE  rWire' \in Seq(Frames) /\ Line(rWire', n, u)
    <3> DEFINE f == [k \in 1..(u - from) |-> R!Packet(from + k)]
    <3>1. f \in Seq(Frames) /\ Len(f) = u - from /\ Line(f, s, u)
      BY <1>3, <1>4, <2>1, Pushed
    <3>2. rWire' = rWire \o f
      BY <2>1 DEF R!DevicePush
    <3> HIDE DEF f
    <3>3. Len(f) # 0 /\ s \in Nat /\ u \in Nat
      <4>1. u - from # 0 /\ s \in Nat /\ u \in Nat
        BY <2>1, RspBounds
      <4> QED BY <3>1, <4>1
    <3> QED BY <1>5, <3>1, <3>2, <3>3, LinePush
  <2>2. CASE R!DevicePush(sent, sent') /\ s < u
    BY <1>3, <1>4, <2>1, <2>2
  <2>3. CASE R!DevicePush(sent, sent') /\ s = u
    <3> DEFINE f == [k \in 1..(u - s) |-> R!Packet(s + k)]
    <3>1. 1..(u - s) = {}
      BY <2>3, RspBounds
    <3>2. f = <<>>
      BY <3>1
    <3>3. rWire' = rWire \o f
      BY <1>3, <1>4, <2>3 DEF R!DevicePush
    <3> HIDE DEF f
    <3>4. rWire' = rWire
      BY <1>5, <3>2, <3>3, ConcatEmptySeq
    <3> QED BY <1>5, <2>3, <3>4
  <2>4. CASE acked' = acked /\ R!DevicePush(acked, sent')
    <3>1. a <= a /\ a <= s /\ a < u /\ R!DevicePush(a, u)
      BY <1>2, <1>3, <1>4, <2>4, RspBounds
    <3> QED BY <2>1, <3>1
  <2> QED BY <1>1, <1>3, <1>4, <2>2, <2>3, <2>4, RspBounds
<1>7. R!TypeOK'
  BY <1>1, <1>2, <1>4, <1>6 DEF ReceiveInv, R!TypeOK, Frames, RspAcks
<1>8. Received'
  BY <1>1 DEF ReceiveInv, Received
<1>9. Windowed'
  BY <1>1, <1>2, <1>3, <1>4, RspBounds DEF Windowed
<1> QED BY <1>1, <1>2, <1>3, <1>4, <1>6, <1>7, <1>8, <1>9 DEF ReceiveInv

\* The device ends the transfer, or gives it up.
LEMMA DeviceEndStep ==
  ASSUME ReceiveInv, R!DeviceFin \/ R!DeviceIdle \/ R!DeviceAbort
  PROVE  ReceiveInv'
<1>1. PICK a \in Nat, n \in Nat, s \in 0..RspFrags :
        /\ a = acked /\ n = Len(rChunks) /\ s = sent
        /\ a <= n /\ n <= s /\ s <= a + RspWindow
  BY RspTypes, RspBounds DEF ReceiveInv, Windowed
<1>2. UNCHANGED <<rPc, expected, last, ended, rChunks, rFaults, sent>> /\ device' \in {"fin", "aborted", device}
  BY DEF R!DeviceFin, R!DeviceIdle, R!DeviceAbort, R!client, R!dev
<1>3. PICK c \in 0..RspFrags : /\ c = acked' /\ a <= c /\ c <= n
                             /\ rAcks' \in Seq(RspAcks) /\ Ordered(rAcks', c, n)
  <2>1. CASE R!DeviceFin
    BY <1>1, <2>1, DistanceIs DEF R!DeviceFin
  <2>2. CASE R!DeviceIdle
    BY <1>1, <2>2, DistanceIs, RspTypes DEF R!DeviceIdle, R!dev, ReceiveInv
  <2>3. CASE R!DeviceAbort
    BY <1>1, <2>3, RspTypes DEF R!DeviceAbort, ReceiveInv
  <2> QED BY <2>1, <2>2, <2>3
<1>4. rWire \in Seq(Frames) /\ Line(rWire, n, s)
  BY <1>1, RspTypes DEF ReceiveInv
<1>5. rWire' \in Seq(Frames) /\ Line(rWire', n, s)
  <2>1. CASE R!DeviceIdle
    BY <1>4, <2>1 DEF R!DeviceIdle
  <2>2. CASE R!DeviceFin \/ R!DeviceAbort
    <3>1. PICK k \in {0, 2} : rWire' = Append(rWire, [flags |-> {"FIN"}, seq |-> k, frag |-> 0, high |-> s])
      BY <1>1, <2>2 DEF R!DeviceFin, R!DeviceAbort
    <3>2. PICK p : p = [flags |-> {"FIN"}, seq |-> k, frag |-> 0, high |-> s]
      OBVIOUS
    <3>3. p \in Frames /\ p.frag = 0 /\ "FIN" \in p.flags /\ p.high = s /\ s \in Nat
      BY <3>2, RspBounds DEF Frames
    <3>4. Sound(p) /\ After(p) = s
      BY <3>3 DEF Sound, After
    <3> QED BY <1>4, <3>1, <3>2, <3>3, <3>4, LineAppend
  <2> QED BY <2>1, <2>2
<1>6. R!TypeOK'
  BY <1>2, <1>3, <1>5 DEF ReceiveInv, R!TypeOK, Frames, RspAcks
<1>7. Received'
  BY <1>2 DEF ReceiveInv, Received
<1>8. Windowed'
  <2>1. c <= n /\ n <= s /\ s <= c + RspWindow
    <3>1. a <= c /\ c <= n
      BY <1>3
    <3>2. n <= s /\ s <= a + RspWindow
      BY <1>1
    <3> QED BY <3>1, <3>2, RspBounds
  <2> QED BY <1>1, <1>2, <1>3, <2>1 DEF Windowed
<1> QED BY <1>1, <1>2, <1>3, <1>5, <1>6, <1>7, <1>8 DEF ReceiveInv

\* Every step of the response keeps the invariant.
LEMMA ReceiveStep == ReceiveInv /\ [R!Next]_R!vars => ReceiveInv'
<1> SUFFICES ASSUME ReceiveInv, [R!Next]_R!vars PROVE ReceiveInv'
  OBVIOUS
<1>1. CASE R!Next
  BY <1>1, ReceiverStep, OldStep, AcceptStep, DeviceAckStep, DeviceEndStep DEF R!Next, R!Client, R!Device
<1>2. CASE UNCHANGED R!vars
  BY <1>2 DEF R!vars, ReceiveInv, R!TypeOK, Received, Windowed
<1> QED BY <1>1, <1>2

\* The steps of the request leave the response alone.
LEMMA ResponseInv == Spec => []ReceiveInv
<1>1. Init => ReceiveInv
  BY ReceiveInit DEF Init
<1>2. ReceiveInv /\ [Next]_vars => ReceiveInv'
  <2> SUFFICES ASSUME ReceiveInv, [Next]_vars PROVE ReceiveInv'
    OBVIOUS
  <2>1. CASE Uplink(R!Next)
    BY <2>1, ReceiveStep DEF Uplink
  <2>2. CASE Turn \/ TurnFails
    BY <2>2 DEF Turn, TurnFails, ReceiveInv, R!TypeOK, Received, Windowed
  <2>3. CASE Downlink(S!Next) \/ UNCHANGED vars
    BY <2>3, ReceiveStep DEF Downlink, vars, receiving, R!vars
  <2> QED BY <2>1, <2>2, <2>3 DEF Next
<1> QED BY <1>1, <1>2, PTL DEF Spec

\* The state of both transfers keeps its types: sequence numbers stay in their
\* byte, and no fragment is numbered beyond the blob (sar.py:84, 108, 170).
THEOREM TypeCorrect == Spec => []TypeOK
<1> DEFINE Sided == side \in {"downlink", "uplink"}
<1>1. Init => Sided
  BY DEF Init
<1>2. Sided /\ [Next]_vars => Sided'
  BY DEF Next, Downlink, Uplink, Turn, TurnFails, vars
<1>3. SendInv /\ ReceiveInv /\ Sided => TypeOK
  BY DEF SendInv, ReceiveInv, TypeOK
<1> HIDE DEF Sided
<1> QED BY <1>1, <1>2, <1>3, RequestInv, ResponseInv, PTL DEF Spec

\* A fragment carries the expected number after the last one was taken: receive
\* would raise (sar.py:165-166).
AfterLast == rWire # <<>> /\ "FIN" \notin Head(rWire).flags /\ R!InOrder /\ ended = "yes"

\* A device that keeps to its window never makes receive raise so, however often
\* the numbers come round: what justifies the guard of Accept.
THEOREM AfterLastNever == Spec => []~AfterLast
<1>1. ReceiveInv => ~AfterLast
  BY InOrderIsNext DEF AfterLast, R!InOrder
<1> QED BY <1>1, ResponseInv, PTL

\* receive has not begun while the request is sent.
Before == side = "downlink" => rPc = "open"

\* Only the steps of the uplink, or the end of the exchange, touch it.
LEMMA BeforeInv == Spec => []Before
<1>1. Init => Before
  BY DEF Init, R!Init, Before
<1>2. Before /\ [Next]_vars => Before'
  BY DEF Next, Downlink, Uplink, Turn, TurnFails, vars, receiving, Before
<1> QED BY <1>1, <1>2, PTL DEF Spec

\* receive implements Transfer: it returns only the whole blob, each fragment
\* once and in order, though fragments are pushed again and sequence numbers come
\* round (sar.py:153-173).
THEOREM ResponseCorrect == Spec => ResponseDelivered
<1> DEFINE result == IF rPc \in {"ok", "failed"} THEN rPc ELSE "busy"
<1>1. Init => R!T!Init
  BY DEF Init, R!Init, R!T!Init
<1>2. ReceiveInv /\ Before /\ [Next]_vars => [R!T!Next]_<<rChunks, result>>
  <2> SUFFICES ASSUME ReceiveInv, Before, [Next]_vars PROVE R!T!Next \/ UNCHANGED <<rChunks, result>>
    OBVIOUS
  <2>1. CASE R!Accept
    <3>1. Len(rChunks) < RspFrags /\ rChunks' = Append(rChunks, Len(rChunks) + 1) /\ rPc' = rPc
      BY <2>1, AcceptStep
    <3> QED BY <3>1 DEF R!T!Next, R!T!Take
  <2>2. CASE R!FinOk
    <3>1. rPc = "wait" /\ rPc' = "ok" /\ ended = "yes" /\ rChunks' = rChunks
      BY <2>2 DEF R!FinOk, R!FinPacket, R!TakePacket
    <3>2. Len(rChunks) = RspFrags
      BY <3>1 DEF ReceiveInv, Received
    <3> QED BY <3>1, <3>2 DEF R!T!Next, R!T!Return
  <2>3. CASE R!FinBad \/ R!Timeout
    BY <2>3 DEF R!FinBad, R!FinPacket, R!TakePacket, R!Timeout, R!T!Next, R!T!Raise
  <2>4. CASE R!Open \/ R!Reack \/ R!OutOfOrder
    BY <2>4 DEF R!Open, R!Reack, R!OutOfOrder, R!client
  <2>5. CASE R!DeviceAck \/ R!DeviceFin \/ R!DeviceIdle \/ R!DeviceAbort
    BY <2>5 DEF R!DeviceAck, R!DeviceFin, R!DeviceIdle, R!DeviceAbort, R!client
  <2>6. CASE TurnFails
    BY <2>6 DEF TurnFails, Before, R!T!Next, R!T!Raise
  <2>7. CASE Turn \/ Downlink(S!Next) \/ UNCHANGED vars
    BY <2>7 DEF Turn, Downlink, vars, receiving
  <2> QED BY <2>1, <2>2, <2>3, <2>4, <2>5, <2>6, <2>7 DEF Next, Uplink, R!Next, R!Client, R!Device
<1> QED BY <1>1, <1>2, ResponseInv, BeforeInv, PTL DEF Spec, ResponseDelivered, R!ImplementsTransfer, R!T!Spec

-----------------------------------------------------------------------------
\* The first n fragments of a blob, each once and in order.
Fragments(n) == [i \in 1..n |-> i]

\* The response is received only once the request has been delivered, and both
\* ends have nothing but the first fragments of their blob.
WholeInv ==
  /\ side = "downlink" => rPc = "open"
  /\ side # "downlink" => sPc = "ok"
  /\ rPc = "ok" => Len(rChunks) = RspFrags
  /\ sChunks = Fragments(Len(sChunks))
  /\ rChunks = Fragments(Len(rChunks))

\* Taking the next fragment keeps them in order.
LEMMA NextFragment ==
  ASSUME NEW n \in Nat
  PROVE  Append(Fragments(n), n + 1) = Fragments(n + 1) /\ Len(Fragments(n + 1)) = n + 1
<1>1. Fragments(n) \in Seq(Nat) /\ Len(Fragments(n)) = n
  BY DEF Fragments
<1>2. Append(Fragments(n), n + 1) \in Seq(Nat) /\ Len(Append(Fragments(n), n + 1)) = n + 1
  BY <1>1
<1>3. \A i \in 1..(n + 1) : Append(Fragments(n), n + 1)[i] = i
  BY <1>1 DEF Fragments
<1> QED BY <1>2, <1>3 DEF Fragments

\* An exchange that returns has delivered both pouches: when receive returns, the
\* device has every fragment of the request and the client every fragment of the
\* response, each once and in order, for any number of them and whatever was
\* repeated, late or closed (session.py:65-74, sar.py:86-100, 153-173).
THEOREM ExchangeCorrect ==
  Spec => [](rPc = "ok" => sChunks = Fragments(ReqFrags) /\ rChunks = Fragments(RspFrags))
<1>1. Init => WholeInv
  BY DEF Init, S!Init, R!Init, WholeInv, Fragments
<1>2. SendInv /\ ReceiveInv /\ WholeInv /\ [Next]_vars => WholeInv'
  <2> SUFFICES ASSUME SendInv, ReceiveInv, WholeInv, [Next]_vars PROVE WholeInv'
    OBVIOUS
  <2>1. CASE Downlink(S!DeviceTake)
    <3>1. /\ sChunks' = Append(sChunks, Len(sChunks) + 1) /\ sPc' = sPc
          /\ UNCHANGED <<side, rPc, rChunks>>
      BY <2>1, TakeStep DEF Downlink, S!DeviceTake, S!sender, receiving
    <3>2. Len(sChunks) \in Nat
      BY Types DEF SendInv
    <3> QED BY <3>1, <3>2, NextFragment, Zenon DEF WholeInv
  <2>2. CASE Downlink(S!Next) /\ ~S!DeviceTake
    <3>1. UNCHANGED <<side, rPc, rChunks, sChunks>> /\ side = "downlink"
      BY <2>2 DEF Downlink, receiving, S!Next, S!Client, S!AckMore, S!AckStale, S!AckLast, S!AckRefused,
                  S!TakeAck, S!Write, S!WriteFails, S!BurstEnds, S!Fin, S!Timeout, S!DeviceFin,
                  S!DeviceReack, S!DeviceNack, S!DeviceClose
    <3> QED BY <3>1 DEF WholeInv
  <2>3. CASE Turn \/ TurnFails
    BY <2>3 DEF Turn, TurnFails, sending, WholeInv
  <2>4. CASE Uplink(R!Accept)
    <3>1. /\ rChunks' = Append(rChunks, Len(rChunks) + 1) /\ rPc' = rPc /\ rPc = "wait"
          /\ side = "uplink" /\ UNCHANGED <<side, sPc, sChunks>>
      BY <2>4, AcceptStep DEF Uplink, R!Accept, R!Fragment, R!TakePacket, sending
    <3>2. Len(rChunks) \in Nat
      BY RspTypes DEF ReceiveInv
    <3> QED BY <3>1, <3>2, NextFragment, Zenon DEF WholeInv
  <2>5. CASE Uplink(R!FinOk)
    BY <2>5 DEF Uplink, R!FinOk, R!FinPacket, R!TakePacket, sending, ReceiveInv, Received, WholeInv
  <2>6. CASE Uplink(R!Next) /\ ~R!Accept /\ ~R!FinOk
    <3>1. /\ UNCHANGED <<side, sPc, sChunks, rChunks>> /\ side = "uplink"
          /\ rPc' = rPc \/ rPc' # "ok"
      BY <2>6 DEF Uplink, sending, R!Next, R!Client, R!Open, R!OutOfOrder, R!Fragment, R!FinBad,
                  R!FinPacket, R!TakePacket, R!Reack, R!Timeout, R!Device, R!DeviceAck, R!DeviceFin,
                  R!DeviceIdle, R!DeviceAbort, R!client
    <3> QED BY <3>1 DEF WholeInv
  <2>7. CASE UNCHANGED vars
    BY <2>7 DEF vars, sending, receiving, WholeInv
  <2> QED BY <2>1, <2>2, <2>3, <2>4, <2>5, <2>6, <2>7 DEF Next, Downlink, Uplink
<1>3. SendInv /\ WholeInv
        => (rPc = "ok" => sChunks = Fragments(ReqFrags) /\ rChunks = Fragments(RspFrags))
  BY DEF SendInv, Progress, WholeInv
<1> QED BY <1>1, <1>2, <1>3, RequestInv, ResponseInv, PTL DEF Spec

-----------------------------------------------------------------------------
\* Without a fault of the request its FIN is on the wire until the device has
\* handled it, and the client turns to the response after that.
FinInv ==
  sFaults = {} =>
    /\ closed = "no" /\ request # "dropped"
    /\ sPc = "ok" /\ sWire = <<>> => request = "handled"
    /\ side = "uplink" => sPc = "ok" /\ sWire = <<>>
    /\ side = "downlink" => rPc = "open"

\* An exchange that returns, without a fault of the request, has had its request
\* handled by a device that handles it with the FIN as the simulated one does: the
\* client never takes the response before (sar.py:86-96, mock.py:280-285).
THEOREM RequestHandled == Spec => [](rPc = "ok" /\ sFaults = {} => request = "handled")
<1>1. Init => FinInv
  BY DEF Init, S!Init, R!Init, FinInv
<1>2. SendInv /\ FinInv /\ [Next]_vars => FinInv'
  <2> SUFFICES ASSUME SendInv, FinInv, [Next]_vars, sFaults' = {} PROVE FinInv'
    BY DEF FinInv
  <2>0. sFaults = {}
    BY DEF Next, Downlink, Uplink, Turn, TurnFails, sending, vars, S!Next, S!Client, S!DeviceTake,
           S!DeviceFin, S!DeviceReack, S!DeviceNack, S!DeviceClose, S!sender
  <2> USE <2>0 DEF FinInv
  <2>1. CASE Downlink(S!Client)
    <3>1. /\ side = "downlink" /\ UNCHANGED <<side, rPc, closed, request>> /\ sPc # "ok"
      BY <2>1 DEF Downlink, receiving, S!Client, S!AckMore, S!AckStale, S!AckLast, S!AckRefused,
                  S!TakeAck, S!Write, S!WriteFails, S!BurstEnds, S!Fin, S!Timeout
    <3>2. sPc' = "ok" => sWire' # <<>>
      <4>1. CASE S!Fin
        BY <3>1, <4>1, Types DEF S!Fin, SendInv
      <4>2. CASE ~S!Fin
        BY <2>1, <3>1, <4>2 DEF Downlink, S!Client, S!AckMore, S!AckStale, S!AckLast, S!AckRefused,
                    S!TakeAck, S!Write, S!WriteFails, S!BurstEnds, S!Timeout
      <4> QED BY <4>1, <4>2
    <3> QED BY <3>1, <3>2
  <2>2. CASE Downlink(S!DeviceTake)
    <3>1. /\ side = "downlink" /\ UNCHANGED <<side, rPc, closed, request, sPc>>
          /\ Len(sChunks) < ReqFrags
      BY <2>2, TakeStep DEF Downlink, receiving, S!DeviceTake, S!sender
    <3>2. sPc # "ok"
      BY <3>1, Types DEF SendInv, Progress
    <3> QED BY <3>1, <3>2
  <2>3. CASE Downlink(S!DeviceFin)
    BY <2>3 DEF Downlink, receiving, S!DeviceFin, S!sender
  <2>4. CASE Downlink(S!DeviceReack \/ S!DeviceNack \/ S!DeviceClose)
    BY <2>4 DEF Downlink, receiving, S!DeviceReack, S!DeviceNack, S!DeviceClose, S!sender
  <2>5. CASE Turn \/ TurnFails
    BY <2>5 DEF Turn, TurnFails
  <2>6. CASE Uplink(R!Next) \/ UNCHANGED vars
    BY <2>6 DEF Uplink, sending, vars, receiving
  <2> QED BY <2>1, <2>2, <2>3, <2>4, <2>5, <2>6 DEF Next, Downlink, S!Next
<1>3. FinInv /\ TypeOK => (rPc = "ok" /\ sFaults = {} => request = "handled")
  BY DEF FinInv, TypeOK
<1> QED BY <1>1, <1>2, <1>3, RequestInv, TypeCorrect, PTL DEF Spec
=============================================================================
