--------------------------- MODULE UDTTransferProofs ---------------------------
(***************************************************************************)
(* Proofs about UDTTransfer: whatever is lost, repeated and reordered, and *)
(* wherever the numbers wrap around, the buffers of both ends agree and a  *)
(* connection is a reliable stream.                                        *)
(***************************************************************************)
EXTENDS UDTTransfer, FiniteSetTheorems, SequenceTheorems, WellFoundedInduction, TLAPS

-----------------------------------------------------------------------------
(* Sequence numbers and their places. *)

LEMMA Bounds ==
  /\ MaxSeqNo \in Nat /\ SeqNoTH \in Nat /\ 1 <= SeqNoTH /\ 2 * SeqNoTH <= MaxSeqNo + 1
  /\ ISN \in 0 .. MaxSeqNo /\ NData \in Nat /\ NData + 1 <= SeqNoTH /\ NData + 1 <= MaxSeqNo
  /\ SndBufSize \in Nat /\ RcvBufSize \in Nat /\ RcvBufSize > 2 /\ FlowWindow \in Nat /\ ExpLimit \in Nat
  /\ MaxLoss \in Nat /\ MaxEarly \in Nat /\ MaxNet \in Nat
<1>1. MaxSeqNo \in Nat /\ SeqNoTH \in Nat /\ 1 <= SeqNoTH /\ 2 * SeqNoTH <= MaxSeqNo + 1
  BY SeqNoAssumption
<1>2. /\ {NData, SndBufSize, RcvBufSize, FlowWindow, ExpLimit, MaxLoss, MaxEarly, MaxNet} \subseteq Nat
      /\ ISN \in SeqNos /\ NData < SeqNoTH /\ RcvBufSize > 2
  BY TransferAssumption
<1>3. /\ NData \in Nat /\ SndBufSize \in Nat /\ RcvBufSize \in Nat /\ FlowWindow \in Nat /\ ExpLimit \in Nat
      /\ MaxLoss \in Nat /\ MaxEarly \in Nat /\ MaxNet \in Nat
  BY <1>2
<1> QED BY <1>1, <1>2, <1>3 DEF SeqNos

LEMMA PlaceType == \A s \in SeqNos : place(s) \in 0 .. MaxSeqNo
BY Bounds DEF SeqNos, place, decseq

LEMMA PlaceOne ==
  ASSUME NEW a \in SeqNos, NEW b \in SeqNos, place(a) = place(b)
  PROVE  a = b
BY Bounds DEF SeqNos, place, decseq

LEMMA PlaceStart == ISN \in SeqNos /\ decseq(ISN) \in SeqNos /\ place(ISN) = 1 /\ place(decseq(ISN)) = 0
BY Bounds DEF SeqNos, place, decseq

LEMMA PlaceNext ==
  ASSUME NEW a \in SeqNos
  PROVE  /\ incseq(a) \in SeqNos /\ decseq(a) \in SeqNos
         /\ place(a) < MaxSeqNo => place(incseq(a)) = place(a) + 1
         /\ place(a) > 0 => place(decseq(a)) = place(a) - 1
<1>1. incseq(a) \in SeqNos /\ decseq(a) \in SeqNos
  BY Bounds DEF SeqNos, incseq, decseq
<1>2. place(a) < MaxSeqNo => place(incseq(a)) = place(a) + 1
  BY Bounds DEF SeqNos, place, incseq, decseq
<1>3. place(a) > 0 => place(decseq(a)) = place(a) - 1
  BY Bounds DEF SeqNos, place, decseq
<1> QED BY <1>1, <1>2, <1>3

LEMMA PlaceBy ==
  ASSUME NEW a \in SeqNos, NEW n \in Nat, place(a) + n <= MaxSeqNo
  PROVE  incseqBy(a, n) \in SeqNos /\ place(incseqBy(a, n)) = place(a) + n
BY Bounds DEF SeqNos, place, incseqBy, decseq

\* Numbers that are less than half of the circle apart compare as their places do.
LEMMA PlaceCompare ==
  ASSUME NEW a \in SeqNos, NEW b \in SeqNos, place(a) - place(b) < SeqNoTH, place(b) - place(a) < SeqNoTH
  PROVE  /\ seqoff(a, b) = place(b) - place(a)
         /\ seqcmp(a, b) > 0 <=> place(a) > place(b)
         /\ seqcmp(a, b) >= 0 <=> place(a) >= place(b)
         /\ seqcmp(a, b) <= 0 <=> place(a) <= place(b)
<1> DEFINE M == MaxSeqNo + 1
<1>1. place(a) - place(b) \in {a - b, a - b + M, a - b - M}
  BY Bounds DEF SeqNos, place, decseq
<1>2. a \in Int /\ b \in Int /\ a - b < M /\ b - a < M
  BY Bounds DEF SeqNos
<1>3. seqoff(a, b) = place(b) - place(a)
  BY <1>1, <1>2, Bounds, PlaceType DEF seqoff, Abs
<1>4. /\ seqcmp(a, b) > 0 <=> place(a) > place(b)
      /\ seqcmp(a, b) >= 0 <=> place(a) >= place(b)
      /\ seqcmp(a, b) <= 0 <=> place(a) <= place(b)
  BY <1>1, <1>2, Bounds, PlaceType DEF seqcmp, Abs
<1> QED BY <1>3, <1>4

LEMMA PlaceBetween ==
  ASSUME NEW a \in SeqNos, NEW b \in SeqNos, place(a) - place(b) < SeqNoTH, place(b) - place(a) < SeqNoTH
  PROVE  /\ Between(a, b) \subseteq SeqNos
         /\ \A s \in SeqNos : s \in Between(a, b) <=> place(a) <= place(s) /\ place(s) <= place(b)
<1>1. seqoff(a, b) = place(b) - place(a) /\ place(a) \in Nat /\ place(b) \in 0 .. MaxSeqNo
  BY PlaceCompare, PlaceType
<1>2. \A n \in 0 .. seqoff(a, b) : incseqBy(a, n) \in SeqNos /\ place(incseqBy(a, n)) = place(a) + n
  BY <1>1, PlaceBy, Bounds
<1>3. ASSUME NEW s \in SeqNos, place(a) <= place(s), place(s) <= place(b) PROVE s \in Between(a, b)
  <2> DEFINE n == place(s) - place(a)
  <2>1. n \in 0 .. seqoff(a, b)
    BY <1>1, <1>3, PlaceType
  <2>2. incseqBy(a, n) \in SeqNos /\ place(incseqBy(a, n)) = place(s)
    BY <2>1, <1>1, <1>2, PlaceType
  <2>3. incseqBy(a, n) = s
    BY <2>2, PlaceOne
  <2> QED BY <2>1, <2>3 DEF Between
<1>4. ASSUME NEW s \in Between(a, b) PROVE s \in SeqNos /\ place(a) <= place(s) /\ place(s) <= place(b)
  <2>1. PICK n \in 0 .. seqoff(a, b) : s = incseqBy(a, n)
    BY <1>4 DEF Between
  <2> QED BY <2>1, <1>1, <1>2
<1> QED BY <1>3, <1>4

\* A set of numbers that is not empty has a first one.
LEMMA FirstPlace ==
  ASSUME NEW S \in SUBSET SeqNos, S # {}
  PROVE  \E s \in S : \A t \in S : place(s) <= place(t)
<1> DEFINE T == {place(s) : s \in S}
<1>1. T \subseteq Nat /\ T # {}
  BY PlaceType, Bounds
<1>2. \E m \in T : \A n \in T : ~(<<n, m>> \in OpToRel(<, Nat))
  BY <1>1, NatLessThanWellFounded, WFMin
<1>3. PICK m \in T : \A n \in T : ~(n < m)
  BY <1>1, <1>2 DEF OpToRel
<1>4. PICK s \in S : m = place(s)
  OBVIOUS
<1>5. \A t \in S : place(t) \in T /\ place(t) \in Nat /\ m \in Nat
  BY <1>1
<1>6. \A t \in S : ~(place(t) < m)
  BY <1>3, <1>5
<1> HIDE DEF T
<1>7. \A t \in S : m <= place(t)
  BY <1>5, <1>6
<1> QED BY <1>4, <1>7

-----------------------------------------------------------------------------
(* What the invariant says of the places, in one range of integers. *)

LEMMA SenderPlaces ==
  ASSUME TypeOK, SenderBuffer
  PROVE  /\ snd.lastAck \in SeqNos /\ snd.lastDataAck \in SeqNos /\ snd.curr \in SeqNos
         /\ place(snd.lastDataAck) \in 1 .. NData + 1 /\ place(snd.lastAck) \in 1 .. NData + 1
         /\ place(snd.curr) \in 0 .. NData
         /\ snd.next \in Nat /\ Len(snd.buf) \in Nat /\ sent \in Nat /\ sent <= NData
         /\ place(snd.lastDataAck) <= place(snd.lastAck) /\ place(snd.lastAck) <= place(snd.curr) + 1
         /\ snd.next = place(snd.curr) + 1 - place(snd.lastDataAck) /\ snd.next <= Len(snd.buf)
         /\ place(snd.lastDataAck) + Len(snd.buf) = sent + 1
<1>1. /\ snd.lastAck \in SeqNos /\ snd.lastDataAck \in SeqNos /\ snd.curr \in SeqNos
      /\ snd.next \in Nat /\ Len(snd.buf) \in Nat /\ sent \in Nat /\ sent <= NData
  BY Bounds DEF TypeOK, Sender
<1>2. /\ place(snd.lastDataAck) \in Int /\ place(snd.lastAck) \in Int
      /\ place(snd.curr) \in Int /\ place(snd.curr) >= 0
  BY <1>1, PlaceType, Bounds
<1>3. /\ 1 <= place(snd.lastDataAck) /\ place(snd.lastDataAck) <= place(snd.lastAck)
      /\ place(snd.lastAck) <= place(snd.curr) + 1
      /\ snd.next = place(snd.curr) + 1 - place(snd.lastDataAck) /\ snd.next <= Len(snd.buf)
      /\ place(snd.lastDataAck) + Len(snd.buf) = sent + 1
  BY DEF SenderBuffer
<1> QED BY <1>1, <1>2, <1>3, Bounds

LEMMA ReceiverPlaces ==
  ASSUME BuffersInStep
  PROVE  /\ rcv.lastAck \in SeqNos /\ rcv.lastAckAck \in SeqNos /\ rcv.curr \in SeqNos
         /\ place(rcv.lastAck) \in 1 .. NData + 1 /\ place(rcv.lastAckAck) \in 1 .. NData + 1
         /\ place(rcv.curr) \in 0 .. NData
         /\ Len(rcv.ready) \in Nat /\ rcv.ready \in Seq(1 .. NData)
         /\ place(rcv.lastAckAck) <= place(rcv.lastAck) /\ place(rcv.lastAck) <= place(rcv.curr) + 1
         /\ place(rcv.curr) + 1 - place(rcv.lastAck) + Len(rcv.ready) < RcvBufSize
         /\ place(rcv.curr) <= place(snd.curr) /\ place(snd.curr) <= NData
         /\ place(snd.lastDataAck) <= place(rcv.lastAck) /\ place(snd.lastAck) <= place(rcv.curr) + 1
<1>1. /\ rcv.lastAck \in SeqNos /\ rcv.lastAckAck \in SeqNos /\ rcv.curr \in SeqNos
      /\ rcv.ready \in Seq(1 .. NData) /\ Len(rcv.ready) \in Nat
  BY Bounds DEF BuffersInStep, TypeOK, Receiver
<1>2. /\ place(rcv.lastAck) \in Int /\ place(rcv.lastAckAck) \in Int
      /\ place(rcv.curr) \in Int /\ place(rcv.curr) >= 0
  BY <1>1, PlaceType, Bounds
<1>3. /\ 1 <= place(rcv.lastAckAck) /\ place(rcv.lastAckAck) <= place(rcv.lastAck)
      /\ place(rcv.lastAck) <= place(rcv.curr) + 1
      /\ place(rcv.curr) + 1 - place(rcv.lastAck) + Len(rcv.ready) < RcvBufSize
  BY DEF BuffersInStep, ReceiverBuffer
<1>4. place(snd.curr) \in 0 .. NData
  BY SenderPlaces DEF BuffersInStep
<1>5. /\ place(rcv.curr) <= place(snd.curr) /\ place(snd.lastDataAck) <= place(rcv.lastAck)
      /\ place(snd.lastAck) <= place(rcv.curr) + 1
  BY DEF BuffersInStep, EndsInStep
<1> QED BY <1>1, <1>2, <1>3, <1>4, <1>5, Bounds

\* The places of both ends.
LEMMA EndPlaces ==
  ASSUME BuffersInStep
  PROVE  /\ place(snd.lastDataAck) \in 1 .. NData + 1 /\ place(snd.lastAck) \in 1 .. NData + 1
         /\ place(snd.curr) \in 0 .. NData
         /\ place(rcv.lastAck) \in 1 .. NData + 1 /\ place(rcv.lastAckAck) \in 1 .. NData + 1
         /\ place(rcv.curr) \in 0 .. NData
         /\ place(snd.lastDataAck) <= place(snd.lastAck) /\ place(snd.lastAck) <= place(snd.curr) + 1
         /\ place(rcv.lastAckAck) <= place(rcv.lastAck) /\ place(rcv.lastAck) <= place(rcv.curr) + 1
         /\ place(rcv.curr) <= place(snd.curr) /\ place(snd.lastDataAck) <= place(rcv.lastAck)
         /\ place(snd.lastAck) <= place(rcv.curr) + 1
<1>1. TypeOK /\ SenderBuffer
  BY DEF BuffersInStep
<1> QED BY <1>1, SenderPlaces, ReceiverPlaces

LEMMA SenderNumbers ==
  ASSUME BuffersInStep
  PROVE  /\ snd.lastAck \in SeqNos /\ snd.lastDataAck \in SeqNos /\ snd.curr \in SeqNos
         /\ snd.next \in Nat /\ Len(snd.buf) \in Nat /\ sent \in Nat /\ sent <= NData
         /\ snd.next = place(snd.curr) + 1 - place(snd.lastDataAck) /\ snd.next <= Len(snd.buf)
         /\ place(snd.lastDataAck) + Len(snd.buf) = sent + 1
<1>1. TypeOK /\ SenderBuffer
  BY DEF BuffersInStep
<1> QED BY <1>1, SenderPlaces

\* The first of a set of numbers is the one that the program takes.
LEMMA FirstOf ==
  ASSUME NEW S \in SUBSET SeqNos, S # {}, \A s \in S : place(s) \in 0 .. NData
  PROVE  LET first == CHOOSE s \in S : \A t \in S : seqcmp(s, t) <= 0
         IN first \in S /\ \A t \in S : place(first) <= place(t)
<1> DEFINE first == CHOOSE s \in S : \A t \in S : seqcmp(s, t) <= 0
<1>1. \A s, t \in S : seqcmp(s, t) <= 0 <=> place(s) <= place(t)
  BY PlaceCompare, Bounds
<1>2. \E s \in S : \A t \in S : seqcmp(s, t) <= 0
  BY <1>1, FirstPlace
<1>3. first \in S /\ \A t \in S : seqcmp(first, t) <= 0
  BY <1>2
<1> HIDE DEF first
<1>4. first \in S /\ \A t \in S : place(first) <= place(t)
  BY <1>1, <1>3
<1> QED BY <1>4 DEF first

\* The acknowledgement is the place after all that is heard, or the first loss.
LEMMA AckNoPlace ==
  ASSUME BuffersInStep
  PROVE  /\ AckNo \in SeqNos
         /\ place(rcv.lastAck) <= place(AckNo) /\ place(AckNo) <= place(rcv.curr) + 1
         /\ \A s \in rcv.loss : place(AckNo) <= place(s)
<1>1. CASE rcv.loss = {}
  <2>1. AckNo = incseq(rcv.curr)
    BY <1>1 DEF AckNo
  <2>2. AckNo \in SeqNos /\ place(AckNo) = place(rcv.curr) + 1
    BY <2>1, ReceiverPlaces, PlaceNext, Bounds
  <2> QED BY <1>1, <2>2, ReceiverPlaces
<1>2. CASE rcv.loss # {}
  <2>1. rcv.loss \in SUBSET SeqNos
    BY DEF BuffersInStep, TypeOK, Receiver
  <2>2. \A s \in rcv.loss : place(rcv.lastAck) <= place(s) /\ place(s) <= place(rcv.curr)
    BY <2>1 DEF BuffersInStep, ReceiverBuffer
  <2>3. \A s \in rcv.loss : place(s) \in 0 .. NData
    BY <2>1, <2>2, ReceiverPlaces, PlaceType, Bounds
  <2>4. AckNo \in rcv.loss /\ \A t \in rcv.loss : place(AckNo) <= place(t)
    BY <1>2, <2>1, <2>3, FirstOf DEF AckNo
  <2> QED BY <2>1, <2>2, <2>3, <2>4, ReceiverPlaces
<1> QED BY <1>1, <1>2

LEMMA FirstLostPlace ==
  ASSUME TypeOK, SenderBuffer, snd.loss # {}
  PROVE  /\ FirstLost \in snd.loss /\ FirstLost \in SeqNos
         /\ place(snd.lastDataAck) <= place(FirstLost) /\ place(FirstLost) <= place(snd.curr)
<1>1. snd.loss \in SUBSET SeqNos
  BY DEF TypeOK, Sender
<1>2. \A s \in snd.loss : place(snd.lastDataAck) <= place(s) /\ place(s) <= place(snd.curr)
  BY DEF SenderBuffer
<1>3. \A s \in snd.loss : place(s) \in 0 .. NData
  BY <1>1, <1>2, SenderPlaces, PlaceType, Bounds
<1>4. FirstLost \in snd.loss
  BY <1>1, <1>3, FirstOf DEF FirstLost
<1> QED BY <1>1, <1>2, <1>4

-----------------------------------------------------------------------------
(* Packets. *)

LEMMA PacketFields ==
  ASSUME NEW p \in Packet
  PROVE  /\ p.type = "data" => p.seq \in SeqNos /\ p.data \in 1 .. NData
         /\ p.type \in {"ack", "ack2", "light"} => p.ack \in SeqNos
         /\ p.type = "ack" => p.window \in Int
         /\ p.type = "nak" => p.from \in SeqNos /\ p.to \in SeqNos
BY Bounds DEF Packet

LEMMA PacketKinds ==
  /\ \A s \in SeqNos, k \in 1 .. NData : [type |-> "data", seq |-> s, data |-> k] \in Packet
  /\ \A s \in SeqNos, w \in 2 .. RcvBufSize + FlowWindow : [type |-> "ack", ack |-> s, window |-> w] \in Packet
  /\ \A s \in SeqNos : [type |-> "light", ack |-> s] \in Packet /\ [type |-> "ack2", ack |-> s] \in Packet
  /\ \A s, t \in SeqNos : [type |-> "nak", from |-> s, to |-> t] \in Packet
  /\ \A e \in {"snd", "rcv"} :
       [type |-> "alive", to |-> e] \in Packet /\ [type |-> "shutdown", to |-> e] \in Packet
BY DEF Packet

\* What is true of a packet stays true: the ends only move on.
LEMMA TrueForEver ==
  ASSUME NEW p \in Packet, NEW c \in Int, NEW a \in Int, NEW h \in Int,
         NEW c2 \in Int, NEW a2 \in Int, NEW h2 \in Int,
         c <= c2, a <= a2, h <= h2, PacketTrue(p, c, a, h)
  PROVE  PacketTrue(p, c2, a2, h2)
<1>1. /\ p.type = "data" => place(p.seq) \in Int
      /\ p.type \in {"ack", "ack2", "light"} => place(p.ack) \in Int
      /\ p.type = "nak" => place(p.from) \in Int /\ place(p.to) \in Int
  BY PacketFields, PlaceType, Bounds
<1> QED BY <1>1 DEF PacketTrue

\* The places of both ends do not move back.
MovesOn ==
  /\ place(snd'.curr) \in Int /\ place(snd.curr) <= place(snd'.curr)
  /\ place(rcv'.lastAck) \in Int /\ place(rcv.lastAck) <= place(rcv'.lastAck)
  /\ place(rcv'.curr) \in Int /\ place(rcv.curr) <= place(rcv'.curr)

LEMMA PacketsKept ==
  ASSUME BuffersInStep, MovesOn, net' \subseteq net
  PROVE  PacketsTrue'
<1>1. net \subseteq Packet
  BY DEF BuffersInStep, TypeOK
<1>2. place(snd.curr) \in Int /\ place(rcv.lastAck) \in Int /\ place(rcv.curr) \in Int
  BY ReceiverPlaces, SenderPlaces DEF BuffersInStep
<1>3. \A p \in net : PacketTrue(p, place(snd.curr), place(rcv.lastAck), place(rcv.curr))
  BY DEF BuffersInStep, PacketsTrue
<1>4. \A p \in net : PacketTrue(p, place(snd'.curr), place(rcv'.lastAck), place(rcv'.curr))
  BY <1>1, <1>2, <1>3, TrueForEver DEF MovesOn
<1> QED BY <1>4 DEF PacketsTrue

LEMMA PacketsAdded ==
  ASSUME BuffersInStep, MovesOn, NEW q, net' \subseteq net \cup {q},
         PacketTrue(q, place(snd'.curr), place(rcv'.lastAck), place(rcv'.curr))
  PROVE  PacketsTrue'
<1>1. net \subseteq Packet
  BY DEF BuffersInStep, TypeOK
<1>2. place(snd.curr) \in Int /\ place(rcv.lastAck) \in Int /\ place(rcv.curr) \in Int
  BY ReceiverPlaces, SenderPlaces DEF BuffersInStep
<1>3. \A p \in net : PacketTrue(p, place(snd.curr), place(rcv.lastAck), place(rcv.curr))
  BY DEF BuffersInStep, PacketsTrue
<1>4. \A p \in net : PacketTrue(p, place(snd'.curr), place(rcv'.lastAck), place(rcv'.curr))
  BY <1>1, <1>2, <1>3, TrueForEver DEF MovesOn
<1>5. \A p \in net' : PacketTrue(p, place(snd'.curr), place(rcv'.lastAck), place(rcv'.curr))
  BY <1>4
<1> QED BY <1>5 DEF PacketsTrue

\* How many packets are on their way.
NetSmall == net' \subseteq Packet /\ IsFiniteSet(net') /\ Cardinality(net') <= MaxNet + 1

LEMMA NetFewer ==
  ASSUME TypeOK, net' \subseteq net
  PROVE  NetSmall
<1>1. net \subseteq Packet /\ IsFiniteSet(net) /\ Cardinality(net) <= MaxNet + 1
  BY DEF TypeOK
<1>2. IsFiniteSet(net') /\ Cardinality(net') <= Cardinality(net)
  BY <1>1, FS_Subset
<1>3. Cardinality(net') \in Nat /\ Cardinality(net) \in Nat
  BY <1>1, <1>2, FS_CardinalityType
<1> QED BY <1>1, <1>2, <1>3, Bounds DEF NetSmall

LEMMA NetAdded ==
  ASSUME TypeOK, NEW q \in Packet, Room, net' \subseteq net \cup {q}
  PROVE  NetSmall
<1>1. net \subseteq Packet /\ IsFiniteSet(net) /\ Cardinality(net) < MaxNet /\ Cardinality(net) \in Nat
  BY FS_CardinalityType DEF TypeOK, Room
<1>2. IsFiniteSet(net \cup {q}) /\ Cardinality(net \cup {q}) <= Cardinality(net) + 1
  BY <1>1, FS_AddElement
<1>3. IsFiniteSet(net') /\ Cardinality(net') <= Cardinality(net \cup {q})
  BY <1>2, FS_Subset
<1>4. Cardinality(net') \in Nat /\ Cardinality(net \cup {q}) \in Nat
  BY <1>2, <1>3, FS_CardinalityType
<1> QED BY <1>1, <1>2, <1>3, <1>4, Bounds DEF NetSmall

LEMMA NetAnswered ==
  ASSUME TypeOK, NEW p \in net, NEW q \in Packet, net' \subseteq (net \ {p}) \cup {q}
  PROVE  NetSmall
<1>1. net \subseteq Packet /\ IsFiniteSet(net) /\ Cardinality(net) <= MaxNet + 1 /\ Cardinality(net) \in Nat
  BY FS_CardinalityType DEF TypeOK
<1>2. IsFiniteSet(net \ {p}) /\ Cardinality(net \ {p}) = Cardinality(net) - 1 /\ Cardinality(net \ {p}) \in Nat
  BY <1>1, FS_RemoveElement, FS_CardinalityType
<1> DEFINE rest == net \ {p}
<1> HIDE DEF rest
<1>3. /\ IsFiniteSet(rest) /\ Cardinality(rest) = Cardinality(net) - 1 /\ Cardinality(rest) \in Nat
      /\ net' \subseteq rest \cup {q} /\ rest \subseteq Packet
  BY <1>1, <1>2 DEF rest
<1>4. IsFiniteSet(rest \cup {q}) /\ Cardinality(rest \cup {q}) <= Cardinality(rest) + 1
  <2>1. IsFiniteSet(rest)
    BY <1>3
  <2>2. IsFiniteSet(rest \cup {q}) /\ Cardinality(rest \cup {q}) = IF q \in rest THEN Cardinality(rest) ELSE Cardinality(rest) + 1
    BY ONLY <2>1, FS_AddElement
  <2> QED BY ONLY <1>3, <2>2
<1>5. IsFiniteSet(net') /\ Cardinality(net') <= Cardinality(rest \cup {q})
  BY <1>3, <1>4, FS_Subset
<1>6. Cardinality(net') \in Nat /\ Cardinality(rest \cup {q}) \in Nat
  BY <1>4, <1>5, FS_CardinalityType
<1>7. net' \subseteq Packet
  BY <1>3
<1> QED BY <1>1, <1>3, <1>4, <1>5, <1>6, <1>7, Bounds DEF NetSmall

-----------------------------------------------------------------------------
(* What an action leaves alone stays as it is. *)

SenderSame ==
  /\ snd'.lastAck = snd.lastAck /\ snd'.lastDataAck = snd.lastDataAck /\ snd'.curr = snd.curr
  /\ snd'.buf = snd.buf /\ snd'.next = snd.next /\ snd'.loss \subseteq snd.loss

ReceiverSame ==
  /\ rcv'.lastAck = rcv.lastAck /\ rcv'.lastAckAck = rcv.lastAckAck /\ rcv'.curr = rcv.curr
  /\ rcv'.loss = rcv.loss /\ rcv'.unit = rcv.unit

StreamSame ==
  /\ got' = got /\ rcv'.lastAck = rcv.lastAck /\ rcv'.ready = rcv.ready
  /\ rcv'.st = "closed" <=> rcv.st = "closed"

LEMMA SenderKept ==
  ASSUME SenderBuffer, SenderSame, sent' = sent
  PROVE  SenderBuffer'
BY DEF SenderBuffer, SenderSame

LEMMA ReceiverKept ==
  ASSUME BuffersInStep, ReceiverSame, rcv'.ready \in Seq(1 .. NData), Len(rcv'.ready) <= Len(rcv.ready)
  PROVE  ReceiverBuffer'
<1>1. Len(rcv'.ready) \in Nat
  OBVIOUS
<1>2. place(rcv.curr) + 1 - place(rcv.lastAck) + Len(rcv'.ready) < RcvBufSize
  <2> DEFINE n == Len(rcv.ready)
             m == Len(rcv'.ready)
  <2>1. /\ place(rcv.curr) + 1 - place(rcv.lastAck) + n < RcvBufSize /\ n \in Nat /\ m \in Nat /\ m <= n
        /\ place(rcv.curr) \in Int /\ place(rcv.lastAck) \in Int
    BY <1>1, ReceiverPlaces
  <2> HIDE DEF n, m
  <2>2. place(rcv.curr) + 1 - place(rcv.lastAck) + m < RcvBufSize
    BY ONLY <2>1, Bounds
  <2> QED BY <2>2 DEF m
<1>3. ReceiverBuffer
  BY DEF BuffersInStep
<1> QED BY <1>2, <1>3 DEF ReceiverBuffer, ReceiverSame, Held

LEMMA OrderKept ==
  ASSUME BuffersInStep, StreamSame, sent' \in Nat, sent <= sent'
  PROVE  InOrder'
<1>1. InOrder /\ Len(got) \in Nat /\ sent \in Nat
  BY SenderPlaces DEF BuffersInStep, TypeOK
<1>2. Len(got) <= sent'
  BY <1>1 DEF InOrder
<1> QED BY <1>1, <1>2 DEF InOrder, StreamSame

\* The parts of the invariant make it whole: a sender that has closed has nothing in its
\* buffer, so that the receiver has acknowledged all that was sent.
LEMMA Together ==
  ASSUME TypeOK', SenderBuffer', ReceiverBuffer', EndsInStep', PacketsTrue', InOrder',
         snd'.st # "attack", snd'.st = "closed" => snd'.buf = <<>>
  PROVE  BuffersInStep'
<1>1. ASSUME snd'.st = "closed", rcv'.st # "closed" PROVE Len(got') + Len(rcv'.ready) = sent'
  <2>1. /\ snd'.lastDataAck \in SeqNos /\ snd'.curr \in SeqNos /\ rcv'.lastAck \in SeqNos /\ rcv'.curr \in SeqNos
        /\ sent' \in Nat /\ got' \in Seq(1 .. NData) /\ rcv'.ready \in Seq(1 .. NData) /\ snd'.next \in Nat
    BY DEF TypeOK, Sender, Receiver
  <2>2. /\ place(snd'.lastDataAck) \in Int /\ place(snd'.curr) \in Int
        /\ place(rcv'.lastAck) \in Int /\ place(rcv'.curr) \in Int
        /\ Len(got') \in Nat /\ Len(rcv'.ready) \in Nat
    BY <2>1, PlaceType, Bounds
  <2>3. /\ snd'.next = place(snd'.curr) + 1 - place(snd'.lastDataAck) /\ snd'.next <= Len(snd'.buf)
        /\ place(snd'.lastDataAck) + Len(snd'.buf) = sent' + 1
    BY DEF SenderBuffer
  <2>4. Len(snd'.buf) = 0
    BY <1>1
  <2>5. place(snd'.lastDataAck) <= place(rcv'.lastAck) /\ place(rcv'.curr) <= place(snd'.curr)
    BY DEF EndsInStep
  <2>6. place(rcv'.lastAck) <= place(rcv'.curr) + 1
    BY DEF ReceiverBuffer
  <2>7. Len(got') + Len(rcv'.ready) + 1 = place(rcv'.lastAck)
    BY <1>1 DEF InOrder
  <2>8. snd'.next = 0
    BY <2>1, <2>3, <2>4
  <2>9. place(rcv'.lastAck) = place(snd'.lastDataAck)
    BY <2>2, <2>3, <2>5, <2>6, <2>8
  <2>10. sent' \in Nat
    BY <2>1
  <2>11. place(snd'.lastDataAck) = sent' + 1
    BY <2>2, <2>3, <2>4, <2>10
  <2> QED BY ONLY <2>2, <2>7, <2>9, <2>10, <2>11
<1>2. CloseLosesNothing'
  BY <1>1 DEF CloseLosesNothing
<1> QED BY <1>2 DEF BuffersInStep, NeverTakenForAttack

\* A step that moves no number and no data.
LEMMA StillStep ==
  ASSUME BuffersInStep, SenderSame, ReceiverSame, StreamSame, NetSmall, PacketsTrue',
         snd' \in Sender, rcv' \in Receiver,
         sent' = sent, lost' \in 0 .. MaxLoss, early' \in 0 .. MaxEarly,
         snd'.st # "attack", snd'.st = "closed" => snd.buf = <<>>
  PROVE  BuffersInStep'
<1>1. TypeOK'
  BY DEF TypeOK, BuffersInStep, SenderSame, StreamSame, NetSmall
<1>2. SenderBuffer'
  BY SenderKept DEF BuffersInStep
<1>3. Len(rcv'.ready) = Len(rcv.ready) /\ Len(rcv.ready) \in Nat /\ rcv'.ready \in Seq(1 .. NData)
  BY ReceiverPlaces DEF StreamSame
<1>4. ReceiverBuffer'
  BY <1>3, ReceiverKept
<1>5. EndsInStep'
  BY DEF EndsInStep, BuffersInStep, SenderSame, ReceiverSame
<1>6. InOrder'
  BY OrderKept, SenderPlaces DEF BuffersInStep
<1> QED BY <1>1, <1>2, <1>4, <1>5, <1>6, Together DEF SenderSame

LEMMA StillMovesOn ==
  ASSUME BuffersInStep, SenderSame, ReceiverSame
  PROVE  MovesOn
<1>1. place(snd.curr) \in Int /\ place(rcv.lastAck) \in Int /\ place(rcv.curr) \in Int
  BY ReceiverPlaces, SenderPlaces DEF BuffersInStep
<1> QED BY <1>1 DEF MovesOn, SenderSame, ReceiverSame

-----------------------------------------------------------------------------
(* The invariant holds at first. *)

LEMMA InitInStep == Init => BuffersInStep
<1> SUFFICES ASSUME Init PROVE BuffersInStep
  OBVIOUS
<1>1. /\ snd.lastAck = ISN /\ snd.lastDataAck = ISN /\ snd.curr = decseq(ISN) /\ snd.loss = {}
      /\ snd.buf = <<>> /\ snd.next = 0 /\ snd.st = "up"
      /\ rcv.lastAck = ISN /\ rcv.lastAckAck = ISN /\ rcv.curr = decseq(ISN) /\ rcv.loss = {}
      /\ rcv.unit = NoUnits /\ rcv.ready = <<>> /\ rcv.st = "up"
      /\ net = {} /\ sent = 0 /\ got = <<>> /\ lost = 0 /\ early = 0
  BY DEF Init
<1>2. TypeOK
  <2>1. NoUnits \in [SeqNos -> 0 .. NData] /\ 1 \in 1 .. ExpLimit + 1
    BY Bounds DEF NoUnits
  <2>2. snd \in Sender
    BY <2>1, PlaceStart, Bounds DEF Init, Sender, States
  <2>3. rcv \in Receiver
    BY <2>1, PlaceStart, Bounds DEF Init, Receiver, States
  <2>4. net \subseteq Packet /\ IsFiniteSet(net) /\ Cardinality(net) <= MaxNet + 1
    BY <1>1, FS_EmptySet, Bounds
  <2> QED BY <1>1, <2>2, <2>3, <2>4, Bounds DEF TypeOK
<1>3. SenderBuffer
  BY <1>1, PlaceStart DEF SenderBuffer
<1>4. Held = {}
  BY <1>1 DEF Held, NoUnits
<1>5. ReceiverBuffer
  <2>1. \A s \in SeqNos : ~(1 <= place(s) /\ place(s) <= 0)
    BY PlaceType, Bounds
  <2> QED BY <1>1, <1>4, <2>1, PlaceStart, Bounds DEF ReceiverBuffer
<1>6. EndsInStep
  BY <1>1, PlaceStart DEF EndsInStep
<1>7. InOrder
  BY <1>1, PlaceStart DEF InOrder
<1> QED BY <1>1, <1>2, <1>3, <1>5, <1>6, <1>7
        DEF BuffersInStep, PacketsTrue, NeverTakenForAttack, CloseLosesNothing

LEMMA StillFewer ==
  ASSUME BuffersInStep, SenderSame, ReceiverSame, StreamSame, net' \subseteq net,
         snd' \in Sender, rcv' \in Receiver,
         sent' = sent, lost' \in 0 .. MaxLoss, early' \in 0 .. MaxEarly,
         snd'.st # "attack", snd'.st = "closed" => snd.buf = <<>>
  PROVE  BuffersInStep'
<1>1. NetSmall /\ PacketsTrue'
  BY NetFewer, PacketsKept, StillMovesOn DEF BuffersInStep
<1> QED BY <1>1, StillStep

LEMMA StillAdded ==
  ASSUME BuffersInStep, SenderSame, ReceiverSame, StreamSame,
         Room, NEW q \in Packet, net' \subseteq net \cup {q},
         PacketTrue(q, place(snd.curr), place(rcv.lastAck), place(rcv.curr)),
         snd' \in Sender, rcv' \in Receiver,
         sent' = sent, lost' \in 0 .. MaxLoss, early' \in 0 .. MaxEarly,
         snd'.st # "attack", snd'.st = "closed" => snd.buf = <<>>
  PROVE  BuffersInStep'
<1>1. PacketTrue(q, place(snd'.curr), place(rcv'.lastAck), place(rcv'.curr))
  BY DEF SenderSame, ReceiverSame
<1>2. NetSmall /\ PacketsTrue'
  BY <1>1, NetAdded, PacketsAdded, StillMovesOn DEF BuffersInStep
<1> QED BY <1>2, StillStep

\* What the invariant says of the ends as a whole.
LEMMA EndsTyped ==
  ASSUME BuffersInStep
  PROVE  /\ TypeOK /\ SenderBuffer /\ ReceiverBuffer /\ InOrder /\ PacketsTrue
         /\ snd \in Sender /\ rcv \in Receiver /\ net \subseteq Packet
         /\ lost \in 0 .. MaxLoss /\ early \in 0 .. MaxEarly
         /\ snd.st # "attack" /\ (snd.st = "closed" => snd.buf = <<>>)
BY DEF BuffersInStep, TypeOK, NeverTakenForAttack, CloseLosesNothing

-----------------------------------------------------------------------------
(* Steps that move no number and no data. *)

LEMMA StartCloseStep ==
  ASSUME BuffersInStep, StartClose
  PROVE  BuffersInStep'
<1>1. snd' \in Sender /\ SenderSame /\ snd'.st = "linger"
  BY EndsTyped DEF StartClose, Sender, States, SenderSame
<1>2. rcv' = rcv /\ net' = net /\ sent' = sent /\ got' = got /\ lost' = lost /\ early' = early
  BY DEF StartClose
<1>3. ReceiverSame /\ StreamSame
  BY <1>2 DEF ReceiverSame, StreamSame
<1> QED BY <1>1, <1>2, <1>3, EndsTyped, StillFewer

LEMMA CloseStep ==
  ASSUME BuffersInStep, Close
  PROVE  BuffersInStep'
<1> DEFINE q == [type |-> "shutdown", to |-> "rcv"]
<1>1. snd' \in Sender /\ SenderSame /\ snd'.st \in {"closed", "cut"} /\ (snd'.st = "closed" => snd.buf = <<>>)
  BY EndsTyped DEF Close, Lingered, Sender, States, SenderSame
<1>2. rcv' = rcv /\ net' = net \cup {q} /\ Room /\ sent' = sent /\ got' = got /\ lost' = lost /\ early' = early
  BY DEF Close
<1>3. ReceiverSame /\ StreamSame
  BY <1>2 DEF ReceiverSame, StreamSame
<1>4. q \in Packet /\ PacketTrue(q, place(snd.curr), place(rcv.lastAck), place(rcv.curr))
  BY PacketKinds DEF PacketTrue
<1> QED BY <1>1, <1>2, <1>3, <1>4, EndsTyped, StillAdded

LEMMA IdleStep ==
  ASSUME BuffersInStep, Idle
  PROVE  BuffersInStep'
<1>1. snd' \in Sender /\ SenderSame /\ snd'.st = snd.st
  BY EndsTyped DEF Idle, Sender, SenderSame
<1>2. rcv' = rcv /\ net' = net /\ sent' = sent /\ got' = got /\ lost' = lost /\ early' = early
  BY DEF Idle
<1>3. ReceiverSame /\ StreamSame
  BY <1>2 DEF ReceiverSame, StreamSame
<1> QED BY <1>1, <1>2, <1>3, EndsTyped, StillFewer

LEMMA LightAckStep ==
  ASSUME BuffersInStep, LightAck
  PROVE  BuffersInStep'
<1> DEFINE q == [type |-> "light", ack |-> AckNo]
<1>1. rcv' \in Receiver /\ ReceiverSame /\ rcv'.ready = rcv.ready /\ rcv'.st = rcv.st
  BY EndsTyped DEF LightAck, Receiver, ReceiverSame
<1>2. snd' = snd /\ net' = net \cup {q} /\ Room /\ sent' = sent /\ got' = got /\ lost' = lost /\ early' = early
  BY DEF LightAck
<1>3. SenderSame /\ StreamSame
  BY <1>1, <1>2 DEF SenderSame, StreamSame, ReceiverSame
<1>4. AckNo \in SeqNos /\ 1 <= place(AckNo) /\ place(AckNo) <= place(rcv.curr) + 1
  BY AckNoPlace, ReceiverPlaces, PlaceType, Bounds
<1>5. q \in Packet /\ PacketTrue(q, place(snd.curr), place(rcv.lastAck), place(rcv.curr))
  BY <1>4, PacketKinds DEF PacketTrue
<1> QED BY <1>1, <1>2, <1>3, <1>5, EndsTyped, StillAdded

LEMMA NakTimerStep ==
  ASSUME BuffersInStep, NakTimer
  PROVE  BuffersInStep'
<1>1. PICK s \in rcv.loss, t \in rcv.loss :
        seqcmp(s, t) <= 0 /\ net' = net \cup {[type |-> "nak", from |-> s, to |-> t]}
  BY DEF NakTimer
<1> DEFINE q == [type |-> "nak", from |-> s, to |-> t]
<1>2. snd' = snd /\ rcv' = rcv /\ Room /\ sent' = sent /\ got' = got /\ lost' = lost /\ early' = early
  BY DEF NakTimer
<1>3. SenderSame /\ ReceiverSame /\ StreamSame
  BY <1>2 DEF SenderSame, ReceiverSame, StreamSame
<1>4. /\ s \in SeqNos /\ t \in SeqNos
      /\ place(rcv.lastAck) <= place(s) /\ place(s) <= place(rcv.curr)
      /\ place(rcv.lastAck) <= place(t) /\ place(t) <= place(rcv.curr)
  BY EndsTyped DEF Receiver, ReceiverBuffer
<1>5. 1 <= place(s) /\ place(s) <= place(t)
  <2>1. place(s) \in 1 .. NData /\ place(t) \in 1 .. NData
    <3>1. place(s) \in Int /\ place(t) \in Int
      BY <1>4, PlaceType, Bounds
    <3>2. place(rcv.lastAck) \in 1 .. NData + 1 /\ place(rcv.curr) \in 0 .. NData
      BY EndPlaces
    <3> QED BY ONLY <1>4, <3>1, <3>2, Bounds
  <2>2. place(s) - place(t) < SeqNoTH /\ place(t) - place(s) < SeqNoTH
    BY <2>1, Bounds
  <2> QED BY <1>1, <1>4, <2>1, <2>2, PlaceCompare
<1>6. q \in Packet /\ PacketTrue(q, place(snd.curr), place(rcv.lastAck), place(rcv.curr))
  BY <1>4, <1>5, PacketKinds DEF PacketTrue
<1> QED BY <1>1, <1>2, <1>3, <1>6, EndsTyped, StillAdded

LEMMA ProcessAliveStep ==
  ASSUME BuffersInStep, NEW p, ProcessAlive(p)
  PROVE  BuffersInStep'
<1>0. /\ snd' = snd \/ snd' = [snd EXCEPT !.exp = 1]
      /\ rcv' = rcv \/ rcv' = [rcv EXCEPT !.exp = 1]
      /\ 1 \in 1 .. ExpLimit + 1
  BY Bounds DEF ProcessAlive, HeardAlive
<1>1. snd' \in Sender /\ SenderSame /\ snd'.st = snd.st
  BY <1>0, EndsTyped DEF Sender, SenderSame
<1>2. rcv' \in Receiver /\ ReceiverSame /\ rcv'.ready = rcv.ready /\ rcv'.st = rcv.st
  BY <1>0, EndsTyped DEF Receiver, ReceiverSame
<1>3. net' \subseteq net /\ sent' = sent /\ got' = got /\ lost' = lost /\ early' = early
  BY DEF ProcessAlive
<1>4. StreamSame
  BY <1>2, <1>3 DEF StreamSame, ReceiverSame
<1> QED BY <1>1, <1>2, <1>3, <1>4, EndsTyped, StillFewer

LEMMA ProcessShutdownStep ==
  ASSUME BuffersInStep, NEW p, ProcessShutdown(p)
  PROVE  BuffersInStep'
<1>1. snd' \in Sender /\ SenderSame /\ snd'.st \in {snd.st, "broken"}
  BY EndsTyped DEF ProcessShutdown, Sender, SenderSame, States
<1>2. /\ rcv' \in Receiver /\ ReceiverSame /\ rcv'.ready = rcv.ready
      /\ rcv'.st = "closed" <=> rcv.st = "closed"
  BY EndsTyped DEF ProcessShutdown, Listens, Receiver, ReceiverSame, States
<1>3. net' \subseteq net /\ sent' = sent /\ got' = got /\ lost' = lost /\ early' = early
  BY DEF ProcessShutdown
<1>4. StreamSame
  BY <1>2, <1>3 DEF StreamSame, ReceiverSame
<1> QED BY <1>1, <1>2, <1>3, <1>4, EndsTyped, StillFewer

LEMMA DiscardStep ==
  ASSUME BuffersInStep, NEW p, Discard(p)
  PROVE  BuffersInStep'
<1>1. /\ snd' = snd /\ rcv' = rcv /\ net' \subseteq net
      /\ sent' = sent /\ got' = got /\ lost' = lost /\ early' = early
  BY DEF Discard
<1>2. SenderSame /\ ReceiverSame /\ StreamSame
  BY <1>1 DEF SenderSame, ReceiverSame, StreamSame
<1> QED BY <1>1, <1>2, EndsTyped, StillFewer

LEMMA LoseStep ==
  ASSUME BuffersInStep, NEW p, Lose(p)
  PROVE  BuffersInStep'
<1>1. snd' = snd /\ rcv' = rcv /\ net' \subseteq net /\ sent' = sent /\ got' = got /\ early' = early
  BY DEF Lose
<1>2. lost' \in 0 .. MaxLoss
  BY EndsTyped, Bounds DEF Lose
<1>3. SenderSame /\ ReceiverSame /\ StreamSame
  BY <1>1 DEF SenderSame, ReceiverSame, StreamSame
<1> QED BY <1>1, <1>2, <1>3, EndsTyped, StillFewer

LEMMA EarlyTyped ==
  ASSUME BuffersInStep, Expires(snd, rcv) \/ Expires(rcv, snd)
  PROVE  early' \in 0 .. MaxEarly
BY EndsTyped, Bounds DEF Expires

LEMMA RcvExpStep ==
  ASSUME BuffersInStep, RcvExp
  PROVE  BuffersInStep'
<1> DEFINE q == [type |-> "alive", to |-> "snd"]
<1>1. /\ rcv' \in Receiver /\ ReceiverSame /\ rcv'.ready = rcv.ready
      /\ rcv'.st = "closed" <=> rcv.st = "closed"
  <2>1. CASE rcv' = [rcv EXCEPT !.st = "broken"]
    BY <2>1, EndsTyped DEF RcvExp, Listens, Receiver, ReceiverSame, States
  <2>2. CASE rcv' = [rcv EXCEPT !.exp = IF @ > ExpLimit THEN @ ELSE @ + 1]
    <3>1. \A e \in 1 .. ExpLimit + 1 : (IF e > ExpLimit THEN e ELSE e + 1) \in 1 .. ExpLimit + 1
      BY Bounds
    <3>2. rcv.exp \in 1 .. ExpLimit + 1
      BY EndsTyped DEF Receiver
    <3> QED BY <2>2, <3>1, <3>2, EndsTyped DEF Receiver, ReceiverSame
  <2> QED BY <2>1, <2>2 DEF RcvExp
<1>2. snd' = snd /\ net' \subseteq net \cup {q} /\ Room /\ sent' = sent /\ got' = got /\ lost' = lost
  BY DEF RcvExp
<1>3. early' \in 0 .. MaxEarly
  BY EarlyTyped DEF RcvExp
<1>4. SenderSame /\ StreamSame
  BY <1>1, <1>2 DEF SenderSame, StreamSame, ReceiverSame
<1>5. q \in Packet /\ PacketTrue(q, place(snd.curr), place(rcv.lastAck), place(rcv.curr))
  BY PacketKinds DEF PacketTrue
<1> QED BY <1>1, <1>2, <1>3, <1>4, <1>5, EndsTyped, StillAdded

-----------------------------------------------------------------------------
(* Steps of the sender. *)

LEMMA SenderStep ==
  ASSUME BuffersInStep, rcv' = rcv, got' = got, sent' \in 0 .. NData, sent <= sent',
         snd' \in Sender, Len(snd'.buf) <= SndBufSize, SenderBuffer',
         place(snd.curr) <= place(snd'.curr), place(snd'.lastDataAck) <= place(rcv.lastAck),
         place(snd'.lastAck) <= place(rcv.curr) + 1,
         NetSmall, PacketsTrue', lost' \in 0 .. MaxLoss, early' \in 0 .. MaxEarly,
         snd'.st # "attack", snd'.st = "closed" => snd'.buf = <<>>
  PROVE  BuffersInStep'
<1>1. TypeOK'
  BY DEF TypeOK, BuffersInStep, NetSmall
<1>2. rcv'.ready = rcv.ready /\ rcv.ready \in Seq(1 .. NData) /\ Len(rcv.ready) \in Nat
  BY ReceiverPlaces
<1>3. ReceiverBuffer'
  BY <1>2, ReceiverKept DEF ReceiverSame
<1>4. InOrder'
  BY OrderKept, Bounds DEF StreamSame
<1>5. EndsInStep'
  <2>1. place(snd'.curr) \in Int
    BY PlaceType, Bounds DEF Sender
  <2> QED BY <2>1, EndPlaces DEF EndsInStep
<1> QED BY <1>1, <1>3, <1>4, <1>5, Together

LEMMA SendStep ==
  ASSUME BuffersInStep, Send
  PROVE  BuffersInStep'
<1>0. sent \in 0 .. NData /\ sent < NData /\ Len(snd.buf) < SndBufSize
  BY EndsTyped DEF Send, TypeOK
<1>1. /\ snd.buf \in Seq(1 .. NData) /\ sent + 1 \in 1 .. NData /\ Len(snd.buf) < SndBufSize
      /\ Len(snd.buf) \in Nat
  BY <1>0, EndsTyped, Bounds DEF Sender
<1> DEFINE b == Append(snd.buf, sent + 1)
<1>2. b \in Seq(1 .. NData) /\ Len(b) = Len(snd.buf) + 1
  BY <1>1
<1>3. /\ \A i \in 1 .. Len(snd.buf) : b[i] = snd.buf[i]
      /\ b[Len(snd.buf) + 1] = sent + 1
  BY <1>1
<1> HIDE DEF b
<1>4. /\ snd' \in Sender /\ snd'.buf = b /\ snd'.st = "up"
      /\ snd'.lastAck = snd.lastAck /\ snd'.lastDataAck = snd.lastDataAck /\ snd'.curr = snd.curr
      /\ snd'.next = snd.next /\ snd'.loss = snd.loss
  <2>1. snd' = [snd EXCEPT !.buf = b, !.sched = TRUE] /\ snd.st = "up"
    BY DEF Send, b
  <2> QED BY <1>2, <2>1, EndsTyped DEF Sender
<1>5. rcv' = rcv /\ net' = net /\ sent' = sent + 1 /\ got' = got /\ lost' = lost /\ early' = early
  BY DEF Send
<1>6. SenderBuffer'
  <2>1. place(snd.lastDataAck) \in Int /\ place(snd.lastDataAck) + Len(snd.buf) = sent + 1 /\ snd.next \in Nat
        /\ sent \in Nat /\ snd.next <= Len(snd.buf)
    BY SenderPlaces, EndsTyped
  <2>2. \A i \in 1 .. Len(snd.buf) : b[i] = place(snd.lastDataAck) + i - 1
    BY <1>3, EndsTyped DEF SenderBuffer
  <2>3. b[Len(snd.buf) + 1] = place(snd.lastDataAck) + (Len(snd.buf) + 1) - 1
    BY <1>1, <1>3, <2>1
  <2>4. \A i \in 1 .. Len(b) : b[i] = place(snd.lastDataAck) + i - 1
    <3> TAKE i \in 1 .. Len(b)
    <3>1. i \in 1 .. Len(snd.buf) \/ i = Len(snd.buf) + 1
      BY <1>1, <1>2
    <3> QED BY <2>2, <2>3, <3>1
  <2>5. snd.next <= Len(b) /\ place(snd.lastDataAck) + Len(b) = sent' + 1
    BY <1>1, <1>2, <1>5, <2>1
  <2> QED BY <1>4, <2>4, <2>5, EndsTyped DEF SenderBuffer
<1>7. MovesOn
  BY <1>4, <1>5, EndPlaces DEF MovesOn
<1>8. NetSmall /\ PacketsTrue'
  BY <1>5, <1>7, NetFewer, PacketsKept, EndsTyped
<1>9. sent' \in 0 .. NData /\ sent <= sent' /\ Len(b) <= SndBufSize
  BY <1>0, <1>1, <1>2, <1>5, Bounds
<1>10. /\ place(snd.curr) <= place(snd'.curr) /\ place(snd'.lastDataAck) <= place(rcv.lastAck)
       /\ place(snd'.lastAck) <= place(rcv.curr) + 1
  BY <1>4, <1>7, ReceiverPlaces DEF MovesOn
<1> QED BY <1>4, <1>5, <1>6, <1>8, <1>9, <1>10, SenderStep, EndsTyped

LEMMA ResendStep ==
  ASSUME BuffersInStep, Resend
  PROVE  BuffersInStep'
<1> DEFINE offset == seqoff(BufferStart, FirstLost)
           q == [type |-> "data", seq |-> FirstLost, data |-> snd.buf[offset + 1]]
<1>1. snd.loss # {} /\ Room
  BY DEF Resend
<1>2. /\ FirstLost \in SeqNos /\ place(FirstLost) \in 1 .. NData
      /\ place(snd.lastDataAck) <= place(FirstLost) /\ place(FirstLost) <= place(snd.curr)
  <2>1. /\ FirstLost \in SeqNos
        /\ place(snd.lastDataAck) <= place(FirstLost) /\ place(FirstLost) <= place(snd.curr)
    BY <1>1, FirstLostPlace, EndsTyped
  <2>2. place(FirstLost) \in Int
    BY <2>1, PlaceType, Bounds
  <2>3. place(snd.lastDataAck) \in 1 .. NData + 1 /\ place(snd.curr) \in 0 .. NData
    BY EndPlaces
  <2>4. place(FirstLost) \in 1 .. NData
    BY ONLY <2>1, <2>2, <2>3, Bounds
  <2> QED BY <2>1, <2>4
<1>3. offset = place(FirstLost) - place(snd.lastDataAck)
  <2>1. /\ place(snd.lastDataAck) - place(FirstLost) < SeqNoTH /\ snd.lastDataAck \in SeqNos
        /\ place(FirstLost) - place(snd.lastDataAck) < SeqNoTH
    <3>1. place(snd.lastDataAck) \in 1 .. NData + 1 /\ snd.lastDataAck \in SeqNos
      BY SenderNumbers, EndPlaces
    <3> QED BY ONLY <1>2, <3>1, Bounds
  <2> QED BY <1>2, <2>1, PlaceCompare DEF BufferStart
<1> HIDE DEF offset
<1>4. offset >= 0 /\ offset + 1 \in 1 .. Len(snd.buf)
  <2> DEFINE n == Len(snd.buf)
  <2>1. /\ snd.next = place(snd.curr) + 1 - place(snd.lastDataAck) /\ snd.next <= n /\ n \in Nat
        /\ place(snd.curr) \in Int /\ place(snd.lastDataAck) \in Int
    BY SenderNumbers, EndPlaces
  <2> HIDE DEF n
  <2>2. offset >= 0 /\ offset + 1 \in 1 .. n
    BY <1>2, <1>3, <2>1
  <2> QED BY <2>2 DEF n
<1>5. snd.buf[offset + 1] = place(FirstLost)
  <2>1. snd.buf[offset + 1] = place(snd.lastDataAck) + (offset + 1) - 1
    BY <1>4, EndsTyped DEF SenderBuffer
  <2>2. place(snd.lastDataAck) \in Int
    BY EndPlaces
  <2> QED BY <1>2, <1>3, <2>1, <2>2
<1>6. q \in Packet /\ PacketTrue(q, place(snd.curr), place(rcv.lastAck), place(rcv.curr))
  BY <1>2, <1>5, PacketKinds DEF PacketTrue
<1>7. /\ snd' = [snd EXCEPT !.loss = @ \ {FirstLost}, !.sched = offset >= 0]
      /\ net' \subseteq net \cup {q}
      /\ rcv' = rcv /\ sent' = sent /\ got' = got /\ lost' = lost /\ early' = early
  BY DEF Resend, offset
<1>8. snd' \in Sender /\ SenderSame /\ snd'.st = snd.st
  <2>1. (offset >= 0) \in BOOLEAN /\ snd.loss \ {FirstLost} \subseteq snd.loss
    OBVIOUS
  <2> QED BY <1>7, <2>1, EndsTyped DEF Sender, SenderSame
<1>9. ReceiverSame /\ StreamSame
  BY <1>7 DEF ReceiverSame, StreamSame
<1> HIDE DEF q
<1> QED BY <1>1, <1>6, <1>7, <1>8, <1>9, EndsTyped, StillAdded

LEMMA SendNewStep ==
  ASSUME BuffersInStep, SendNew
  PROVE  BuffersInStep'
<1> DEFINE c == incseq(snd.curr)
           q == [type |-> "data", seq |-> c, data |-> snd.buf[snd.next + 1]]
<1>1. Room /\ snd.next < Len(snd.buf) /\ snd.loss = {}
  BY DEF SendNew
<1>2. /\ c \in SeqNos /\ place(c) = place(snd.curr) + 1 /\ place(c) \in 1 .. NData
      /\ place(c) = place(snd.lastDataAck) + snd.next
  <2>0. /\ place(snd.curr) \in 0 .. NData /\ place(snd.lastDataAck) \in Int /\ snd.curr \in SeqNos
        /\ snd.next = place(snd.curr) + 1 - place(snd.lastDataAck)
    BY SenderNumbers, EndPlaces
  <2>1. place(snd.curr) < NData
    <3> DEFINE n == Len(snd.buf)
    <3>1. /\ snd.next = place(snd.curr) + 1 - place(snd.lastDataAck) /\ snd.next < n /\ n \in Nat
          /\ place(snd.curr) \in Int /\ place(snd.lastDataAck) \in Int
          /\ place(snd.lastDataAck) + n = sent + 1 /\ sent \in Nat /\ sent <= NData
      BY <1>1, SenderNumbers, EndPlaces
    <3> HIDE DEF n
    <3> QED BY <3>1, Bounds
  <2>2. c \in SeqNos /\ place(c) = place(snd.curr) + 1
    <3>1. snd.curr \in SeqNos /\ place(snd.curr) < MaxSeqNo
      BY <2>0, <2>1, Bounds
    <3> QED BY ONLY <3>1, PlaceNext DEF c
  <2> HIDE DEF c
  <2>3. place(c) \in 1 .. NData
    BY ONLY <2>0, <2>1, <2>2, Bounds
  <2>4. place(c) = place(snd.lastDataAck) + snd.next
    BY ONLY <2>0, <2>2
  <2> QED BY <2>2, <2>3, <2>4
<1>3. snd.buf[snd.next + 1] = place(c)
  <2>1. snd.next + 1 \in 1 .. Len(snd.buf)
    <3> DEFINE n == Len(snd.buf)
    <3>1. snd.next \in Nat /\ n \in Nat /\ snd.next < n
      BY <1>1, SenderNumbers
    <3> HIDE DEF n
    <3>2. snd.next + 1 \in 1 .. n
      BY <3>1
    <3> QED BY <3>2 DEF n
  <2>2. snd.buf[snd.next + 1] = place(snd.lastDataAck) + (snd.next + 1) - 1
    BY <2>1, EndsTyped DEF SenderBuffer
  <2> QED BY <1>2, <2>2, SenderNumbers, EndPlaces
<1>4. /\ snd' = [snd EXCEPT !.curr = c, !.next = @ + 1]
      /\ net' = net \cup {q}
      /\ rcv' = rcv /\ sent' = sent /\ got' = got /\ lost' = lost /\ early' = early
  BY DEF SendNew
<1> HIDE DEF c
<1>5. /\ snd' \in Sender /\ snd'.curr = c /\ snd'.next = snd.next + 1
      /\ snd'.lastAck = snd.lastAck /\ snd'.lastDataAck = snd.lastDataAck
      /\ snd'.buf = snd.buf /\ snd'.loss = snd.loss /\ snd'.st = snd.st
  <2>1. snd.next \in Nat /\ snd \in Sender
    BY SenderPlaces, EndsTyped
  <2>2. snd.next + 1 \in Nat
    BY <2>1
  <2> QED BY <1>2, <1>4, <2>1, <2>2 DEF Sender
<1>6. SenderBuffer'
  <2>1. /\ 1 <= place(snd.lastDataAck) /\ place(snd.lastDataAck) <= place(snd.lastAck)
        /\ place(snd.lastAck) <= place(c) + 1
        /\ snd.next + 1 = place(c) + 1 - place(snd.lastDataAck) /\ snd.next + 1 <= Len(snd.buf)
        /\ place(snd.lastDataAck) + Len(snd.buf) = sent + 1
    <3> DEFINE n == Len(snd.buf)
    <3>1. /\ snd.next = place(snd.curr) + 1 - place(snd.lastDataAck) /\ snd.next < n
          /\ snd.next \in Nat /\ n \in Nat /\ place(snd.lastDataAck) + n = sent + 1
      BY <1>1, SenderNumbers
    <3> HIDE DEF n
    <3>2. snd.next + 1 <= n
      BY <3>1
    <3>3. snd.next + 1 = place(c) + 1 - place(snd.lastDataAck)
      BY <1>2, <3>1, EndPlaces
    <3>4. /\ 1 <= place(snd.lastDataAck) /\ place(snd.lastDataAck) <= place(snd.lastAck)
          /\ place(snd.lastAck) <= place(c) + 1
      BY <1>2, EndPlaces
    <3> QED BY <3>1, <3>2, <3>3, <3>4 DEF n
  <2>2. \A i \in 1 .. Len(snd.buf) : snd.buf[i] = place(snd.lastDataAck) + i - 1
    BY EndsTyped DEF SenderBuffer
  <2> QED BY <1>1, <1>4, <1>5, <2>1, <2>2 DEF SenderBuffer
<1>7. MovesOn
  BY <1>2, <1>4, <1>5, EndPlaces DEF MovesOn
<1>8. q \in Packet /\ PacketTrue(q, place(snd'.curr), place(rcv'.lastAck), place(rcv'.curr))
  BY <1>2, <1>3, <1>5, PacketKinds DEF PacketTrue
<1> HIDE DEF q
<1>9. NetSmall /\ PacketsTrue'
  BY <1>1, <1>4, <1>7, <1>8, NetAdded, PacketsAdded, EndsTyped
<1>10. /\ sent' \in 0 .. NData /\ sent <= sent' /\ Len(snd'.buf) <= SndBufSize
  BY <1>4, <1>5, EndsTyped, SenderPlaces DEF TypeOK
<1>11. /\ place(snd.curr) <= place(snd'.curr) /\ place(snd'.lastDataAck) <= place(rcv.lastAck)
       /\ place(snd'.lastAck) <= place(rcv.curr) + 1
  BY <1>5, <1>7, ReceiverPlaces DEF MovesOn
<1> QED BY <1>4, <1>5, <1>6, <1>9, <1>10, <1>11, SenderStep, EndsTyped

\* A packet on its way says what is true.
LEMMA OnItsWay ==
  ASSUME BuffersInStep, NEW p \in net
  PROVE  p \in Packet /\ PacketTrue(p, place(snd.curr), place(rcv.lastAck), place(rcv.curr))
BY DEF BuffersInStep, TypeOK, PacketsTrue

LEMMA ProcessLightStep ==
  ASSUME BuffersInStep, NEW p, ProcessLight(p)
  PROVE  BuffersInStep'
<1>1. p \in net /\ p.type = "light"
  BY DEF ProcessLight
<1>2. p.ack \in SeqNos /\ 1 <= place(p.ack) /\ place(p.ack) <= place(rcv.curr) + 1 /\ place(p.ack) \in Int
  BY <1>1, OnItsWay, PacketFields, PlaceType, Bounds DEF PacketTrue
<1>3. /\ seqcmp(p.ack, snd.lastAck) >= 0 <=> place(p.ack) >= place(snd.lastAck)
      /\ seqoff(snd.lastAck, p.ack) = place(p.ack) - place(snd.lastAck)
  <2>1. place(p.ack) - place(snd.lastAck) < SeqNoTH /\ place(snd.lastAck) - place(p.ack) < SeqNoTH
    BY <1>2, EndPlaces, Bounds
  <2>2. snd.lastAck \in SeqNos
    BY EndsTyped DEF Sender
  <2> QED BY <1>2, <2>1, <2>2, PlaceCompare
<1>4. rcv' = rcv /\ net' \subseteq net /\ sent' = sent /\ got' = got /\ lost' = lost /\ early' = early
  BY DEF ProcessLight
<1>5. 1 \in 1 .. ExpLimit + 1
  BY Bounds
<1>6. CASE seqcmp(p.ack, snd.lastAck) >= 0
  <2>1. snd' = [snd EXCEPT !.exp = 1, !.window = @ - seqoff(snd.lastAck, p.ack), !.lastAck = p.ack]
    BY <1>6 DEF ProcessLight
  <2> DEFINE w == snd.window - seqoff(snd.lastAck, p.ack)
  <2>2. w \in Int
    BY <1>2, <1>3, EndPlaces, EndsTyped DEF Sender
  <2> HIDE DEF w
  <2>3. snd' = [snd EXCEPT !.exp = 1, !.window = w, !.lastAck = p.ack]
    BY <2>1 DEF w
  <2>4. /\ snd' \in Sender /\ snd'.lastAck = p.ack /\ snd'.lastDataAck = snd.lastDataAck
        /\ snd'.curr = snd.curr /\ snd'.buf = snd.buf /\ snd'.next = snd.next
        /\ snd'.loss = snd.loss /\ snd'.st = snd.st
    BY <1>2, <1>5, <2>2, <2>3, EndsTyped DEF Sender
  <2>5. SenderBuffer'
    <3>1. place(snd.lastDataAck) <= place(p.ack) /\ place(p.ack) <= place(snd.curr) + 1
      BY <1>2, <1>3, <1>6, EndPlaces
    <3> QED BY <1>4, <2>4, <3>1, EndsTyped DEF SenderBuffer
  <2>6. MovesOn
    BY <1>4, <2>4, EndPlaces DEF MovesOn
  <2>7. NetSmall /\ PacketsTrue'
    BY <1>4, <2>6, NetFewer, PacketsKept, EndsTyped
  <2>8. /\ sent' \in 0 .. NData /\ sent <= sent' /\ Len(snd'.buf) <= SndBufSize
    BY <1>4, <2>4, EndsTyped DEF TypeOK
  <2>9. /\ place(snd.curr) <= place(snd'.curr) /\ place(snd'.lastDataAck) <= place(rcv.lastAck)
        /\ place(snd'.lastAck) <= place(rcv.curr) + 1
    BY <1>2, <2>4, EndPlaces
  <2> QED BY <1>4, <2>4, <2>5, <2>7, <2>8, <2>9, SenderStep, EndsTyped
<1>7. CASE ~(seqcmp(p.ack, snd.lastAck) >= 0)
  <2>1. snd' = [snd EXCEPT !.exp = 1]
    BY <1>7 DEF ProcessLight
  <2>2. snd' \in Sender /\ SenderSame /\ snd'.st = snd.st
    BY <1>5, <2>1, EndsTyped DEF Sender, SenderSame
  <2>3. ReceiverSame /\ StreamSame
    BY <1>4 DEF ReceiverSame, StreamSame
  <2> QED BY <1>4, <2>2, <2>3, EndsTyped, StillFewer
<1> QED BY <1>6, <1>7

\* The numbers that may be added to the losses of the sender.
LossesStep(added) ==
  /\ rcv' = rcv /\ sent' = sent /\ got' = got /\ lost' = lost /\ snd' \in Sender
  /\ snd'.lastAck = snd.lastAck /\ snd'.lastDataAck = snd.lastDataAck /\ snd'.curr = snd.curr
  /\ snd'.buf = snd.buf /\ snd'.next = snd.next /\ snd'.st = snd.st
  /\ snd'.loss = snd.loss \cup added

LEMMA LossesAdded ==
  ASSUME BuffersInStep, NEW added \in SUBSET SeqNos, LossesStep(added),
         \A s \in added : place(snd.lastDataAck) <= place(s) /\ place(s) <= place(snd.curr),
         net' \subseteq net, early' \in 0 .. MaxEarly
  PROVE  BuffersInStep'
<1>1. SenderBuffer'
  BY EndsTyped DEF SenderBuffer, LossesStep
<1>2. MovesOn
  BY EndPlaces DEF MovesOn, LossesStep
<1>3. NetSmall /\ PacketsTrue'
  BY <1>2, NetFewer, PacketsKept, EndsTyped
<1>4. sent' \in 0 .. NData /\ sent <= sent' /\ Len(snd'.buf) <= SndBufSize
  BY EndsTyped DEF TypeOK, LossesStep
<1>5. /\ place(snd.curr) <= place(snd'.curr) /\ place(snd'.lastDataAck) <= place(rcv.lastAck)
      /\ place(snd'.lastAck) <= place(rcv.curr) + 1
  BY EndPlaces DEF LossesStep
<1> QED BY <1>1, <1>3, <1>4, <1>5, SenderStep, EndsTyped DEF LossesStep

\* A report of losses is about packets that were sent, and is never taken for an attack.
LEMMA ProcessNakStep ==
  ASSUME BuffersInStep, NEW p, ProcessNak(p)
  PROVE  BuffersInStep'
<1>1. p \in net /\ p.type = "nak"
  BY DEF ProcessNak
<1>2. /\ p.from \in SeqNos /\ p.to \in SeqNos /\ place(p.from) \in Int /\ place(p.to) \in Int
      /\ 1 <= place(p.from) /\ place(p.from) <= place(p.to) /\ place(p.to) <= place(rcv.curr)
      /\ snd.curr \in SeqNos /\ snd.lastAck \in SeqNos
  <2>1. p \in Packet /\ PacketTrue(p, place(snd.curr), place(rcv.lastAck), place(rcv.curr))
    BY <1>1, OnItsWay
  <2>2. p.from \in SeqNos /\ p.to \in SeqNos
    BY <1>1, <2>1, PacketFields
  <2>3. place(p.from) \in Int /\ place(p.to) \in Int
    BY <2>2, PlaceType, Bounds
  <2>4. 1 <= place(p.from) /\ place(p.from) <= place(p.to) /\ place(p.to) <= place(rcv.curr)
    BY <1>1, <2>1 DEF PacketTrue
  <2>5. snd.curr \in SeqNos /\ snd.lastAck \in SeqNos
    BY EndsTyped DEF Sender
  <2> QED BY <2>2, <2>3, <2>4, <2>5
<1>3. /\ place(p.from) - place(p.to) < SeqNoTH /\ place(p.to) - place(p.from) < SeqNoTH
      /\ place(p.to) - place(snd.curr) < SeqNoTH /\ place(snd.curr) - place(p.to) < SeqNoTH
  BY <1>2, EndPlaces, Bounds
<1>4. ~(seqcmp(p.from, p.to) > 0)
  BY <1>2, <1>3, PlaceCompare
<1>5. ~(seqcmp(p.to, snd.curr) > 0)
  <2>1. ~(place(p.to) > place(snd.curr))
    BY <1>2, EndPlaces
  <2> QED BY <1>2, <1>3, <2>1, PlaceCompare
<1>6. /\ \A s \in Lost(p) : s \in SeqNos /\ place(p.from) <= place(s) /\ place(s) <= place(p.to)
      /\ \A s \in Lost(p) : seqcmp(s, snd.lastAck) >= 0
  BY <1>2, <1>3, PlaceBetween DEF Lost
<1>7. ASSUME NEW s \in Lost(p)
      PROVE  place(snd.lastDataAck) <= place(s) /\ place(s) <= place(snd.curr)
  <2>1. s \in SeqNos /\ place(s) \in Int /\ 1 <= place(s) /\ place(s) <= place(p.to)
    BY <1>2, <1>6, PlaceType, Bounds
  <2>2. place(s) - place(snd.lastAck) < SeqNoTH /\ place(snd.lastAck) - place(s) < SeqNoTH
    BY <1>2, <2>1, EndPlaces, Bounds
  <2>3. place(s) >= place(snd.lastAck)
    BY <1>2, <1>6, <2>1, <2>2, PlaceCompare
  <2> QED BY <1>2, <2>1, <2>3, EndPlaces
<1>8. snd' = [snd EXCEPT !.exp = 1, !.loss = @ \cup Lost(p), !.sched = TRUE]
  BY <1>4, <1>5 DEF ProcessNak
<1> DEFINE added == Lost(p)
<1>9. added \in SUBSET SeqNos /\ 1 \in 1 .. ExpLimit + 1
  BY <1>6, Bounds
<1> HIDE DEF added
<1>10. snd' = [snd EXCEPT !.exp = 1, !.loss = @ \cup added, !.sched = TRUE]
  BY <1>8 DEF added
<1>11. snd.loss \cup added \in SUBSET SeqNos
  BY <1>9, EndsTyped DEF Sender
<1>12. rcv' = rcv /\ sent' = sent /\ got' = got /\ lost' = lost
  BY DEF ProcessNak
<1>13. LossesStep(added)
  BY <1>9, <1>10, <1>11, <1>12, EndsTyped DEF LossesStep, Sender
<1>14. net' \subseteq net /\ early' \in 0 .. MaxEarly
  BY EndsTyped DEF ProcessNak
<1>15. \A s \in added : place(snd.lastDataAck) <= place(s) /\ place(s) <= place(snd.curr)
  BY <1>7 DEF added
<1> QED BY <1>9, <1>13, <1>14, <1>15, LossesAdded

LEMMA SndExpStep ==
  ASSUME BuffersInStep, SndExp
  PROVE  BuffersInStep'
<1>1. /\ rcv' = rcv /\ sent' = sent /\ got' = got /\ lost' = lost /\ Room
      /\ early' \in 0 .. MaxEarly /\ snd.st \in {"up", "linger"}
  BY EarlyTyped DEF SndExp, Listens
<1>2. ReceiverSame /\ StreamSame
  BY <1>1 DEF ReceiverSame, StreamSame
<1>3. CASE snd.exp > ExpLimit
  <2>1. snd' = [snd EXCEPT !.st = "broken"] /\ net' = net
    BY <1>3 DEF SndExp
  <2>2. snd' \in Sender /\ SenderSame /\ snd'.st = "broken"
    BY <2>1, EndsTyped DEF Sender, SenderSame, States
  <2> QED BY <1>1, <1>2, <2>1, <2>2, EndsTyped, StillFewer
<1>4. CASE ~(snd.exp > ExpLimit)
  <2> DEFINE e == snd.exp + 1
             w == snd.sched \/ snd.buf # <<>>
             added == Between(snd.lastAck, snd.curr)
  <2>1. e \in 1 .. ExpLimit + 1 /\ w \in BOOLEAN /\ snd.lastAck \in SeqNos /\ snd.curr \in SeqNos
    BY <1>4, EndsTyped, Bounds DEF Sender
  <2>2. /\ snd' = [snd EXCEPT !.exp = e, !.loss = IF Unacked THEN @ \cup added ELSE @, !.sched = w]
        /\ net' = IF Unacked THEN net ELSE net \cup {[type |-> "alive", to |-> "rcv"]}
    BY <1>4 DEF SndExp
  <2> HIDE DEF e, w
  <2>3. CASE Unacked
    <3>0. place(snd.lastAck) <= place(snd.curr)
      <4>1. incseq(snd.curr) \in SeqNos /\ place(incseq(snd.curr)) = place(snd.curr) + 1
        BY <2>1, EndPlaces, PlaceNext, Bounds
      <4>2. place(snd.lastAck) # place(snd.curr) + 1
        BY <2>1, <2>3, <4>1, PlaceOne DEF Unacked
      <4> QED BY <4>2, EndPlaces
    <3>1. place(snd.lastAck) - place(snd.curr) < SeqNoTH /\ place(snd.curr) - place(snd.lastAck) < SeqNoTH
      BY <3>0, EndPlaces, Bounds
    <3>2. /\ added \subseteq SeqNos
          /\ \A s \in added : place(snd.lastAck) <= place(s) /\ place(s) <= place(snd.curr)
      BY <2>1, <3>1, PlaceBetween
    <3> HIDE DEF added
    <3>3. \A s \in added : place(snd.lastDataAck) <= place(s) /\ place(s) <= place(snd.curr)
      BY <3>2, EndPlaces, PlaceType, Bounds
    <3>4. snd' = [snd EXCEPT !.exp = e, !.loss = @ \cup added, !.sched = w] /\ net' = net
      BY <2>2, <2>3
    <3>5. snd.loss \cup added \in SUBSET SeqNos
      BY <3>2, EndsTyped DEF Sender
    <3>6. LossesStep(added)
      BY <1>1, <2>1, <3>4, <3>5, EndsTyped DEF LossesStep, Sender
    <3> QED BY <1>1, <3>2, <3>3, <3>4, <3>6, LossesAdded
  <2>4. CASE ~Unacked
    <3> DEFINE q == [type |-> "alive", to |-> "rcv"]
    <3>1. snd' = [snd EXCEPT !.exp = e, !.sched = w] /\ net' = net \cup {q}
      <4>1. snd' = [snd EXCEPT !.exp = e, !.loss = @, !.sched = w] /\ net' = net \cup {q}
        BY <2>2, <2>4
      <4> QED BY <4>1, EndsTyped DEF Sender
    <3>2. snd' \in Sender /\ SenderSame /\ snd'.st = snd.st
      BY <2>1, <3>1, EndsTyped DEF Sender, SenderSame
    <3>3. q \in Packet /\ PacketTrue(q, place(snd.curr), place(rcv.lastAck), place(rcv.curr))
      BY PacketKinds DEF PacketTrue
    <3> QED BY <1>1, <1>2, <3>1, <3>2, <3>3, EndsTyped, StillAdded
  <2> QED BY <2>3, <2>4
<1> QED BY <1>3, <1>4

\* An acknowledgement is about packets that were sent, and is never taken for an attack.
LEMMA AckIsTrue ==
  ASSUME BuffersInStep, NEW p \in net, p.type = "ack"
  PROVE  /\ p.ack \in SeqNos /\ place(p.ack) \in Int /\ 1 <= place(p.ack) /\ place(p.ack) <= place(rcv.lastAck)
         /\ p.window \in Int
         /\ ~(seqcmp(p.ack, incseq(snd.curr)) > 0)
         /\ seqcmp(p.ack, snd.lastAck) >= 0 <=> place(p.ack) >= place(snd.lastAck)
         /\ seqoff(snd.lastDataAck, p.ack) = place(p.ack) - place(snd.lastDataAck)
<1>1. p \in Packet /\ PacketTrue(p, place(snd.curr), place(rcv.lastAck), place(rcv.curr))
  BY OnItsWay
<1>2. p.ack \in SeqNos /\ p.window \in Int
  BY <1>1, PacketFields
<1>3. place(p.ack) \in Int /\ 1 <= place(p.ack) /\ place(p.ack) <= place(rcv.lastAck)
  BY <1>1, <1>2, PlaceType, Bounds DEF PacketTrue
<1>4. place(p.ack) \in 1 .. NData + 1
  BY <1>3, EndPlaces, Bounds
<1>5. snd.curr \in SeqNos /\ snd.lastAck \in SeqNos /\ snd.lastDataAck \in SeqNos
  BY EndsTyped DEF Sender
<1>6. ~(seqcmp(p.ack, incseq(snd.curr)) > 0)
  <2>1. incseq(snd.curr) \in SeqNos /\ place(incseq(snd.curr)) = place(snd.curr) + 1
    BY <1>5, EndPlaces, PlaceNext, Bounds
  <2>2. /\ place(p.ack) - place(incseq(snd.curr)) < SeqNoTH
        /\ place(incseq(snd.curr)) - place(p.ack) < SeqNoTH
        /\ ~(place(p.ack) > place(incseq(snd.curr)))
    BY <1>3, <1>4, <2>1, EndPlaces, Bounds
  <2> QED BY <1>2, <2>1, <2>2, PlaceCompare
<1>7. seqcmp(p.ack, snd.lastAck) >= 0 <=> place(p.ack) >= place(snd.lastAck)
  <2>1. place(p.ack) - place(snd.lastAck) < SeqNoTH /\ place(snd.lastAck) - place(p.ack) < SeqNoTH
    BY <1>4, EndPlaces, Bounds
  <2> QED BY <1>2, <1>5, <2>1, PlaceCompare
<1>8. seqoff(snd.lastDataAck, p.ack) = place(p.ack) - place(snd.lastDataAck)
  <2>1. place(p.ack) - place(snd.lastDataAck) < SeqNoTH /\ place(snd.lastDataAck) - place(p.ack) < SeqNoTH
    BY <1>4, EndPlaces, Bounds
  <2> QED BY <1>2, <1>5, <2>1, PlaceCompare
<1> QED BY <1>2, <1>3, <1>6, <1>7, <1>8

LEMMA ProcessAckStep ==
  ASSUME BuffersInStep, NEW p, NEW confirm \in BOOLEAN, ProcessAck(p, confirm)
  PROVE  BuffersInStep'
<1> DEFINE ack == p.ack
           offset == seqoff(snd.lastDataAck, ack)
           ahead == seqcmp(ack, snd.lastAck) >= 0
           w == IF ahead THEN p.window ELSE snd.window
           a == IF ahead THEN ack ELSE snd.lastAck
           q == [type |-> "ack2", ack |-> ack]
           heard == [snd EXCEPT !.exp = 1, !.window = w, !.lastAck = a]
<1>1. p \in net /\ p.type = "ack" /\ rcv' = rcv /\ sent' = sent /\ got' = got /\ lost' = lost /\ early' = early
  BY DEF ProcessAck
<1>2. /\ ack \in SeqNos /\ place(ack) \in Int /\ 1 <= place(ack) /\ place(ack) <= place(rcv.lastAck)
      /\ p.window \in Int /\ offset = place(ack) - place(snd.lastDataAck)
      /\ ahead <=> place(ack) >= place(snd.lastAck)
  BY <1>1, AckIsTrue
<1>3. snd' = Acknowledge(p.ack, p.window)
  BY <1>1, AckIsTrue DEF ProcessAck
<1>4. net' \subseteq (net \ {p}) \cup {q}
  BY DEF ProcessAck
<1>5. q \in Packet /\ PacketTrue(q, place(snd.curr), place(rcv.lastAck), place(rcv.curr))
  BY <1>2, PacketKinds DEF PacketTrue
<1>6. snd' = IF offset <= 0 THEN heard
             ELSE [[heard EXCEPT !.buf = SubSeq(@, offset + 1, Len(@)), !.next = @ - offset,
                                 !.lastDataAck = ack,
                                 !.loss = {s \in @ : seqcmp(s, ack) >= 0}] EXCEPT !.sched = TRUE]
  BY <1>3 DEF Acknowledge, Wake
<1>7. /\ a \in SeqNos /\ w \in Int /\ 1 \in 1 .. ExpLimit + 1 /\ place(a) \in Int
      /\ place(ack) <= place(a) /\ place(snd.lastAck) <= place(a) /\ place(a) <= place(rcv.curr) + 1
  <2>1. snd.lastAck \in SeqNos /\ snd.window \in Int
    BY EndsTyped DEF Sender
  <2>2. CASE ahead
    BY <1>2, <2>2, EndPlaces, Bounds
  <2>3. CASE ~ahead
    BY <1>2, <2>1, <2>3, EndPlaces, Bounds
  <2> QED BY <2>2, <2>3
<1> HIDE DEF a, w
<1>8. /\ heard \in Sender /\ heard.lastAck = a /\ heard.lastDataAck = snd.lastDataAck
      /\ heard.curr = snd.curr /\ heard.buf = snd.buf /\ heard.next = snd.next
      /\ heard.loss = snd.loss /\ heard.st = snd.st
  BY <1>7, EndsTyped DEF Sender
<1> HIDE DEF heard, offset, ahead, ack, q
<1>9. sent' \in 0 .. NData /\ sent <= sent' /\ lost' \in 0 .. MaxLoss /\ early' \in 0 .. MaxEarly
  BY <1>1, EndsTyped DEF TypeOK
<1>10. NetSmall
  BY <1>1, <1>4, <1>5, NetAnswered, EndsTyped
<1>11. CASE offset <= 0
  <2>1. snd' = heard
    BY <1>6, <1>11
  <2>2. SenderBuffer'
    <3>1. place(snd.lastDataAck) <= place(a) /\ place(a) <= place(snd.curr) + 1
      BY <1>7, EndPlaces
    <3> QED BY <1>1, <1>8, <2>1, <3>1, EndsTyped DEF SenderBuffer
  <2>3. MovesOn
    BY <1>1, <1>8, <2>1, EndPlaces DEF MovesOn
  <2>4. PacketTrue(q, place(snd'.curr), place(rcv'.lastAck), place(rcv'.curr))
    BY <1>1, <1>5, <1>8, <2>1
  <2>5. PacketsTrue'
    BY <1>4, <2>3, <2>4, PacketsAdded
  <2>6. Len(snd'.buf) <= SndBufSize
    BY <1>8, <2>1, EndsTyped DEF TypeOK
  <2>7. /\ place(snd.curr) <= place(snd'.curr) /\ place(snd'.lastDataAck) <= place(rcv.lastAck)
        /\ place(snd'.lastAck) <= place(rcv.curr) + 1
    BY <1>7, <1>8, <2>1, EndPlaces
  <2> QED BY <1>1, <1>8, <1>9, <1>10, <2>1, <2>2, <2>5, <2>6, <2>7, SenderStep, EndsTyped
<1>12. CASE ~(offset <= 0)
  <2> DEFINE b == SubSeq(snd.buf, offset + 1, Len(snd.buf))
             n == snd.next - offset
             l == {s \in snd.loss : seqcmp(s, ack) >= 0}
  <2>0. /\ snd.buf \in Seq(1 .. NData) /\ Len(snd.buf) \in Nat /\ snd.next \in Nat
        /\ snd.next = place(snd.curr) + 1 - place(snd.lastDataAck) /\ snd.next <= Len(snd.buf)
        /\ place(snd.lastDataAck) + Len(snd.buf) = sent + 1 /\ sent \in Nat
    BY EndsTyped, SenderPlaces DEF Sender
  <2>1. offset \in 1 .. snd.next
    <3>1. offset = place(ack) - place(snd.lastDataAck) /\ place(ack) <= place(snd.curr) + 1
      BY <1>2, EndPlaces
    <3>2. place(ack) \in Int /\ place(snd.lastDataAck) \in Int /\ place(snd.curr) \in Int
      BY <1>2, EndPlaces
    <3>3. snd.next = place(snd.curr) + 1 - place(snd.lastDataAck)
      BY <2>0
    <3> QED BY <1>12, <3>1, <3>2, <3>3
  <2>2. /\ b \in Seq(1 .. NData) /\ Len(b) = Len(snd.buf) - offset
        /\ \A i \in 1 .. Len(b) : b[i] = snd.buf[offset + i]
    <3>1. /\ offset + 1 \in Int /\ Len(snd.buf) \in Int
          /\ \A i \in offset + 1 .. Len(snd.buf) : snd.buf[i] \in 1 .. NData
      <4>1. \A i \in 1 .. Len(snd.buf) : snd.buf[i] \in 1 .. NData
        BY <2>0, ElementOfSeq
      <4>2. offset \in Nat /\ offset + 1 .. Len(snd.buf) \subseteq 1 .. Len(snd.buf)
        BY <2>0, <2>1
      <4> QED BY <2>0, <4>1, <4>2
    <3>2. /\ b \in Seq(1 .. NData)
          /\ Len(b) = IF offset + 1 <= Len(snd.buf) THEN Len(snd.buf) - (offset + 1) + 1 ELSE 0
          /\ \A i \in 1 .. Len(snd.buf) - (offset + 1) + 1 : b[i] = snd.buf[(offset + 1) + i - 1]
      BY <3>1, SubSeqProperties
    <3> HIDE DEF b
    <3>3. Len(b) = Len(snd.buf) - offset
      BY <2>0, <2>1, <3>2
    <3>4. \A i \in 1 .. Len(b) : (offset + 1) + i - 1 = offset + i /\ i \in 1 .. Len(snd.buf) - (offset + 1) + 1
      BY <2>0, <2>1, <3>3
    <3> QED BY <3>2, <3>3, <3>4
  <2>4. n \in Nat /\ n = place(snd.curr) + 1 - place(ack) /\ n <= Len(b)
    <3>1. place(snd.curr) \in Int /\ place(snd.lastDataAck) \in Int
      BY EndPlaces
    <3>2. n \in Nat /\ n <= Len(b)
      BY <2>0, <2>1, <2>2
    <3>3. n = place(snd.curr) + 1 - place(ack)
      BY <1>2, <2>0, <3>1
    <3> QED BY <3>2, <3>3
  <2>5. l \in SUBSET SeqNos /\ \A s \in l : place(ack) <= place(s) /\ place(s) <= place(snd.curr)
    <3>1. snd.loss \subseteq SeqNos
      BY EndsTyped DEF Sender
    <3>2. ASSUME NEW s \in l PROVE place(ack) <= place(s) /\ place(s) <= place(snd.curr)
      <4>1. s \in SeqNos /\ place(s) \in Int
        BY <3>1, PlaceType, Bounds
      <4>2. place(snd.lastDataAck) <= place(s) /\ place(s) <= place(snd.curr)
        BY EndsTyped DEF SenderBuffer
      <4>3. place(s) - place(ack) < SeqNoTH /\ place(ack) - place(s) < SeqNoTH
        BY <1>2, <4>1, <4>2, EndPlaces, Bounds
      <4>4. seqcmp(s, ack) >= 0
        OBVIOUS
      <4> QED BY <1>2, <4>1, <4>2, <4>3, <4>4, PlaceCompare
    <3> QED BY <3>1, <3>2
  <2>6. snd' = [[heard EXCEPT !.buf = b, !.next = n, !.lastDataAck = ack, !.loss = l] EXCEPT !.sched = TRUE]
    BY <1>6, <1>8, <1>12
  <2> HIDE DEF b, n, l
  <2>7. /\ snd' \in Sender /\ snd'.lastAck = a /\ snd'.lastDataAck = ack
        /\ snd'.curr = snd.curr /\ snd'.buf = b /\ snd'.next = n
        /\ snd'.loss = l /\ snd'.st = snd.st
    BY <1>2, <1>8, <2>2, <2>4, <2>5, <2>6 DEF Sender
  <2>8. SenderBuffer'
    <3>1. \A i \in 1 .. Len(b) : b[i] = place(ack) + i - 1
      <4> TAKE i \in 1 .. Len(b)
      <4>1. offset + i \in 1 .. Len(snd.buf)
        BY <2>0, <2>1, <2>2
      <4>2. b[i] = place(snd.lastDataAck) + (offset + i) - 1
        BY <2>2, <4>1, EndsTyped DEF SenderBuffer
      <4>3. place(snd.lastDataAck) \in Int /\ offset \in Int
        BY <2>1, EndPlaces
      <4> QED BY <1>2, <4>2, <4>3
    <3>2. place(ack) <= place(a) /\ place(a) <= place(snd.curr) + 1 /\ 1 <= place(ack)
      BY <1>2, <1>7, EndPlaces
    <3>3. place(ack) + Len(b) = sent + 1
      <4>1. place(snd.lastDataAck) \in Int /\ Len(b) = Len(snd.buf) - offset /\ offset \in Int
        BY <2>1, <2>2, EndPlaces
      <4> QED BY <1>2, <2>0, <4>1
    <3> QED BY <1>1, <2>4, <2>5, <2>7, <3>1, <3>2, <3>3 DEF SenderBuffer
  <2>9. MovesOn
    BY <1>1, <2>7, EndPlaces DEF MovesOn
  <2>10. PacketTrue(q, place(snd'.curr), place(rcv'.lastAck), place(rcv'.curr))
    BY <1>1, <1>5, <2>7
  <2>11. PacketsTrue'
    BY <1>4, <2>9, <2>10, PacketsAdded
  <2>12. Len(snd'.buf) <= SndBufSize
    <3>1. Len(snd.buf) <= SndBufSize
      BY EndsTyped DEF TypeOK
    <3> QED BY <2>0, <2>1, <2>2, <2>7, <3>1, Bounds
  <2>13. /\ place(snd.curr) <= place(snd'.curr) /\ place(snd'.lastDataAck) <= place(rcv.lastAck)
         /\ place(snd'.lastAck) <= place(rcv.curr) + 1
    BY <1>2, <1>7, <2>7, EndPlaces
  <2>14. snd'.st = "closed" => snd'.buf = <<>>
    <3>1. snd.st # "closed"
      BY DEF ProcessAck, Listens
    <3> QED BY <2>7, <3>1
  <2> QED BY <1>1, <1>9, <1>10, <2>7, <2>8, <2>11, <2>12, <2>13, <2>14, SenderStep, EndsTyped
<1> QED BY <1>11, <1>12

-----------------------------------------------------------------------------
(* Steps of the receiver. *)

LEMMA ReceiverStep ==
  ASSUME BuffersInStep, snd' = snd, sent' = sent, rcv' \in Receiver, got' \in Seq(1 .. NData),
         ReceiverBuffer', InOrder',
         place(rcv.lastAck) <= place(rcv'.lastAck), place(rcv.curr) <= place(rcv'.curr),
         place(rcv'.curr) <= place(snd.curr),
         NetSmall, PacketsTrue', lost' \in 0 .. MaxLoss, early' \in 0 .. MaxEarly
  PROVE  BuffersInStep'
<1>1. TypeOK'
  BY DEF TypeOK, BuffersInStep, NetSmall
<1>2. SenderBuffer'
  BY SenderKept, EndsTyped DEF SenderSame
<1>3. EndsInStep'
  <2>1. place(rcv'.lastAck) \in Int /\ place(rcv'.curr) \in Int
    BY PlaceType, Bounds DEF Receiver
  <2> QED BY <2>1, EndPlaces DEF EndsInStep
<1> QED BY <1>1, <1>2, <1>3, Together, EndsTyped

\* How much the receiver may read, and what comes next.
LEMMA StreamPlaces ==
  ASSUME BuffersInStep
  PROVE  /\ Len(got) \in Nat /\ Len(rcv.ready) \in Nat /\ sent \in Nat
         /\ got \in Seq(1 .. NData) /\ rcv.ready \in Seq(1 .. NData)
         /\ place(snd.curr) <= sent /\ Len(got) <= sent
         /\ rcv.st # "closed" => Len(got) + Len(rcv.ready) + 1 = place(rcv.lastAck)
         /\ rcv.st # "closed" => Len(got) + Len(rcv.ready) <= sent
<1>1. /\ Len(got) \in Nat /\ Len(rcv.ready) \in Nat /\ sent \in Nat
      /\ got \in Seq(1 .. NData) /\ rcv.ready \in Seq(1 .. NData)
  BY EndsTyped, ReceiverPlaces, SenderPlaces DEF TypeOK
<1>2. place(snd.curr) <= sent
  <2>1. /\ snd.next = place(snd.curr) + 1 - place(snd.lastDataAck) /\ snd.next <= Len(snd.buf)
        /\ place(snd.lastDataAck) + Len(snd.buf) = sent + 1 /\ snd.next \in Nat /\ Len(snd.buf) \in Nat
    BY SenderNumbers
  <2> DEFINE n == Len(snd.buf)
  <2>2. /\ place(snd.curr) + 1 - place(snd.lastDataAck) <= n /\ place(snd.lastDataAck) + n = sent + 1
        /\ n \in Nat /\ sent \in Nat
    BY <1>1, <2>1
  <2> HIDE DEF n
  <2> QED BY <2>2, EndPlaces
<1>3. Len(got) <= sent /\ (rcv.st # "closed" => Len(got) + Len(rcv.ready) + 1 = place(rcv.lastAck))
  BY EndsTyped DEF InOrder
<1>4. rcv.st # "closed" => Len(got) + Len(rcv.ready) <= sent
  BY <1>1, <1>2, <1>3, EndPlaces
<1> QED BY <1>1, <1>2, <1>3, <1>4

LEMMA RecvStep ==
  ASSUME BuffersInStep, Recv
  PROVE  BuffersInStep'
<1> DEFINE t == Tail(rcv.ready)
           g == Append(got, Head(rcv.ready))
<1>1. rcv.st # "closed" /\ rcv.ready # <<>> /\ rcv.ready \in Seq(1 .. NData) /\ got \in Seq(1 .. NData)
      /\ Len(rcv.ready) \in Nat /\ Len(got) \in Nat
  BY StreamPlaces DEF Recv
<1>2. Len(rcv.ready) >= 1
  BY <1>1
<1>3. /\ t \in Seq(1 .. NData) /\ Len(t) = Len(rcv.ready) - 1
      /\ \A i \in 1 .. Len(t) : t[i] = rcv.ready[i + 1]
      /\ Head(rcv.ready) = rcv.ready[1] /\ Head(rcv.ready) \in 1 .. NData
  <2>1. /\ Head(rcv.ready) \in 1 .. NData /\ t \in Seq(1 .. NData)
        /\ Len(t) = Len(rcv.ready) - 1 /\ \A i \in 1 .. Len(t) : t[i] = rcv.ready[i + 1]
    BY <1>1, HeadTailProperties
  <2>2. Head(rcv.ready) = rcv.ready[1]
    OBVIOUS
  <2> QED BY <2>1, <2>2
<1>4. /\ g \in Seq(1 .. NData) /\ Len(g) = Len(got) + 1
      /\ \A i \in 1 .. Len(got) : g[i] = got[i]
      /\ g[Len(got) + 1] = rcv.ready[1]
  BY <1>1, <1>3
<1>5. rcv' = [rcv EXCEPT !.ready = t] /\ got' = g /\ snd' = snd /\ net' = net /\ sent' = sent
      /\ lost' = lost /\ early' = early
  BY DEF Recv
<1> HIDE DEF t, g
<1>6. /\ rcv' \in Receiver /\ rcv'.ready = t /\ rcv'.st = rcv.st /\ rcv'.lastAck = rcv.lastAck
      /\ rcv'.lastAckAck = rcv.lastAckAck /\ rcv'.curr = rcv.curr
      /\ rcv'.loss = rcv.loss /\ rcv'.unit = rcv.unit
  BY <1>3, <1>5, EndsTyped DEF Receiver
<1>7. ReceiverBuffer'
  <2>1. Len(rcv'.ready) <= Len(rcv.ready) /\ rcv'.ready \in Seq(1 .. NData)
    BY <1>1, <1>3, <1>6
  <2> QED BY <1>6, <2>1, ReceiverKept DEF ReceiverSame
<1>8. InOrder'
  <2>1. /\ \A i \in 1 .. Len(got) : got[i] = i
        /\ \A i \in 1 .. Len(rcv.ready) : rcv.ready[i] = Len(got) + i
    BY <1>1, EndsTyped DEF InOrder
  <2>2. rcv.ready[1] = Len(got) + 1
    BY <1>1, <1>2, <2>1
  <2>3. \A i \in 1 .. Len(g) : g[i] = i
    <3> TAKE i \in 1 .. Len(g)
    <3>1. i \in 1 .. Len(got) \/ i = Len(got) + 1
      BY <1>1, <1>4
    <3> QED BY <1>4, <2>1, <2>2, <3>1
  <2>4. \A i \in 1 .. Len(t) : t[i] = Len(g) + i
    <3> TAKE i \in 1 .. Len(t)
    <3>1. i + 1 \in 1 .. Len(rcv.ready) /\ Len(got) + (i + 1) = Len(g) + i
      BY <1>1, <1>3, <1>4
    <3> QED BY <1>3, <2>1, <3>1
  <2>5. Len(g) <= sent /\ Len(g) + Len(t) + 1 = place(rcv.lastAck)
    <3>1. Len(g) = Len(got) + 1 /\ Len(t) = Len(rcv.ready) - 1
      BY <1>3, <1>4
    <3>2. /\ Len(got) + Len(rcv.ready) + 1 = place(rcv.lastAck) /\ Len(got) + Len(rcv.ready) <= sent
          /\ sent \in Nat
      BY <1>1, StreamPlaces
    <3>3. Len(rcv.ready) \in Nat /\ Len(got) \in Nat
      BY <1>1
    <3>4. Len(g) <= sent
      BY ONLY <1>2, <3>1, <3>2, <3>3
    <3> DEFINE x == Len(got)
               y == Len(rcv.ready)
    <3>5. x \in Int /\ y \in Int /\ Len(g) = x + 1 /\ Len(t) = y - 1 /\ x + y + 1 = place(rcv.lastAck)
      BY <3>1, <3>2, <3>3
    <3> HIDE DEF x, y
    <3>6. Len(g) + Len(t) + 1 = place(rcv.lastAck)
      BY ONLY <3>5
    <3> QED BY <3>4, <3>6
  <2> QED BY <1>1, <1>5, <1>6, <2>3, <2>4, <2>5 DEF InOrder
<1>9. MovesOn
  BY <1>5, <1>6, EndPlaces DEF MovesOn
<1>10. NetSmall /\ PacketsTrue'
  BY <1>5, <1>9, NetFewer, PacketsKept, EndsTyped
<1>11. /\ place(rcv.lastAck) <= place(rcv'.lastAck) /\ place(rcv.curr) <= place(rcv'.curr)
       /\ place(rcv'.curr) <= place(snd.curr)
  BY <1>6, EndPlaces
<1> QED BY <1>4, <1>5, <1>6, <1>7, <1>8, <1>10, <1>11, ReceiverStep, EndsTyped

LEMMA RcvCloseStep ==
  ASSUME BuffersInStep, RcvClose
  PROVE  BuffersInStep'
<1> DEFINE q == [type |-> "shutdown", to |-> "snd"]
<1>1. /\ rcv' = [rcv EXCEPT !.st = "closed", !.ready = <<>>] /\ got' = got /\ snd' = snd /\ sent' = sent
      /\ net' = net \cup {q} /\ Room /\ lost' = lost /\ early' = early
  BY DEF RcvClose
<1>2. /\ rcv' \in Receiver /\ rcv'.ready = <<>> /\ rcv'.st = "closed" /\ rcv'.lastAck = rcv.lastAck
      /\ rcv'.lastAckAck = rcv.lastAckAck /\ rcv'.curr = rcv.curr
      /\ rcv'.loss = rcv.loss /\ rcv'.unit = rcv.unit
  <2>1. <<>> \in Seq(1 .. NData) /\ "closed" \in States
    BY DEF States
  <2> QED BY <1>1, <2>1, EndsTyped DEF Receiver
<1>3. ReceiverBuffer'
  <2>1. Len(rcv'.ready) <= Len(rcv.ready) /\ rcv'.ready \in Seq(1 .. NData)
    BY <1>2, StreamPlaces
  <2> QED BY <1>2, <2>1, ReceiverKept DEF ReceiverSame
<1>4. InOrder'
  BY <1>1, <1>2, EndsTyped DEF InOrder
<1>5. MovesOn
  BY <1>1, <1>2, EndPlaces DEF MovesOn
<1>6. q \in Packet /\ PacketTrue(q, place(snd'.curr), place(rcv'.lastAck), place(rcv'.curr))
  BY PacketKinds DEF PacketTrue
<1> HIDE DEF q
<1>7. NetSmall /\ PacketsTrue'
  BY <1>1, <1>5, <1>6, NetAdded, PacketsAdded, EndsTyped
<1>8. /\ place(rcv.lastAck) <= place(rcv'.lastAck) /\ place(rcv.curr) <= place(rcv'.curr)
      /\ place(rcv'.curr) <= place(snd.curr)
  BY <1>2, EndPlaces
<1> QED BY <1>1, <1>2, <1>3, <1>4, <1>7, <1>8, ReceiverStep, EndsTyped, StreamPlaces

LEMMA ProcessAck2Step ==
  ASSUME BuffersInStep, NEW p, ProcessAck2(p)
  PROVE  BuffersInStep'
<1> DEFINE a == IF seqcmp(p.ack, rcv.lastAckAck) > 0 THEN p.ack ELSE rcv.lastAckAck
<1>1. p \in net /\ p.type = "ack2"
  BY DEF ProcessAck2
<1>2. /\ rcv' = [rcv EXCEPT !.exp = 1, !.lastAckAck = a] /\ got' = got /\ snd' = snd /\ sent' = sent
      /\ net' \subseteq net /\ lost' = lost /\ early' = early
  BY DEF ProcessAck2
<1>3. a \in SeqNos /\ 1 <= place(a) /\ place(a) <= place(rcv.lastAck) /\ 1 \in 1 .. ExpLimit + 1
  <2>1. p \in Packet /\ PacketTrue(p, place(snd.curr), place(rcv.lastAck), place(rcv.curr))
    BY <1>1, OnItsWay
  <2>2. p.ack \in SeqNos /\ 1 <= place(p.ack) /\ place(p.ack) <= place(rcv.lastAck)
    BY <1>1, <2>1, PacketFields DEF PacketTrue
  <2>3. rcv.lastAckAck \in SeqNos /\ 1 <= place(rcv.lastAckAck) /\ place(rcv.lastAckAck) <= place(rcv.lastAck)
    BY EndPlaces, EndsTyped DEF Receiver
  <2> QED BY <2>2, <2>3, Bounds
<1> HIDE DEF a
<1>4. /\ rcv' \in Receiver /\ rcv'.ready = rcv.ready /\ rcv'.st = rcv.st /\ rcv'.lastAck = rcv.lastAck
      /\ rcv'.lastAckAck = a /\ rcv'.curr = rcv.curr
      /\ rcv'.loss = rcv.loss /\ rcv'.unit = rcv.unit
  BY <1>2, <1>3, EndsTyped DEF Receiver
<1>5. ReceiverBuffer'
  BY <1>3, <1>4, EndsTyped DEF ReceiverBuffer, Held
<1>6. InOrder'
  BY <1>2, <1>4, OrderKept, StreamPlaces DEF StreamSame
<1>7. MovesOn
  BY <1>2, <1>4, EndPlaces DEF MovesOn
<1>8. NetSmall /\ PacketsTrue'
  BY <1>2, <1>7, NetFewer, PacketsKept, EndsTyped
<1>9. /\ place(rcv.lastAck) <= place(rcv'.lastAck) /\ place(rcv.curr) <= place(rcv'.curr)
      /\ place(rcv'.curr) <= place(snd.curr)
  BY <1>4, EndPlaces
<1> QED BY <1>2, <1>4, <1>5, <1>6, <1>8, <1>9, ReceiverStep, EndsTyped, StreamPlaces

\* What a packet of data is to the receiver.
LEMMA DataIsTrue ==
  ASSUME BuffersInStep, NEW p \in net, p.type = "data"
  PROVE  /\ p.seq \in SeqNos /\ p.data \in 1 .. NData /\ p.data = place(p.seq) /\ place(p.seq) \in 1 .. NData
         /\ place(p.seq) <= place(snd.curr)
         /\ incseq(rcv.curr) \in SeqNos /\ place(incseq(rcv.curr)) = place(rcv.curr) + 1
         /\ decseq(p.seq) \in SeqNos /\ place(decseq(p.seq)) = place(p.seq) - 1
         /\ seqoff(rcv.lastAck, p.seq) = place(p.seq) - place(rcv.lastAck)
         /\ seqcmp(p.seq, incseq(rcv.curr)) > 0 <=> place(p.seq) > place(rcv.curr) + 1
         /\ seqcmp(p.seq, rcv.curr) > 0 <=> place(p.seq) > place(rcv.curr)
<1>1. p \in Packet /\ PacketTrue(p, place(snd.curr), place(rcv.lastAck), place(rcv.curr))
  BY OnItsWay
<1>2. p.seq \in SeqNos /\ p.data \in 1 .. NData
  BY <1>1, PacketFields
<1>3. p.data = place(p.seq) /\ place(p.seq) <= place(snd.curr) /\ place(p.seq) \in 1 .. NData
  BY <1>1, <1>2 DEF PacketTrue
<1>4. rcv.curr \in SeqNos /\ rcv.lastAck \in SeqNos
  BY EndsTyped DEF Receiver
<1>5. incseq(rcv.curr) \in SeqNos /\ place(incseq(rcv.curr)) = place(rcv.curr) + 1
  BY <1>4, EndPlaces, PlaceNext, Bounds
<1>6. decseq(p.seq) \in SeqNos /\ place(decseq(p.seq)) = place(p.seq) - 1
  BY <1>2, <1>3, PlaceNext, Bounds
<1>7. seqoff(rcv.lastAck, p.seq) = place(p.seq) - place(rcv.lastAck)
  <2>1. place(p.seq) - place(rcv.lastAck) < SeqNoTH /\ place(rcv.lastAck) - place(p.seq) < SeqNoTH
    BY <1>3, EndPlaces, Bounds
  <2> QED BY <1>2, <1>4, <2>1, PlaceCompare
<1>8. seqcmp(p.seq, incseq(rcv.curr)) > 0 <=> place(p.seq) > place(rcv.curr) + 1
  <2>1. /\ place(p.seq) - place(incseq(rcv.curr)) < SeqNoTH
        /\ place(incseq(rcv.curr)) - place(p.seq) < SeqNoTH
    BY <1>3, <1>5, EndPlaces, Bounds
  <2>2. seqcmp(p.seq, incseq(rcv.curr)) > 0 <=> place(p.seq) > place(incseq(rcv.curr))
    BY <1>2, <1>5, <2>1, PlaceCompare
  <2> QED BY <1>5, <2>2
<1>9. seqcmp(p.seq, rcv.curr) > 0 <=> place(p.seq) > place(rcv.curr)
  <2>1. place(p.seq) - place(rcv.curr) < SeqNoTH /\ place(rcv.curr) - place(p.seq) < SeqNoTH
    BY <1>3, EndPlaces, Bounds
  <2> QED BY <1>2, <1>4, <2>1, PlaceCompare
<1> QED BY <1>2, <1>3, <1>5, <1>6, <1>7, <1>8, <1>9

\* The losses of the receiver after a packet that is new: those that it shows, too.
LEMMA LossesAfterData ==
  ASSUME BuffersInStep, NEW p \in net, p.type = "data", p.seq \notin Held,
         place(rcv.lastAck) <= place(p.seq),
         NEW ahead \in BOOLEAN, ahead <=> place(p.seq) > place(rcv.curr) + 1,
         NEW last, last = IF place(p.seq) > place(rcv.curr) THEN place(p.seq) ELSE place(rcv.curr),
         NEW l, l = IF ahead THEN rcv.loss \cup Gap(p) ELSE rcv.loss \ {p.seq}
  PROVE  /\ l \in SUBSET SeqNos
         /\ \A s \in SeqNos : s \in l <=>
              place(rcv.lastAck) <= place(s) /\ place(s) <= last /\ s \notin Held \cup {p.seq}
<1>1. /\ p.seq \in SeqNos /\ place(p.seq) \in 1 .. NData
      /\ incseq(rcv.curr) \in SeqNos /\ place(incseq(rcv.curr)) = place(rcv.curr) + 1
      /\ decseq(p.seq) \in SeqNos /\ place(decseq(p.seq)) = place(p.seq) - 1
  BY DataIsTrue
<1>2. /\ \A s \in SeqNos : s \in rcv.loss <=>
           place(rcv.lastAck) <= place(s) /\ place(s) <= place(rcv.curr) /\ s \notin Held
      /\ \A s \in Held : place(s) <= place(rcv.curr)
      /\ rcv.loss \subseteq SeqNos
  BY EndsTyped DEF ReceiverBuffer, Receiver
<1>3. place(rcv.lastAck) \in Int /\ place(rcv.curr) \in Int /\ place(rcv.lastAck) <= place(rcv.curr) + 1
  BY EndPlaces
<1>4. CASE ahead
  <2>1. /\ place(incseq(rcv.curr)) - place(decseq(p.seq)) < SeqNoTH
        /\ place(decseq(p.seq)) - place(incseq(rcv.curr)) < SeqNoTH
    BY <1>1, <1>4, EndPlaces, Bounds
  <2>2. /\ Gap(p) \subseteq SeqNos
        /\ \A s \in SeqNos : s \in Gap(p) <=> place(rcv.curr) + 1 <= place(s) /\ place(s) <= place(p.seq) - 1
    BY <1>1, <2>1, PlaceBetween DEF Gap
  <2>3. ASSUME NEW s \in SeqNos
        PROVE  s \in l <=> place(rcv.lastAck) <= place(s) /\ place(s) <= last /\ s \notin Held \cup {p.seq}
    <3>1. place(s) \in Int
      BY PlaceType, Bounds
    <3>2. s = p.seq <=> place(s) = place(p.seq)
      BY <1>1, PlaceOne
    <3>3. s \in l <=> s \in rcv.loss \/ s \in Gap(p)
      BY <1>4
    <3>4. last = place(p.seq)
      BY <1>1, <1>3, <1>4
    <3> QED BY <1>1, <1>2, <1>3, <1>4, <2>2, <3>1, <3>2, <3>3, <3>4
  <2> QED BY <1>2, <1>4, <2>2, <2>3
<1>5. CASE ~ahead
  <2>1. ASSUME NEW s \in SeqNos
        PROVE  s \in l <=> place(rcv.lastAck) <= place(s) /\ place(s) <= last /\ s \notin Held \cup {p.seq}
    <3>1. place(s) \in Int
      BY PlaceType, Bounds
    <3>2. s = p.seq <=> place(s) = place(p.seq)
      BY <1>1, PlaceOne
    <3>3. s \in l <=> s \in rcv.loss /\ s # p.seq
      BY <1>5
    <3>4. place(p.seq) <= place(rcv.curr) + 1
      BY <1>1, <1>3, <1>5
    <3> QED BY <1>1, <1>2, <1>3, <3>1, <3>2, <3>3, <3>4
  <2> QED BY <1>2, <1>5, <2>1
<1> QED BY <1>4, <1>5

LEMMA ProcessDataStep ==
  ASSUME BuffersInStep, NEW p, ProcessData(p)
  PROVE  BuffersInStep'
<1> DEFINE offset == seqoff(rcv.lastAck, p.seq)
           new == offset \in 0 .. Avail - 1 /\ p.seq \notin Held
           ahead == new /\ seqcmp(p.seq, incseq(rcv.curr)) > 0
           q == [type |-> "nak", from |-> incseq(rcv.curr), to |-> decseq(p.seq)]
           u == IF new THEN [rcv.unit EXCEPT ![p.seq] = p.data] ELSE rcv.unit
           l == IF ~new THEN rcv.loss ELSE IF ahead THEN rcv.loss \cup Gap(p) ELSE rcv.loss \ {p.seq}
           c == IF new /\ seqcmp(p.seq, rcv.curr) > 0 THEN p.seq ELSE rcv.curr
<1>1. /\ p \in net /\ p.type = "data" /\ rcv.st # "closed"
      /\ snd' = snd /\ sent' = sent /\ got' = got /\ lost' = lost /\ early' = early
  BY DEF ProcessData, Listens
<1>2. /\ rcv' = [rcv EXCEPT !.exp = 1, !.fresh = TRUE, !.unit = u, !.loss = l, !.curr = c]
      /\ net' = (net \ {p}) \cup (IF ahead THEN {q} ELSE {})
  BY DEF ProcessData
<1>3. /\ p.seq \in SeqNos /\ p.data \in 1 .. NData /\ p.data = place(p.seq) /\ place(p.seq) \in 1 .. NData
      /\ place(p.seq) <= place(snd.curr)
      /\ incseq(rcv.curr) \in SeqNos /\ place(incseq(rcv.curr)) = place(rcv.curr) + 1
      /\ decseq(p.seq) \in SeqNos /\ place(decseq(p.seq)) = place(p.seq) - 1
      /\ offset = place(p.seq) - place(rcv.lastAck)
      /\ ahead <=> new /\ place(p.seq) > place(rcv.curr) + 1
      /\ seqcmp(p.seq, rcv.curr) > 0 <=> place(p.seq) > place(rcv.curr)
  BY <1>1, DataIsTrue
<1>4. 1 \in 1 .. ExpLimit + 1
  BY Bounds
<1>5. CASE ~new
  <2>1. rcv' = [rcv EXCEPT !.exp = 1, !.fresh = TRUE, !.unit = rcv.unit, !.loss = rcv.loss, !.curr = rcv.curr]
    BY <1>2, <1>5
  <2>2. rcv' \in Receiver /\ ReceiverSame /\ rcv'.ready = rcv.ready /\ rcv'.st = rcv.st
    BY <1>4, <2>1, EndsTyped DEF Receiver, ReceiverSame
  <2>3. SenderSame /\ StreamSame
    BY <1>1, <2>2 DEF SenderSame, StreamSame, ReceiverSame
  <2>4. net' \subseteq net
    BY <1>2, <1>5
  <2> QED BY <1>1, <2>2, <2>3, <2>4, EndsTyped, StillFewer
<1>6. CASE new
  <2>1. /\ u = [rcv.unit EXCEPT ![p.seq] = p.data]
        /\ l = IF ahead THEN rcv.loss \cup Gap(p) ELSE rcv.loss \ {p.seq}
        /\ c = IF seqcmp(p.seq, rcv.curr) > 0 THEN p.seq ELSE rcv.curr
        /\ p.seq \notin Held
    BY <1>6
  <2>2. /\ place(rcv.lastAck) <= place(p.seq)
        /\ place(p.seq) + 1 - place(rcv.lastAck) + Len(rcv.ready) < RcvBufSize
    <3>1. offset \in 0 .. RcvBufSize - Len(rcv.ready) - 1 - 1
      BY <1>6 DEF Avail
    <3> DEFINE n == Len(rcv.ready)
    <3>2. offset \in 0 .. RcvBufSize - n - 1 - 1 /\ n \in Nat /\ offset = place(p.seq) - place(rcv.lastAck)
      BY <1>3, <3>1, StreamPlaces
    <3>3. place(p.seq) \in Int /\ place(rcv.lastAck) \in Int
      BY <1>3, EndPlaces
    <3> HIDE DEF n, offset
    <3>4. place(rcv.lastAck) <= place(p.seq) /\ place(p.seq) + 1 - place(rcv.lastAck) + n < RcvBufSize
      BY <3>2, <3>3, Bounds
    <3> QED BY <3>4 DEF n
  <2>3. /\ c \in SeqNos /\ place(rcv.curr) <= place(c) /\ place(c) <= place(snd.curr)
        /\ place(c) = IF place(p.seq) > place(rcv.curr) THEN place(p.seq) ELSE place(rcv.curr)
        /\ place(c) \in Int
    <3>1. rcv.curr \in SeqNos
      BY EndsTyped DEF Receiver
    <3>2. CASE place(p.seq) > place(rcv.curr)
      <4>1. c = p.seq
        BY <1>3, <2>1, <3>2
      <4> QED BY <1>3, <3>2, <4>1, EndPlaces
    <3>3. CASE ~(place(p.seq) > place(rcv.curr))
      <4>1. c = rcv.curr
        BY <1>3, <2>1, <3>3
      <4> QED BY <3>1, <3>3, <4>1, EndPlaces
    <3> QED BY <3>2, <3>3
  <2>4. /\ l \in SUBSET SeqNos
        /\ \A s \in SeqNos : s \in l <=>
             place(rcv.lastAck) <= place(s) /\ place(s) <= place(c) /\ s \notin Held \cup {p.seq}
    <3>1. ahead \in BOOLEAN /\ (ahead <=> place(p.seq) > place(rcv.curr) + 1)
      BY <1>3, <1>6
    <3> DEFINE last == place(c)
    <3> HIDE DEF ahead, l, c, new
    <3>2. last = IF place(p.seq) > place(rcv.curr) THEN place(p.seq) ELSE place(rcv.curr)
      BY <2>3
    <3>3. l = IF ahead THEN rcv.loss \cup Gap(p) ELSE rcv.loss \ {p.seq}
      BY <2>1
    <3>4. p \in net /\ p.type = "data" /\ p.seq \notin Held /\ place(rcv.lastAck) <= place(p.seq)
      BY <1>1, <2>1, <2>2
    <3> HIDE DEF last
    <3>5. /\ l \in SUBSET SeqNos
          /\ \A s \in SeqNos : s \in l <=>
               place(rcv.lastAck) <= place(s) /\ place(s) <= last /\ s \notin Held \cup {p.seq}
      BY <3>1, <3>2, <3>3, <3>4, LossesAfterData
    <3> QED BY <3>5 DEF last
  <2>5. /\ u \in [SeqNos -> 0 .. NData] /\ u[p.seq] = place(p.seq)
        /\ \A s \in SeqNos : s # p.seq => u[s] = rcv.unit[s]
    BY <1>3, <2>1, EndsTyped DEF Receiver
  <2>6. net' \subseteq (net \ {p}) \cup {q} /\ (~ahead => net' \subseteq net)
    BY <1>2
  <2>7. ahead => place(p.seq) > place(rcv.curr) + 1
    BY <1>3
  <2> HIDE DEF u, l, c, ahead, new, offset
  <2>8. /\ rcv' \in Receiver /\ rcv'.ready = rcv.ready /\ rcv'.st = rcv.st /\ rcv'.lastAck = rcv.lastAck
        /\ rcv'.lastAckAck = rcv.lastAckAck /\ rcv'.curr = c /\ rcv'.loss = l /\ rcv'.unit = u
    BY <1>2, <1>4, <2>3, <2>4, <2>5, EndsTyped DEF Receiver
  <2>9. Held' = Held \cup {p.seq}
    BY <1>3, <2>5, <2>8 DEF Held
  <2>10. ReceiverBuffer'
    <3>1. ASSUME NEW s \in Held \cup {p.seq}
          PROVE  place(rcv.lastAck) <= place(s) /\ place(s) <= place(c) /\ u[s] = place(s)
      <4>1. CASE s = p.seq
        BY <1>3, <2>2, <2>3, <2>5, <4>1, EndPlaces
      <4>2. CASE s # p.seq
        <5>1. s \in Held /\ s \in SeqNos
          BY <4>2 DEF Held
        <5>2. place(rcv.lastAck) <= place(s) /\ place(s) <= place(rcv.curr) /\ rcv.unit[s] = place(s)
          BY <5>1, EndsTyped DEF ReceiverBuffer
        <5>3. place(s) <= place(c)
          BY <2>3, <5>1, <5>2, EndPlaces, PlaceType, Bounds
        <5> QED BY <2>5, <4>2, <5>1, <5>2, <5>3
      <4> QED BY <4>1, <4>2
    <3>2. place(c) + 1 - place(rcv.lastAck) + Len(rcv.ready) < RcvBufSize
      BY <1>3, <2>2, <2>3, ReceiverPlaces
    <3>3. /\ 1 <= place(rcv.lastAckAck) /\ place(rcv.lastAckAck) <= place(rcv.lastAck)
          /\ place(rcv.lastAck) <= place(c) + 1
      BY <2>3, EndPlaces
    <3>4. \A s \in SeqNos : s \in l <=>
            place(rcv.lastAck) <= place(s) /\ place(s) <= place(c) /\ s \notin Held'
      BY <2>4, <2>9
    <3>5. \A s \in Held' : place(rcv.lastAck) <= place(s) /\ place(s) <= place(c) /\ u[s] = place(s)
      BY <2>9, <3>1
    <3> QED BY <2>8, <3>2, <3>3, <3>4, <3>5 DEF ReceiverBuffer
  <2>11. InOrder'
    BY <1>1, <2>8, OrderKept, StreamPlaces DEF StreamSame
  <2>12. MovesOn
    BY <1>1, <2>3, <2>8, EndPlaces DEF MovesOn
  <2>13. q \in Packet
    BY <1>3, PacketKinds
  <2>14. ahead => PacketTrue(q, place(snd'.curr), place(rcv'.lastAck), place(rcv'.curr))
    <3> SUFFICES ASSUME ahead PROVE PacketTrue(q, place(snd'.curr), place(rcv'.lastAck), place(rcv'.curr))
      OBVIOUS
    <3>1. place(c) = place(p.seq) /\ place(rcv.curr) \in Int /\ place(rcv.curr) >= 0
      BY <1>3, <2>3, <2>7, EndPlaces
    <3>2. /\ 1 <= place(incseq(rcv.curr)) /\ place(incseq(rcv.curr)) <= place(decseq(p.seq))
          /\ place(decseq(p.seq)) <= place(c)
      BY <1>3, <2>7, <3>1
    <3> QED BY <2>8, <3>2 DEF PacketTrue
  <2> HIDE DEF q
  <2>15. NetSmall
    BY <1>1, <2>6, <2>13, NetAnswered, EndsTyped
  <2>16. PacketsTrue'
    BY <2>6, <2>12, <2>14, PacketsAdded, PacketsKept
  <2>17. /\ place(rcv.lastAck) <= place(rcv'.lastAck) /\ place(rcv.curr) <= place(rcv'.curr)
         /\ place(rcv'.curr) <= place(snd.curr)
    BY <2>3, <2>8, EndPlaces
  <2> QED BY <1>1, <2>8, <2>10, <2>11, <2>15, <2>16, <2>17, ReceiverStep, EndsTyped, StreamPlaces
<1> QED BY <1>5, <1>6

\* The packets before the acknowledgement are all held, and become readable in their order.
LEMMA AckedPlaces ==
  ASSUME BuffersInStep, NEW k \in Nat, k = place(AckNo) - place(rcv.lastAck)
  PROVE  /\ Acked(k) \in Seq(1 .. NData) /\ Len(Acked(k)) = k
         /\ \A i \in 1 .. k : Acked(k)[i] = place(rcv.lastAck) + i - 1
<1>1. /\ rcv.lastAck \in SeqNos /\ AckNo \in SeqNos /\ place(AckNo) <= place(rcv.curr) + 1
      /\ \A s \in rcv.loss : place(AckNo) <= place(s)
  BY AckNoPlace, EndsTyped DEF Receiver
<1>2. ASSUME NEW i \in 1 .. k
      PROVE  /\ rcv.unit[incseqBy(rcv.lastAck, i - 1)] = place(rcv.lastAck) + i - 1
             /\ place(rcv.lastAck) + i - 1 \in 1 .. NData
  <2> DEFINE s == incseqBy(rcv.lastAck, i - 1)
             j == i - 1
  <2>1. place(rcv.lastAck) \in Int /\ place(rcv.curr) \in Int /\ place(AckNo) \in Int
    BY <1>1, EndPlaces, PlaceType, Bounds
  <2>2. j \in Nat /\ place(rcv.lastAck) + j <= place(rcv.curr) /\ place(rcv.lastAck) + j < place(AckNo)
    BY <1>1, <2>1
  <2>3. place(rcv.lastAck) + j \in 1 .. NData /\ place(rcv.lastAck) + j <= MaxSeqNo
    BY <2>2, EndPlaces, Bounds
  <2> HIDE DEF j
  <2>4. incseqBy(rcv.lastAck, j) \in SeqNos /\ place(incseqBy(rcv.lastAck, j)) = place(rcv.lastAck) + j
    BY <1>1, <2>2, <2>3, PlaceBy
  <2>5. s \in SeqNos /\ place(s) = place(rcv.lastAck) + j
    BY <2>4 DEF j
  <2> HIDE DEF s
  <2>6. s \notin rcv.loss
    BY <1>1, <2>1, <2>2, <2>5
  <2>7. s \in Held
    <3>1. place(rcv.lastAck) <= place(s) /\ place(s) <= place(rcv.curr)
      BY <2>1, <2>2, <2>5
    <3> QED BY <2>5, <2>6, <3>1, EndsTyped DEF ReceiverBuffer
  <2>8. rcv.unit[s] = place(s)
    BY <2>7, EndsTyped DEF ReceiverBuffer
  <2>9. place(rcv.lastAck) + j = place(rcv.lastAck) + i - 1
    BY <2>1 DEF j
  <2> QED BY <2>3, <2>5, <2>8, <2>9 DEF s
<1>3. Acked(k) = [i \in 1 .. k |-> rcv.unit[incseqBy(rcv.lastAck, i - 1)]]
  BY DEF Acked
<1>4. \A i \in 1 .. k : Acked(k)[i] = place(rcv.lastAck) + i - 1 /\ Acked(k)[i] \in 1 .. NData
  BY <1>2, <1>3
<1>5. Acked(k) \in Seq(1 .. NData) /\ Len(Acked(k)) = k
  <2>1. \A i \in 1 .. k : rcv.unit[incseqBy(rcv.lastAck, i - 1)] \in 1 .. NData
    BY <1>2
  <2>2. [i \in 1 .. k |-> rcv.unit[incseqBy(rcv.lastAck, i - 1)]] \in Seq(1 .. NData)
    BY ONLY <2>1, k \in Nat
  <2>3. Len([i \in 1 .. k |-> rcv.unit[incseqBy(rcv.lastAck, i - 1)]]) = k
    BY ONLY <2>1, k \in Nat
  <2> QED BY <1>3, <2>2, <2>3
<1> QED BY <1>4, <1>5

LEMMA AckTimerStep ==
  ASSUME BuffersInStep, AckTimer
  PROVE  BuffersInStep'
<1> DEFINE k == seqoff(rcv.lastAck, AckNo)
           d == Acked(k)
           ready == rcv.ready \o d
           w == Max({RcvBufSize - Len(ready) - 1, 2})
           q == [type |-> "ack", ack |-> AckNo, window |-> w]
           u == [s \in SeqNos |-> IF s \in Held /\ seqcmp(s, AckNo) >= 0 THEN rcv.unit[s] ELSE 0]
<1>1. /\ rcv.st # "closed" /\ Room /\ snd' = snd /\ sent' = sent /\ got' = got /\ lost' = lost /\ early' = early
      /\ net' \subseteq net \cup {q}
      /\ rcv' = [rcv EXCEPT !.lastAck = AckNo, !.ready = ready, !.fresh = FALSE, !.unit = u]
  BY DEF AckTimer, Listens
<1>2. /\ AckNo \in SeqNos /\ place(AckNo) \in 1 .. NData + 1
      /\ place(rcv.lastAck) <= place(AckNo) /\ place(AckNo) <= place(rcv.curr) + 1
      /\ \A s \in rcv.loss : place(AckNo) <= place(s)
      /\ rcv.lastAck \in SeqNos
  <2>1. place(AckNo) \in Int
    BY AckNoPlace, PlaceType, Bounds
  <2>2. rcv.lastAck \in SeqNos
    BY EndsTyped DEF Receiver
  <2>3. AckNo \in SeqNos /\ \A s \in rcv.loss : place(AckNo) <= place(s)
    BY AckNoPlace
  <2>4. place(rcv.lastAck) <= place(AckNo) /\ place(AckNo) <= place(rcv.curr) + 1
    BY AckNoPlace
  <2>5. place(AckNo) \in 1 .. NData + 1
    BY <2>1, <2>4, EndPlaces, Bounds
  <2> QED BY <2>2, <2>3, <2>4, <2>5
<1>3. k \in Nat /\ k = place(AckNo) - place(rcv.lastAck)
  <2>1. place(AckNo) - place(rcv.lastAck) < SeqNoTH /\ place(rcv.lastAck) - place(AckNo) < SeqNoTH
    BY <1>2, EndPlaces, Bounds
  <2>2. k = place(AckNo) - place(rcv.lastAck)
    BY <1>2, <2>1, PlaceCompare
  <2> QED BY <1>2, <2>2, EndPlaces
<1> HIDE DEF k
<1>4. /\ d \in Seq(1 .. NData) /\ Len(d) = k
      /\ \A i \in 1 .. k : d[i] = place(rcv.lastAck) + i - 1
  BY <1>3, AckedPlaces
<1> HIDE DEF d
<1>5. /\ ready \in Seq(1 .. NData) /\ Len(ready) = Len(rcv.ready) + k /\ Len(ready) \in Nat
      /\ \A i \in 1 .. Len(rcv.ready) + k :
           ready[i] = IF i <= Len(rcv.ready) THEN rcv.ready[i] ELSE d[i - Len(rcv.ready)]
  <2>1. rcv.ready \in Seq(1 .. NData) /\ Len(rcv.ready) \in Nat
    BY StreamPlaces
  <2>2. /\ ready \in Seq(1 .. NData) /\ Len(ready) = Len(rcv.ready) + Len(d)
        /\ \A i \in 1 .. Len(rcv.ready) + Len(d) :
             ready[i] = IF i <= Len(rcv.ready) THEN rcv.ready[i] ELSE d[i - Len(rcv.ready)]
    BY <1>4, <2>1, ConcatProperties
  <2> QED BY <1>3, <1>4, <2>1, <2>2
<1> HIDE DEF ready
<1>6. u \in [SeqNos -> 0 .. NData]
  BY EndsTyped, Bounds DEF Receiver
<1>7. ASSUME NEW s \in SeqNos
      PROVE  u[s] # 0 <=> s \in Held /\ place(AckNo) <= place(s)
  <2>1. s \in Held => (seqcmp(s, AckNo) >= 0 <=> place(AckNo) <= place(s))
    <3> SUFFICES ASSUME s \in Held PROVE seqcmp(s, AckNo) >= 0 <=> place(AckNo) <= place(s)
      OBVIOUS
    <3>1. place(rcv.lastAck) <= place(s) /\ place(s) <= place(rcv.curr) /\ place(s) \in Int
      BY EndsTyped, PlaceType, Bounds DEF ReceiverBuffer
    <3>2. place(s) - place(AckNo) < SeqNoTH /\ place(AckNo) - place(s) < SeqNoTH
      BY <1>2, <3>1, EndPlaces, Bounds
    <3>3. seqcmp(s, AckNo) >= 0 <=> place(s) >= place(AckNo)
      BY <1>2, <3>2, PlaceCompare
    <3> QED BY <1>2, <3>1, <3>3
  <2> QED BY <2>1 DEF Held
<1>8. \A s \in SeqNos : u[s] # 0 => u[s] = rcv.unit[s]
  OBVIOUS
<1> HIDE DEF u
<1>9. /\ rcv' \in Receiver /\ rcv'.ready = ready /\ rcv'.st = rcv.st /\ rcv'.lastAck = AckNo
      /\ rcv'.lastAckAck = rcv.lastAckAck /\ rcv'.curr = rcv.curr
      /\ rcv'.loss = rcv.loss /\ rcv'.unit = u
  BY <1>1, <1>2, <1>5, <1>6, EndsTyped DEF Receiver
<1>10. \A s \in SeqNos : s \in Held' <=> s \in Held /\ place(AckNo) <= place(s)
  BY <1>7, <1>9 DEF Held
<1>11. ReceiverBuffer'
  <2>1. \A s \in Held' : place(AckNo) <= place(s) /\ place(s) <= place(rcv.curr) /\ u[s] = place(s)
    <3> TAKE s \in Held'
    <3>1. s \in SeqNos /\ u[s] # 0
      BY <1>9 DEF Held
    <3>2. s \in Held /\ place(AckNo) <= place(s)
      BY <1>7, <3>1
    <3>3. place(s) <= place(rcv.curr) /\ rcv.unit[s] = place(s)
      BY <3>2, EndsTyped DEF ReceiverBuffer
    <3> QED BY <1>8, <3>1, <3>2, <3>3
  <2>2. ASSUME NEW s \in SeqNos
        PROVE  s \in rcv.loss <=> place(AckNo) <= place(s) /\ place(s) <= place(rcv.curr) /\ s \notin Held'
    <3>1. s \in rcv.loss <=> place(rcv.lastAck) <= place(s) /\ place(s) <= place(rcv.curr) /\ s \notin Held
      BY EndsTyped DEF ReceiverBuffer
    <3>2. place(s) \in Int
      BY PlaceType, Bounds
    <3> QED BY <1>2, <1>10, <3>1, <3>2, EndPlaces
  <2>3. /\ 1 <= place(rcv.lastAckAck) /\ place(rcv.lastAckAck) <= place(AckNo)
        /\ place(AckNo) <= place(rcv.curr) + 1
    BY <1>2, EndPlaces
  <2>4. place(rcv.curr) + 1 - place(AckNo) + Len(ready) < RcvBufSize
    <3> DEFINE n == Len(rcv.ready)
               m == Len(ready)
    <3>1. /\ m = n + k /\ n \in Nat /\ place(rcv.curr) + 1 - place(rcv.lastAck) + n < RcvBufSize
          /\ place(rcv.curr) \in Int /\ place(rcv.lastAck) \in Int /\ place(AckNo) \in Int
          /\ k = place(AckNo) - place(rcv.lastAck)
      BY <1>2, <1>3, <1>5, ReceiverPlaces, EndPlaces
    <3> HIDE DEF n, m
    <3>2. place(rcv.curr) + 1 - place(AckNo) + m < RcvBufSize
      BY ONLY <3>1, Bounds
    <3> QED BY <3>2 DEF m
  <2> QED BY <1>9, <2>1, <2>2, <2>3, <2>4 DEF ReceiverBuffer
<1>12. InOrder'
  <2>1. /\ \A i \in 1 .. Len(got) : got[i] = i
        /\ \A i \in 1 .. Len(rcv.ready) : rcv.ready[i] = Len(got) + i
        /\ Len(got) <= sent
    BY <1>1, EndsTyped DEF InOrder
  <2>2. /\ Len(got) + Len(rcv.ready) + 1 = place(rcv.lastAck) /\ Len(got) \in Nat /\ Len(rcv.ready) \in Nat
        /\ place(rcv.lastAck) \in Int /\ place(AckNo) \in Int
    BY <1>1, <1>2, StreamPlaces, EndPlaces
  <2> DEFINE g == Len(got)
             n == Len(rcv.ready)
             m == Len(ready)
  <2>3. g \in Nat /\ n \in Nat /\ g + n + 1 = place(rcv.lastAck) /\ m = n + k
    BY <1>5, <2>2
  <2> HIDE DEF g, n, m
  <2>4. g + m + 1 = place(AckNo)
    <3>1. place(rcv.lastAck) \in Int /\ place(AckNo) \in Int
      BY <2>2
    <3> QED BY ONLY <1>3, <2>3, <3>1
  <2>5. \A i \in 1 .. m : ready[i] = g + i
    <3> TAKE i \in 1 .. m
    <3>1. CASE i <= n
      <4>1. i \in 1 .. n /\ i \in 1 .. n + k
        BY <1>3, <2>3, <3>1
      <4>2. ready[i] = rcv.ready[i]
        BY <1>5, <3>1, <4>1 DEF n
      <4> QED BY <2>1, <4>1, <4>2 DEF g, n
    <3>2. CASE ~(i <= n)
      <4>1. i - n \in 1 .. k /\ i \in 1 .. n + k
        BY <1>3, <2>3, <3>2
      <4>2. ready[i] = d[i - n]
        BY <1>5, <3>2, <4>1 DEF n
      <4>3. d[i - n] = place(rcv.lastAck) + (i - n) - 1
        BY <1>4, <4>1
      <4> QED BY <2>2, <2>3, <4>2, <4>3
    <3> QED BY <3>1, <3>2
  <2> QED BY <1>1, <1>9, <2>1, <2>4, <2>5 DEF InOrder, g, m
<1>13. MovesOn
  BY <1>1, <1>2, <1>9, EndPlaces DEF MovesOn
<1>14. w \in 2 .. RcvBufSize + FlowWindow
  <2> DEFINE r == RcvBufSize - Len(ready) - 1
  <2>1. r \in Int /\ r <= RcvBufSize /\ RcvBufSize > 2
    BY <1>5, Bounds
  <2> HIDE DEF r
  <2>2. Max({r, 2}) \in {r, 2} /\ Max({r, 2}) >= 2
    <3>1. \E x \in {r, 2} : \A y \in {r, 2} : x >= y
      BY <2>1
    <3> QED BY <3>1 DEF Max
  <2>3. Max({r, 2}) \in 2 .. RcvBufSize + FlowWindow
    BY <2>1, <2>2, Bounds
  <2> QED BY <2>3 DEF r
<1> HIDE DEF w
<1>15. q \in Packet /\ PacketTrue(q, place(snd'.curr), place(rcv'.lastAck), place(rcv'.curr))
  BY <1>2, <1>9, <1>14, PacketKinds DEF PacketTrue
<1> HIDE DEF q
<1>16. NetSmall /\ PacketsTrue'
  BY <1>1, <1>13, <1>15, NetAdded, PacketsAdded, EndsTyped
<1>17. /\ place(rcv.lastAck) <= place(rcv'.lastAck) /\ place(rcv.curr) <= place(rcv'.curr)
       /\ place(rcv'.curr) <= place(snd.curr)
  BY <1>2, <1>9, EndPlaces
<1> QED BY <1>1, <1>9, <1>11, <1>12, <1>16, <1>17, ReceiverStep, EndsTyped, StreamPlaces

-----------------------------------------------------------------------------
(* Every step keeps the invariant. *)

LEMMA ProcessStep ==
  ASSUME BuffersInStep, NEW p \in net, Process(p)
  PROVE  BuffersInStep'
<1>1. CASE ProcessData(p)
  BY <1>1, ProcessDataStep
<1>2. CASE ProcessAck2(p)
  BY <1>2, ProcessAck2Step
<1>3. CASE ProcessLight(p)
  BY <1>3, ProcessLightStep
<1>4. CASE ProcessNak(p)
  BY <1>4, ProcessNakStep
<1>5. CASE \E confirm \in BOOLEAN : ProcessAck(p, confirm)
  BY <1>5, ProcessAckStep
<1>6. CASE ProcessAlive(p)
  BY <1>6, ProcessAliveStep
<1>7. CASE ProcessShutdown(p)
  BY <1>7, ProcessShutdownStep
<1>8. CASE Discard(p)
  BY <1>8, DiscardStep
<1> QED BY <1>1, <1>2, <1>3, <1>4, <1>5, <1>6, <1>7, <1>8 DEF Process

LEMMA NextInStep == BuffersInStep /\ [Next]_vars => BuffersInStep'
<1> SUFFICES ASSUME BuffersInStep, [Next]_vars PROVE BuffersInStep'
  OBVIOUS
<1>1. CASE Send \/ Recv \/ StartClose \/ Close \/ RcvClose
  BY <1>1, SendStep, RecvStep, StartCloseStep, CloseStep, RcvCloseStep
<1>2. CASE PackData
  BY <1>2, ResendStep, SendNewStep, IdleStep DEF PackData
<1>3. CASE \E p \in net : Process(p) \/ Lose(p)
  BY <1>3, ProcessStep, LoseStep
<1>4. CASE AckTimer \/ LightAck \/ NakTimer
  BY <1>4, AckTimerStep, LightAckStep, NakTimerStep
<1>5. CASE SndExp \/ RcvExp
  BY <1>5, SndExpStep, RcvExpStep
<1>6. CASE UNCHANGED vars
  <2>1. /\ snd' = snd /\ rcv' = rcv /\ net' = net /\ sent' = sent /\ got' = got
        /\ lost' = lost /\ early' = early
    BY <1>6 DEF vars
  <2>2. SenderSame /\ ReceiverSame /\ StreamSame
    BY <2>1 DEF SenderSame, ReceiverSame, StreamSame
  <2> QED BY <2>1, <2>2, StillFewer, EndsTyped
<1> QED BY <1>1, <1>2, <1>3, <1>4, <1>5, <1>6 DEF Next

\* Both buffers, the numbers of both ends and the packets between them agree, whatever is
\* lost, repeated and reordered and wherever the numbers wrap around: no report is taken
\* for an attack, what is read is what was sent, in its order, and a close that is over has
\* lost nothing (CUDT::processCtrl, processData, sendCtrl, packData, checkTimers, close).
THEOREM BuffersAgree == Spec => []BuffersInStep
<1> QED BY InitInStep, NextInStep, PTL DEF Spec

-----------------------------------------------------------------------------
(* The connection is a reliable stream. *)

\* An action that moves no data changes the state of one end at most, and no end comes back.
OneEnd ==
  /\ sent' = sent /\ got' = got
  /\ \/ snd'.st = snd.st \/ (snd'.st # "up" /\ rcv'.st = rcv.st)
  /\ \/ rcv'.st = rcv.st \/ (rcv'.st # "up" /\ snd'.st = snd.st)

LEMMA OneEndEnds ==
  ASSUME OneEnd
  PROVE  [Stream!Next]_(Stream!streamVars)
<1>1. CASE snd'.st = snd.st /\ rcv'.st = rcv.st
  BY <1>1 DEF OneEnd, Stream!streamVars
<1>2. CASE snd'.st # snd.st
  BY <1>2 DEF OneEnd, Stream!Next, Stream!SenderEnds, Stream!streamVars
<1>3. CASE rcv'.st # rcv.st
  BY <1>3 DEF OneEnd, Stream!Next, Stream!ReceiverEnds, Stream!streamVars
<1> QED BY <1>1, <1>2, <1>3

LEMMA ProcessOneEnd ==
  ASSUME BuffersInStep, NEW p \in net, Process(p)
  PROVE  OneEnd
<1>1. snd \in Sender /\ rcv \in Receiver
  BY EndsTyped
<1>2. CASE ProcessData(p)
  BY <1>1, <1>2 DEF ProcessData, OneEnd, Receiver
<1>3. CASE ProcessAck2(p)
  BY <1>1, <1>3 DEF ProcessAck2, OneEnd, Receiver
<1>4. CASE ProcessLight(p)
  BY <1>1, <1>4 DEF ProcessLight, OneEnd, Sender
<1>5. CASE ProcessNak(p)
  BY <1>1, <1>5 DEF ProcessNak, OneEnd, Sender
<1>6. ASSUME NEW confirm \in BOOLEAN, ProcessAck(p, confirm) PROVE OneEnd
  <2>1. snd'.st = snd.st \/ snd'.st = "attack"
    BY <1>1, <1>6 DEF ProcessAck, Acknowledge, Wake, Sender
  <2> QED BY <1>6, <2>1 DEF ProcessAck, OneEnd
<1>7. CASE ProcessAlive(p)
  BY <1>1, <1>7 DEF ProcessAlive, HeardAlive, OneEnd, Sender, Receiver
<1>8. CASE ProcessShutdown(p)
  BY <1>1, <1>8 DEF ProcessShutdown, OneEnd, Sender, Receiver
<1>9. CASE Discard(p)
  BY <1>9 DEF Discard, OneEnd
<1> QED BY <1>2, <1>3, <1>4, <1>5, <1>6, <1>7, <1>8, <1>9 DEF Process

\* A step of the connection is a step of the stream, or none of it.
LEMMA StepIsStream ==
  ASSUME BuffersInStep, [Next]_vars
  PROVE  [Stream!Next]_(Stream!streamVars)
<1>1. snd \in Sender /\ rcv \in Receiver
  BY EndsTyped
<1>2. CASE Send
  <2>1. snd'.st = snd.st /\ snd.st = "up" /\ rcv' = rcv /\ sent' = sent + 1 /\ got' = got
    BY <1>1, <1>2 DEF Send, Sender
  <2> QED BY <2>1 DEF Stream!Next, Stream!Send
<1>3. CASE Recv
  <2>1. rcv'.st = rcv.st /\ snd' = snd /\ sent' = sent /\ got' = Append(got, Head(rcv.ready))
    BY <1>1, <1>3 DEF Recv, Receiver
  <2>2. rcv.st # "closed" /\ rcv.ready # <<>>
    BY <1>3 DEF Recv
  <2>3. Len(rcv.ready) \in Nat /\ Len(rcv.ready) >= 1 /\ rcv.ready \in Seq(1 .. NData)
    BY <2>2, StreamPlaces
  <2>4. Len(got) < sent
    <3> DEFINE n == Len(rcv.ready)
               g == Len(got)
    <3>1. n \in Nat /\ n >= 1 /\ g \in Nat /\ g + n <= sent /\ sent \in Nat
      BY <2>2, <2>3, StreamPlaces
    <3> HIDE DEF n, g
    <3>2. g < sent
      BY <3>1
    <3> QED BY <3>2 DEF g
  <2>5. Head(rcv.ready) = Len(got) + 1
    <3>1. rcv.ready[1] = Len(got) + 1
      BY <2>2, <2>3, EndsTyped DEF InOrder
    <3>2. Head(rcv.ready) = rcv.ready[1]
      BY <2>2, <2>3
    <3> QED BY <3>1, <3>2
  <2> QED BY <2>1, <2>4, <2>5 DEF Stream!Next, Stream!Receive
<1>4. CASE StartClose \/ Close \/ RcvClose
  BY <1>1, <1>4, OneEndEnds DEF StartClose, Close, RcvClose, OneEnd, Sender, Receiver
<1>5. CASE PackData
  BY <1>1, <1>5, OneEndEnds DEF PackData, Resend, SendNew, Idle, OneEnd, Sender
<1>6. CASE \E p \in net : Process(p) \/ Lose(p)
  <2>1. \A p : Lose(p) => OneEnd
    BY DEF Lose, OneEnd
  <2> QED BY <1>6, <2>1, ProcessOneEnd, OneEndEnds
<1>7. CASE AckTimer \/ LightAck \/ NakTimer
  BY <1>1, <1>7, OneEndEnds DEF AckTimer, LightAck, NakTimer, OneEnd, Receiver
<1>8. CASE SndExp
  <2>1. rcv' = rcv /\ sent' = sent /\ got' = got /\ (snd'.st = snd.st \/ snd'.st = "broken")
    BY <1>1, <1>8 DEF SndExp, Sender
  <2> QED BY <2>1, OneEndEnds DEF OneEnd
<1>9. CASE RcvExp
  <2>1. snd' = snd /\ sent' = sent /\ got' = got /\ (rcv'.st = rcv.st \/ rcv'.st = "broken")
    BY <1>1, <1>9 DEF RcvExp, Receiver
  <2> QED BY <2>1, OneEndEnds DEF OneEnd
<1>10. CASE UNCHANGED vars
  BY <1>10, OneEndEnds DEF vars, OneEnd
<1> QED BY <1>2, <1>3, <1>4, <1>5, <1>6, <1>7, <1>8, <1>9, <1>10 DEF Next

\* A UDT connection is the reliable stream of ReliableStream: recv returns what was given
\* to send, in its order and each piece once.
THEOREM ConnectionIsStream == Spec => ImplementsReliableStream
<1>1. Init => Stream!Init
  BY DEF Init, Stream!Init
<1>2. BuffersInStep /\ [Next]_vars => [Stream!Next]_(Stream!streamVars)
  BY StepIsStream
<1> QED BY <1>1, <1>2, BuffersAgree, PTL DEF Spec, ImplementsReliableStream, Stream!Spec
=============================================================================
