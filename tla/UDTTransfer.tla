------------------------------ MODULE UDTTransfer ------------------------------
(***************************************************************************)
(* Data that go one way through a connected UDT socket pair (core.cpp),    *)
(* over a network that loses and reorders packets.  The sender keeps what  *)
(* is not acknowledged, sends again what it is told is lost, and what is   *)
(* not acknowledged for long; the receiver acknowledges, and names losses. *)
(* Either end may close, and gives up a peer that is silent for too long.  *)
(*                                                                         *)
(* The threads of a multiplexer are the actions PackData (send queue) and  *)
(* Process... and the timers (receive queue); Send, Recv and Close are     *)
(* calls of the program.                                                   *)
(***************************************************************************)
EXTENDS UDTSeqNo, Sequences, FiniteSets, FiniteSetsExt

CONSTANTS NData,        \* pieces of data, each of the size of a packet
          ISN,          \* the initial sequence number
          SndBufSize, RcvBufSize,
          FlowWindow,   \* the window of the handshake
          ExpLimit,     \* expirations after which a peer is given up (16, and 30 s, in the code)
          MaxLoss,      \* packets that the network loses
          MaxEarly,     \* expirations while packets are still on their way
          MaxNet        \* packets that are on their way at a time

ASSUME TransferAssumption ==
  /\ ISN \in SeqNos
  /\ {NData, SndBufSize, RcvBufSize, FlowWindow, ExpLimit, MaxLoss, MaxEarly, MaxNet} \subseteq Nat
  /\ NData < SeqNoTH /\ RcvBufSize > 2

VARIABLES
  snd,     \* the sending end
  rcv,     \* the receiving end
  net,     \* the packets on their way
  sent,    \* how many pieces were given to send
  got,     \* what recv has returned
  lost, early

vars == <<snd, rcv, net, sent, got, lost, early>>

\* A close that has not waited for the acknowledgements ends in "cut".
States == {"up", "linger", "broken", "attack", "closed", "cut"}

Packet ==
       [type : {"data"}, seq : SeqNos, data : 1 .. NData]
  \cup [type : {"ack"}, ack : SeqNos, window : 2 .. RcvBufSize + FlowWindow]
  \cup [type : {"light", "ack2"}, ack : SeqNos]
  \cup [type : {"nak"}, from : SeqNos, to : SeqNos]
  \cup [type : {"alive", "shutdown"}, to : {"snd", "rcv"}]

\* A packet that the receiver holds is in the unit of its number; 0 is an empty unit.
NoUnits == [s \in SeqNos |-> 0]

Sender ==
  [lastAck : SeqNos, lastDataAck : SeqNos, curr : SeqNos, loss : SUBSET SeqNos, window : Int,
   buf : Seq(1 .. NData), next : Nat, sched : BOOLEAN, exp : 1 .. ExpLimit + 1, st : States]

Receiver ==
  [lastAck : SeqNos, lastAckAck : SeqNos, curr : SeqNos, loss : SUBSET SeqNos,
   unit : [SeqNos -> 0 .. NData], ready : Seq(1 .. NData), fresh : BOOLEAN,
   exp : 1 .. ExpLimit + 1, st : States]

TypeOK ==
  /\ snd \in Sender /\ Len(snd.buf) <= SndBufSize
  /\ rcv \in Receiver
  /\ net \subseteq Packet /\ IsFiniteSet(net) /\ Cardinality(net) <= MaxNet + 1
  /\ sent \in 0 .. NData /\ got \in Seq(1 .. NData)
  /\ lost \in 0 .. MaxLoss /\ early \in 0 .. MaxEarly

Init ==
  /\ snd = [lastAck |-> ISN, lastDataAck |-> ISN, curr |-> decseq(ISN), loss |-> {},
            window |-> FlowWindow, buf |-> <<>>, next |-> 0, sched |-> FALSE, exp |-> 1, st |-> "up"]
  /\ rcv = [lastAck |-> ISN, lastAckAck |-> ISN, curr |-> decseq(ISN), loss |-> {},
            unit |-> NoUnits, ready |-> <<>>, fresh |-> FALSE, exp |-> 1, st |-> "up"]
  /\ net = {} /\ sent = 0 /\ got = <<>> /\ lost = 0 /\ early = 0

ToSender(p) == p.type \in {"ack", "light", "nak"} \/ (p.type \in {"alive", "shutdown"} /\ p.to = "snd")

\* The network takes no more packets for now.
Room == Cardinality(net) < MaxNet

\* The receive queue hands packets to a socket that is connected, and neither
\* broken nor closing.  One that lingers still takes them.
Listens(end) == end.st \in {"up", "linger"}

-----------------------------------------------------------------------------
(* The program. *)

Send ==
  /\ snd.st = "up"
  /\ sent < NData
  /\ Len(snd.buf) < SndBufSize
  /\ snd' = [snd EXCEPT !.buf = Append(@, sent + 1), !.sched = TRUE]
  /\ sent' = sent + 1
  /\ UNCHANGED <<rcv, net, got, lost, early>>

Recv ==
  /\ rcv.st \in {"up", "broken", "attack"}
  /\ rcv.ready # <<>>
  /\ rcv' = [rcv EXCEPT !.ready = Tail(@)]
  /\ got' = Append(got, Head(rcv.ready))
  /\ UNCHANGED <<snd, net, sent, lost, early>>

StartClose ==
  /\ snd.st = "up"
  /\ snd' = [snd EXCEPT !.st = "linger"]
  /\ UNCHANGED <<rcv, net, sent, got, lost, early>>

\* A close that waits for the packets to be sent only.
AllSent == snd.next = Len(snd.buf)

\* The close of the sender lingers until all data are acknowledged.
Lingered == snd.buf = <<>>

\* It lingers for three minutes at most, in which the receiver may leave data unread and the
\* window shut.  The shutdown is sent once.
Close ==
  /\ snd.st = "linger" /\ Room
  /\ snd' = [snd EXCEPT !.st = IF Lingered THEN "closed" ELSE "cut"]
  /\ net' = net \cup {[type |-> "shutdown", to |-> "rcv"]}
  /\ UNCHANGED <<rcv, sent, got, lost, early>>

RcvClose ==
  /\ rcv.st = "up" /\ Room
  /\ rcv' = [rcv EXCEPT !.st = "closed", !.ready = <<>>]
  /\ net' = net \cup {[type |-> "shutdown", to |-> "snd"]}
  /\ UNCHANGED <<snd, sent, got, lost, early>>

-----------------------------------------------------------------------------
(* The send queue: packData for a socket that is on its list. *)

\* A lost packet goes first, the one that was sent first.
FirstLost == CHOOSE s \in snd.loss : \A t \in snd.loss : seqcmp(s, t) <= 0

\* The number of the first packet in the buffer: light acknowledgements free nothing.
BufferStart == snd.lastDataAck

Resend ==
  /\ Listens(snd) /\ snd.sched /\ Room
  /\ snd.loss # {}
  /\ LET offset == seqoff(BufferStart, FirstLost) IN
       /\ snd' = [snd EXCEPT !.loss = @ \ {FirstLost}, !.sched = offset >= 0]
       /\ net' = IF offset >= 0
                 THEN net \cup {[type |-> "data", seq |-> FirstLost, data |-> snd.buf[offset + 1]]}
                 ELSE net
  /\ UNCHANGED <<rcv, sent, got, lost, early>>

WindowOpen == snd.window >= seqlen(snd.lastAck, incseq(snd.curr))

SendNew ==
  /\ Listens(snd) /\ snd.sched /\ Room
  /\ snd.loss = {}
  /\ WindowOpen /\ snd.next < Len(snd.buf)
  /\ snd' = [snd EXCEPT !.curr = incseq(@), !.next = @ + 1]
  /\ net' = net \cup {[type |-> "data", seq |-> incseq(snd.curr), data |-> snd.buf[snd.next + 1]]}
  /\ UNCHANGED <<rcv, sent, got, lost, early>>

\* Nothing to send: the socket leaves the list.
Idle ==
  /\ Listens(snd) /\ snd.sched
  /\ snd.loss = {}
  /\ ~WindowOpen \/ snd.next = Len(snd.buf)
  /\ snd' = [snd EXCEPT !.sched = FALSE]
  /\ UNCHANGED <<rcv, net, sent, got, lost, early>>

PackData == Resend \/ SendNew \/ Idle

-----------------------------------------------------------------------------
(* The receive queue of the receiver. *)

\* getAvailBufSize
Avail == RcvBufSize - Len(rcv.ready) - 1

Held == {s \in SeqNos : rcv.unit[s] # 0}   \* the packets in the buffer that are not acknowledged

\* The losses that a packet shows.
Gap(p) == Between(incseq(rcv.curr), decseq(p.seq))

ProcessData(p) ==
  /\ p \in net /\ p.type = "data"
  /\ Listens(rcv)
  /\ LET offset == seqoff(rcv.lastAck, p.seq)
         new == offset \in 0 .. Avail - 1 /\ p.seq \notin Held
         ahead == new /\ seqcmp(p.seq, incseq(rcv.curr)) > 0
     IN /\ rcv' = [rcv EXCEPT
             !.exp = 1, !.fresh = TRUE,
             !.unit = IF new THEN [@ EXCEPT ![p.seq] = p.data] ELSE @,
             !.loss = IF ~new THEN @ ELSE IF ahead THEN @ \cup Gap(p) ELSE @ \ {p.seq},
             !.curr = IF new /\ seqcmp(p.seq, @) > 0 THEN p.seq ELSE @]
        /\ net' = (net \ {p}) \cup
             (IF ahead THEN {[type |-> "nak", from |-> incseq(rcv.curr), to |-> decseq(p.seq)]} ELSE {})
  /\ UNCHANGED <<snd, sent, got, lost, early>>

\* Up to the last packet that came.
AckBeyondLosses == incseq(rcv.curr)

\* The acknowledgement: up to the first loss.
AckNo ==
  IF rcv.loss = {} THEN incseq(rcv.curr)
  ELSE CHOOSE s \in rcv.loss : \A t \in rcv.loss : seqcmp(s, t) <= 0

\* The data that become readable.
Acked(k) == [i \in 1 .. k |-> rcv.unit[incseqBy(rcv.lastAck, i - 1)]]

\* A full acknowledgement, with the room of the buffer, at least 2.  It is sent
\* again, after a time, while the sender has not confirmed it.
AckTimer ==
  /\ Listens(rcv) /\ Room
  /\ AckNo # rcv.lastAckAck
  /\ seqcmp(AckNo, rcv.lastAck) >= 0
  /\ LET k == seqoff(rcv.lastAck, AckNo)
         ready == rcv.ready \o Acked(k)
         room == RcvBufSize - Len(ready) - 1
     IN /\ rcv' = [rcv EXCEPT
             !.lastAck = AckNo, !.ready = ready, !.fresh = FALSE,
             !.unit = [s \in SeqNos |-> IF s \in Held /\ seqcmp(s, AckNo) >= 0 THEN @[s] ELSE 0]]
        /\ net' = IF seqcmp(AckNo, rcv.lastAckAck) > 0
                  THEN net \cup {[type |-> "ack", ack |-> AckNo, window |-> Max({room, 2})]}
                  ELSE net
  /\ UNCHANGED <<snd, sent, got, lost, early>>

\* After every 64 packets, a light one, that frees nothing.
LightAck ==
  /\ Listens(rcv) /\ Room
  /\ rcv.fresh
  /\ AckNo # rcv.lastAckAck
  /\ rcv' = [rcv EXCEPT !.fresh = FALSE]
  /\ net' = net \cup {[type |-> "light", ack |-> AckNo]}
  /\ UNCHANGED <<snd, sent, got, lost, early>>

\* The losses are named again, range by range.
NakTimer ==
  /\ Listens(rcv) /\ Room
  /\ \E s, t \in rcv.loss :
       /\ seqcmp(s, t) <= 0 /\ Between(s, t) \subseteq rcv.loss
       /\ decseq(s) \notin rcv.loss /\ incseq(t) \notin rcv.loss
       /\ net' = net \cup {[type |-> "nak", from |-> s, to |-> t]}
  /\ UNCHANGED <<snd, rcv, sent, got, lost, early>>

ProcessAck2(p) ==
  /\ p \in net /\ p.type = "ack2"
  /\ Listens(rcv)
  /\ rcv' = [rcv EXCEPT !.exp = 1, !.lastAckAck = IF seqcmp(p.ack, @) > 0 THEN p.ack ELSE @]
  /\ net' = net \ {p}
  /\ UNCHANGED <<snd, sent, got, lost, early>>

-----------------------------------------------------------------------------
(* The receive queue of the sender. *)

\* A light acknowledgement moves the window.
ProcessLight(p) ==
  /\ p \in net /\ p.type = "light"
  /\ Listens(snd)
  /\ snd' = IF seqcmp(p.ack, snd.lastAck) >= 0
            THEN [snd EXCEPT !.exp = 1, !.window = @ - seqoff(snd.lastAck, p.ack), !.lastAck = p.ack]
            ELSE [snd EXCEPT !.exp = 1]
  /\ net' = net \ {p}
  /\ UNCHANGED <<rcv, sent, got, lost, early>>

\* m_pSndUList->update
Wake(s) == [s EXCEPT !.sched = TRUE]

\* What a full acknowledgement does to the sender.
Acknowledge(ack, window) ==
  LET ahead == seqcmp(ack, snd.lastAck) >= 0
      heard == [snd EXCEPT !.exp = 1,
                        !.window = IF ahead THEN window ELSE @,
                        !.lastAck = IF ahead THEN ack ELSE @]
      offset == seqoff(snd.lastDataAck, ack)
  IN IF offset <= 0 THEN heard
     ELSE Wake([heard EXCEPT !.buf = SubSeq(@, offset + 1, Len(@)), !.next = @ - offset,
                          !.lastDataAck = ack,
                          !.loss = {s \in @ : seqcmp(s, ack) >= 0}])

\* It is confirmed, unless another one was a moment ago.
ProcessAck(p, confirm) ==
  /\ p \in net /\ p.type = "ack"
  /\ Listens(snd)
  /\ snd' = IF seqcmp(p.ack, incseq(snd.curr)) > 0
            THEN [snd EXCEPT !.st = "attack"]
            ELSE Acknowledge(p.ack, p.window)
  /\ net' = (net \ {p}) \cup (IF confirm THEN {[type |-> "ack2", ack |-> p.ack]} ELSE {})
  /\ UNCHANGED <<rcv, sent, got, lost, early>>

\* The part of a report of losses that is not acknowledged.
Lost(p) == {s \in Between(p.from, p.to) : seqcmp(s, snd.lastAck) >= 0}

ProcessNak(p) ==
  /\ p \in net /\ p.type = "nak"
  /\ Listens(snd)
  /\ snd' = IF seqcmp(p.from, p.to) > 0 \/ seqcmp(p.to, snd.curr) > 0
            THEN [snd EXCEPT !.st = "attack"]
            ELSE [snd EXCEPT !.exp = 1, !.loss = @ \cup Lost(p), !.sched = TRUE]
  /\ net' = net \ {p}
  /\ UNCHANGED <<rcv, sent, got, lost, early>>

-----------------------------------------------------------------------------
(* Both. *)

\* A keep-alive packet that changes nothing.
HeardNothing(end) == end

\* The only use of a keep-alive packet.
HeardAlive(end) == [end EXCEPT !.exp = 1]

ProcessAlive(p) ==
  /\ p \in net /\ p.type = "alive"
  /\ IF p.to = "snd" THEN Listens(snd) /\ snd' = HeardAlive(snd) /\ UNCHANGED rcv
                     ELSE Listens(rcv) /\ rcv' = HeardAlive(rcv) /\ UNCHANGED snd
  /\ net' = net \ {p}
  /\ UNCHANGED <<sent, got, lost, early>>

ProcessShutdown(p) ==
  /\ p \in net /\ p.type = "shutdown"
  /\ IF p.to = "snd" THEN Listens(snd) /\ snd' = [snd EXCEPT !.st = "broken"] /\ UNCHANGED rcv
                     ELSE Listens(rcv) /\ rcv' = [rcv EXCEPT !.st = "broken"] /\ UNCHANGED snd
  /\ net' = net \ {p}
  /\ UNCHANGED <<sent, got, lost, early>>

\* A packet for a socket that does not listen any more.
Discard(p) ==
  /\ p \in net
  /\ IF ToSender(p) THEN ~Listens(snd) ELSE ~Listens(rcv)
  /\ net' = net \ {p}
  /\ UNCHANGED <<snd, rcv, sent, got, lost, early>>

Lose(p) ==
  /\ p \in net
  /\ lost < MaxLoss
  /\ lost' = lost + 1
  /\ net' = net \ {p}
  /\ UNCHANGED <<snd, rcv, sent, got, early>>

\* Nothing is on its way, and no shorter timer runs whose packet may be answered.
Quiet ==
  /\ \A p \in net : IF ToSender(p) THEN ~Listens(snd) ELSE ~Listens(rcv)
  /\ Listens(snd) => ~snd.sched
  /\ Listens(rcv) /\ Listens(snd) => AckNo = rcv.lastAckAck /\ rcv.loss = {}

\* An expiration comes when nothing has been heard for long, compared with the
\* other timers and the way of a packet, but for a few early ones.  The time
\* grows with the number of expirations.
Expires(end, peer) ==
  IF Quiet /\ (Listens(peer) => end.exp <= peer.exp)
  THEN UNCHANGED early
  ELSE early < MaxEarly /\ early' = early + 1

\* Nothing is taken for lost.
UnackedNever == FALSE

Unacked == incseq(snd.curr) # snd.lastAck

\* What is not acknowledged is taken for lost, or the peer is told that we live.
SndExp ==
  /\ Listens(snd) /\ Room
  /\ Expires(snd, rcv)
  /\ IF snd.exp > ExpLimit
     THEN snd' = [snd EXCEPT !.st = "broken"] /\ UNCHANGED net
     ELSE /\ snd' = [snd EXCEPT !.exp = @ + 1,
                                !.loss = IF Unacked THEN @ \cup Between(snd.lastAck, snd.curr) ELSE @,
                                !.sched = @ \/ snd.buf # <<>>]
          /\ net' = IF Unacked THEN net ELSE net \cup {[type |-> "alive", to |-> "rcv"]}
  /\ UNCHANGED <<rcv, sent, got, lost>>

\* An end that never gives its peer up.
RcvExpForEver == FALSE

GivesUp == rcv.exp > ExpLimit

RcvExp ==
  /\ Listens(rcv) /\ Room
  /\ Expires(rcv, snd)
  /\ IF GivesUp
     THEN rcv' = [rcv EXCEPT !.st = "broken"] /\ UNCHANGED net
     ELSE /\ rcv' = [rcv EXCEPT !.exp = IF @ > ExpLimit THEN @ ELSE @ + 1]
          /\ net' = net \cup {[type |-> "alive", to |-> "snd"]}
  /\ UNCHANGED <<snd, sent, got, lost>>

-----------------------------------------------------------------------------
Process(p) ==
  \/ ProcessData(p) \/ ProcessAck2(p) \/ ProcessLight(p) \/ ProcessNak(p)
  \/ \E confirm \in BOOLEAN : ProcessAck(p, confirm)
  \/ ProcessAlive(p) \/ ProcessShutdown(p) \/ Discard(p)

Next ==
  \/ Send \/ Recv \/ StartClose \/ Close \/ RcvClose
  \/ PackData
  \/ \E p \in net : Process(p) \/ Lose(p)
  \/ AckTimer \/ LightAck \/ NakTimer
  \/ SndExp \/ RcvExp

Spec == Init /\ [][Next]_vars

\* The threads of the multiplexer run, its timers expire, and a packet that is
\* sent again and again comes through, as do its confirmations.
Fairness ==
  /\ WF_vars(PackData) /\ WF_vars(Recv) /\ WF_vars(Close)
  /\ WF_vars(NakTimer) /\ SF_vars(AckTimer) /\ SF_vars(SndExp) /\ SF_vars(RcvExp)
  /\ \A k \in 1 .. NData : WF_vars(\E p \in net : p.type = "data" /\ p.data = k /\ Process(p))
  /\ \A t \in {"ack", "light", "ack2", "nak", "alive", "shutdown"} :
       WF_vars(\E p \in net : p.type = t /\ Process(p))
  /\ SF_vars(\E p \in net : ProcessAck(p, TRUE)) /\ SF_vars(\E p \in net : ProcessAck2(p))

FairSpec == Spec /\ Fairness

-----------------------------------------------------------------------------
(* Properties. *)

\* Where a sequence number stands in the stream: the n-th piece of data has place n.
place(s) ==
  IF s = decseq(ISN) THEN 0
  ELSE IF s >= ISN THEN s - ISN + 1 ELSE s - ISN + MaxSeqNo + 2

\* The buffer of the sender is what its numbers say: from the first piece that is not
\* acknowledged to the last that was sent, and then what is not sent; what is to be sent
\* again is in it.
SenderBuffer ==
  LET first == place(snd.lastDataAck)
      last == place(snd.curr)
  IN /\ 1 <= first /\ first <= place(snd.lastAck) /\ place(snd.lastAck) <= last + 1
     /\ snd.next = last + 1 - first /\ snd.next <= Len(snd.buf)
     /\ first + Len(snd.buf) = sent + 1
     /\ \A i \in 1 .. Len(snd.buf) : snd.buf[i] = first + i - 1
     /\ \A s \in snd.loss : first <= place(s) /\ place(s) <= last

\* The receiver holds packets in their units and has room to make them all readable, and
\* it knows what it lacks: all that it has not got of the numbers it has heard of.
ReceiverBuffer ==
  LET first == place(rcv.lastAck)
      last == place(rcv.curr)
  IN /\ 1 <= place(rcv.lastAckAck) /\ place(rcv.lastAckAck) <= first /\ first <= last + 1
     /\ \A s \in Held : first <= place(s) /\ place(s) <= last /\ rcv.unit[s] = place(s)
     /\ \A s \in SeqNos : s \in rcv.loss <=> first <= place(s) /\ place(s) <= last /\ s \notin Held
     /\ last + 1 - first + Len(rcv.ready) < RcvBufSize

\* Neither end is ahead of the other: the receiver has heard of nothing that was not sent,
\* and the sender of nothing that was not received.
EndsInStep ==
  /\ place(rcv.curr) <= place(snd.curr)
  /\ place(snd.lastDataAck) <= place(rcv.lastAck)
  /\ place(snd.lastAck) <= place(rcv.curr) + 1

\* What a packet says is true, however late it comes, when the sender is at the place
\* "last", and the receiver has acknowledged what is before "acked" and heard of "heard".
PacketTrue(p, last, acked, heard) ==
  /\ p.type = "data" => 1 <= place(p.seq) /\ place(p.seq) <= last /\ p.data = place(p.seq)
  /\ p.type \in {"ack", "ack2"} => 1 <= place(p.ack) /\ place(p.ack) <= acked
  /\ p.type = "light" => 1 <= place(p.ack) /\ place(p.ack) <= heard + 1
  /\ p.type = "nak" => 1 <= place(p.from) /\ place(p.from) <= place(p.to) /\ place(p.to) <= heard

PacketsTrue == \A p \in net : PacketTrue(p, place(snd.curr), place(rcv.lastAck), place(rcv.curr))

\* What was read, and may be read, is the stream up to the acknowledgement of the receiver.
InOrder ==
  /\ \A i \in 1 .. Len(got) : got[i] = i
  /\ Len(got) <= sent
  /\ IF rcv.st = "closed" THEN rcv.ready = <<>>
     ELSE /\ Len(got) + Len(rcv.ready) + 1 = place(rcv.lastAck)
          /\ \A i \in 1 .. Len(rcv.ready) : rcv.ready[i] = Len(got) + i

\* What a peer sends is never taken for an attack, whatever was lost, repeated
\* or reordered and wherever the numbers wrap around.
NeverTakenForAttack == snd.st # "attack"

\* When the close of the sender has lingered to the end, all it sent has come to the
\* receiver and may be read, even after the receiver learns of the end.
CloseLosesNothing ==
  snd.st = "closed" =>
    /\ snd.buf = <<>>
    /\ rcv.st # "closed" => Len(got) + Len(rcv.ready) = sent

\* The buffers and the numbers of both ends, and the packets between them, agree.
BuffersInStep ==
  /\ TypeOK
  /\ SenderBuffer /\ ReceiverBuffer /\ EndsInStep /\ PacketsTrue
  /\ InOrder /\ NeverTakenForAttack /\ CloseLosesNothing

Stream == INSTANCE ReliableStream WITH
  sent <- sent, got <- got, sndUp <- snd.st = "up", rcvUp <- rcv.st = "up"

\* A UDT connection implements a reliable stream.
ImplementsReliableStream == Stream!Spec

\* That does not hold of a close whose linger times out.
EveryCloseLosesNothing ==
  snd.st \in {"closed", "cut"} /\ rcv.st # "closed" => Len(got) + Len(rcv.ready) = sent

\* What was sent is received, unless the receiver closes or the linger of the sender times
\* out: neither a lost packet nor a socket that has left the list of the send queue stops
\* the rest.
Delivered == []<>(Len(got) = sent \/ rcv.st = "closed" \/ snd.st = "cut")

\* An end whose peer is gone learns of it, although the shutdown may be lost.
PeerNoticed == []<>(Listens(snd) = Listens(rcv))

\* An end does not give up a peer that lives for the few packets that are lost.
NoneGivenUp ==
  [][/\ snd.st # "broken" /\ snd'.st = "broken" => rcv.st # "up"
     /\ rcv.st # "broken" /\ rcv'.st = "broken" => ~Listens(snd)]_vars
=============================================================================
