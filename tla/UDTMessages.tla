------------------------------- MODULE UDTMessages -------------------------------
(***************************************************************************)
(* UDT in its message mode (the buffers of buffer.cpp, with sendmsg,       *)
(* recvmsg, packData, processData and the drop request of core.cpp).  The  *)
(* sender cuts messages into blocks; the receiver puts packets at their    *)
(* places of a circular buffer and hands out whole messages, some of them  *)
(* before what was sent earlier has come; a message may expire.            *)
(*                                                                         *)
(* Acknowledgements and loss reports are read off the receiver at any      *)
(* later time (UDTTransfer has them as packets), and sequence numbers do   *)
(* not wrap.                                                               *)
(***************************************************************************)
EXTENDS MessageStream, FiniteSets, FiniteSetsExt

CONSTANTS SndSize,  \* of the sender's buffer, in blocks
          Size,     \* of the receiver's buffer
          MaxNet    \* packets that are on their way at a time

VARIABLES
  snd,   \* the sender: its blocks and its sequence numbers
  net,   \* the packets on their way
  rcv,   \* the receiver: its buffer and its sequence numbers
  cut    \* the sequence numbers that the sender has told the receiver to drop

vars == <<snd, net, rcv, got, cut>>

Places == 0 .. Size - 1
Free == [flag |-> 0]

Init ==
  /\ snd = [blocks |-> <<>>, first |-> 0, cur |-> 0, curr |-> -1, ack |-> 0, lost |-> {}, window |-> Size - 1]
  /\ net = {}
  /\ rcv = [unit |-> [i \in Places |-> Free], start |-> 0, ackpos |-> 0, max |-> -1,
            ack |-> 0, curr |-> -1, lost |-> {}]
  /\ got = <<>> /\ cut = {}

-----------------------------------------------------------------------------
(* The sender. *)

Sent == IF snd.blocks = <<>> THEN 0 ELSE snd.blocks[Len(snd.blocks)].msg

\* sendmsg waits for place; addBuffer cuts the message into blocks.
sendmsg ==
  LET m == Sent + 1 IN
    /\ m \in DOMAIN Msgs
    /\ Len(snd.blocks) - snd.first + Msgs[m].len <= SndSize
    /\ snd' = [snd EXCEPT !.blocks = @ \o [k \in 1 .. Msgs[m].len |-> Block(m, k)]]
    /\ UNCHANGED <<net, rcv, got, cut>>

Packet(seq, b) == [seq |-> seq, blk |-> b]

Transmit(p) == Cardinality(net) < MaxNet /\ net' = net \cup {p}

\* A new packet, when nothing is lost and the window is open.
SendNew ==
  /\ snd.lost = {} /\ snd.cur < Len(snd.blocks)
  /\ snd.window >= snd.curr + 2 - snd.ack
  /\ Transmit(Packet(snd.curr + 1, snd.blocks[snd.cur + 1]))
  /\ snd' = [snd EXCEPT !.cur = @ + 1, !.curr = @ + 1]
  /\ UNCHANGED <<rcv, got, cut>>

\* The block of a number that was lost; behind the last one is what was never written.
LostBlock == snd.first + Min(snd.lost) - snd.ack + 1

Resend ==
  /\ snd.lost # {}
  /\ IF Min(snd.lost) < snd.ack THEN UNCHANGED net
     ELSE LostBlock <= Len(snd.blocks) /\ Transmit(Packet(Min(snd.lost), snd.blocks[LostBlock]))
  /\ snd' = [snd EXCEPT !.lost = @ \ {Min(@)}]
  /\ UNCHANGED <<rcv, got, cut>>

\* The rest of the message of a block, in blocks.
RestOf(b) == {k \in b .. Len(snd.blocks) : snd.blocks[k].msg = snd.blocks[b].msg}

\* A lost packet whose message is too old: the receiver is to drop as many numbers as
\* the rest of the message has blocks, and one more; the sender skips one more than that.
Expire ==
  /\ snd.lost # {} /\ Min(snd.lost) >= snd.ack /\ LostBlock <= Len(snd.blocks)
  /\ Msgs[snd.blocks[LostBlock].msg].ttl
  /\ LET a == Min(snd.lost)
         rest == RestOf(LostBlock)
         b == a + Cardinality(rest)
     IN /\ snd' = [snd EXCEPT !.lost = {s \in @ : s > b},
                              !.curr = IF @ < b + 1 THEN b + 1 ELSE @,
                              !.cur = IF @ + 1 \in rest \ {LostBlock} THEN Max(rest) ELSE @]
        /\ Transmit([drop |-> a .. b, msg |-> snd.blocks[LostBlock].msg])
        /\ cut' = cut \cup (a .. b)
  /\ UNCHANGED <<rcv, got>>

-----------------------------------------------------------------------------
(* The receiver. *)

DataSize(r) == (r.ackpos - r.start + Size) % Size
\* One place stays empty, to tell a full buffer from an empty one.
Avail(r) == Size - DataSize(r) - 1

\* addData, and the losses that the packet shows or ends.
ReceiveData(p) ==
  LET offset == p.seq - rcv.ack
      pos == (rcv.ackpos + offset) % Size
      taken == offset \in 0 .. Avail(rcv) - 1
      new == taken /\ rcv.unit[pos] = Free
  IN /\ p \in net /\ "seq" \in DOMAIN p
     /\ net' = net \ {p}
     /\ rcv' = [rcv EXCEPT
          !.max = IF taken /\ offset > @ THEN offset ELSE @,
          !.unit[pos] = IF new THEN [flag |-> 1, blk |-> p.blk] ELSE @,
          !.lost = IF new THEN (@ \cup (rcv.curr + 1 .. p.seq - 1)) \ {p.seq} ELSE @,
          !.curr = IF new /\ p.seq > @ THEN p.seq ELSE @]
     /\ UNCHANGED <<snd, got, cut>>

\* dropMsg compares the number of the message with that of the packet and its
\* flags, and so meets the blocks that have none; and it stops before the last place.
Marked(r, msg) ==
  {i \in Places : /\ r.unit[i] # Free
                  /\ r.unit[i].blk.msg = msg /\ ~r.unit[i].blk.head /\ ~r.unit[i].blk.tail /\ ~r.unit[i].blk.inorder
                  /\ (i - r.start + Size) % Size < DataSize(r) + r.max}

ReceiveDrop(p) ==
  /\ p \in net /\ "drop" \in DOMAIN p
  /\ net' = net \ {p}
  /\ rcv' = [rcv EXCEPT !.unit = [i \in Places |-> IF i \in Marked(rcv, p.msg) THEN [@[i] EXCEPT !.flag = 3] ELSE @[i]],
                        !.lost = @ \ p.drop,
                        !.curr = IF Min(p.drop) <= @ + 1 /\ Max(p.drop) > @ THEN Max(p.drop) ELSE @]
  /\ UNCHANGED <<snd, got, cut>>

\* The ACK timer: the buffer is readable up to the first loss.
AckTimer ==
  LET ack == IF rcv.lost = {} THEN rcv.curr + 1 ELSE Min(rcv.lost)
      n == ack - rcv.ack
  IN /\ n > 0
     /\ rcv' = [rcv EXCEPT !.ack = ack, !.ackpos = (@ + n) % Size,
                           !.max = IF @ < n THEN 0 ELSE @ - n]
     /\ UNCHANGED <<snd, net, got, cut>>

-----------------------------------------------------------------------------
(* recvmsg: scanMsg and readMsg. *)

At(r, k) == r.unit[(r.start + k) % Size]
Unread(r, k) == At(r, k).flag = 1

\* The acknowledged part of the buffer begins here with a message that is whole
\* as far as it is acknowledged.
WholeFrom(r, k) ==
  /\ Unread(r, k) /\ At(r, k).blk.head
  /\ \A j \in k .. DataSize(r) - 1 :
       Unread(r, j) \/ \E t \in k .. j - 1 : (\A i \in k .. t : Unread(r, i)) /\ At(r, t).blk.tail

\* What is before it can not be read any more, and is freed.
Skipped(r) == Min({k \in 0 .. DataSize(r) : k = DataSize(r) \/ WholeFrom(r, k)})

Freed(r, n) ==
  [r EXCEPT !.unit = [i \in Places |-> IF (i - r.start + Size) % Size < n THEN Free ELSE @[i]],
            !.start = (@ + n) % Size]

\* The first place of the message that ends here, if no block of it is missing.
Heads(r, t) == {h \in 0 .. t : At(r, h).flag = 1 /\ At(r, h).blk.head /\ \A k \in h .. t : Unread(r, k)}

\* A message that comes out of its turn although it is to keep the order.
AnyTurn(r, t) == TRUE

\* What is acknowledged is in its turn.
InTurn(r, t) == t < DataSize(r) \/ ~At(r, t).blk.inorder

Tails(r) ==
  {t \in 0 .. DataSize(r) + r.max : Unread(r, t) /\ At(r, t).blk.tail /\ Heads(r, t) # {} /\ InTurn(r, t)}

\* The blocks are handed out, and freed if they are acknowledged; else marked as read.
Read(r, h, t) ==
  IF t < DataSize(r) THEN Freed(r, t + 1)
  ELSE [r EXCEPT !.unit = [i \in Places |-> IF (i - r.start + Size) % Size \in h .. t THEN [@[i] EXCEPT !.flag = 2] ELSE @[i]]]

\* What is read from a buffer whose beginning is whole.
ReadFirst(r) ==
  IF Tails(r) = {} THEN rcv' = r /\ UNCHANGED got
  ELSE \E t \in {Min(Tails(r))} : \E h \in {Max(Heads(r, t))} :
         rcv' = Read(r, h, t) /\ got' = Append(got, [k \in 1 .. t - h + 1 |-> At(r, h + k - 1).blk])

recvmsg ==
  /\ rcv.start # rcv.ackpos \/ rcv.max # 0
  /\ \E r \in {Freed(rcv, Skipped(rcv))} : ReadFirst(r)
  /\ UNCHANGED <<snd, net, cut>>

-----------------------------------------------------------------------------
(* The sender hears of the receiver; the network. *)

\* An acknowledgement frees blocks and tells how much room there is.
ProcessAck ==
  /\ snd' = [snd EXCEPT !.ack = rcv.ack, !.first = @ + rcv.ack - snd.ack, !.window = Avail(rcv),
                        !.lost = {s \in @ : s >= rcv.ack}]
  /\ UNCHANGED <<net, rcv, got, cut>>

\* A report of the losses.
ProcessNak ==
  /\ rcv.lost # {}
  /\ snd' = [snd EXCEPT !.lost = @ \cup {s \in rcv.lost : s \in snd.ack .. snd.curr}]
  /\ UNCHANGED <<net, rcv, got, cut>>

\* Nothing was heard for long: all that is not acknowledged is taken for lost.
SndExp ==
  /\ snd.lost = {} /\ snd.ack <= snd.curr
  /\ snd' = [snd EXCEPT !.lost = snd.ack .. snd.curr]
  /\ UNCHANGED <<net, rcv, got, cut>>

Lose(p) ==
  /\ p \in net
  /\ net' = net \ {p}
  /\ UNCHANGED <<snd, rcv, got, cut>>

Next ==
  \/ sendmsg \/ SendNew \/ Resend \/ ProcessAck \/ ProcessNak \/ SndExp
  \/ \E p \in net : ReceiveData(p) \/ Lose(p)
  \/ AckTimer \/ recvmsg

\* Messages that expire, as well.
NextTTL == Next \/ Expire \/ \E p \in net : ReceiveDrop(p)

Spec == Init /\ [][Next]_vars

SpecTTL == Init /\ [][NextTTL]_vars

\* The threads and timers run, the application reads, and a packet that is sent
\* again and again comes.
Fairness ==
  /\ WF_vars(sendmsg) /\ WF_vars(SendNew) /\ WF_vars(Resend) /\ WF_vars(SndExp)
  /\ WF_vars(AckTimer) /\ WF_vars(recvmsg) /\ WF_vars(ProcessAck)
  /\ WF_vars(\E p \in net : ReceiveData(p) \/ Lose(p))
  /\ SF_vars(\E p \in net : p.seq = rcv.ack /\ ReceiveData(p))

FairSpec == Spec /\ Fairness

-----------------------------------------------------------------------------
(* Properties. *)

(* What makes WholeMessagesOnce inductive. *)

ABlock == [msg : DOMAIN Msgs, head : BOOLEAN, tail : BOOLEAN, inorder : BOOLEAN]
Senders == [blocks : Seq(ABlock), first : Nat, cur : Nat, curr : Int, ack : Nat, lost : SUBSET Nat, window : Int]
Units == {Free} \cup [flag : {1, 2}, blk : ABlock]
Buffers == [unit : [Places -> Units], start : Places, ackpos : Places, max : Int, ack : Nat, curr : Int, lost : SUBSET Nat]
Typed ==
  /\ snd \in Senders /\ net \subseteq [seq : Nat, blk : ABlock] /\ rcv \in Buffers
  /\ got \in Seq(Seq(ABlock))

\* The blocks of a sender are messages one after the other.
MessageOf(s, n) == s.blocks[n + 1].msg
MessagesInARow(s) ==
  /\ \A i \in DOMAIN s.blocks : \E h \in 0 .. i - 1 :
       LET m == s.blocks[i].msg IN
         /\ i <= h + Msgs[m].len /\ h + Msgs[m].len <= Len(s.blocks)
         /\ \A k \in 1 .. Msgs[m].len : s.blocks[h + k] = Block(m, k)
  /\ \A i, j \in DOMAIN s.blocks : i < j => s.blocks[i].msg <= s.blocks[j].msg
  /\ \A i, j \in DOMAIN s.blocks :
       s.blocks[i].head /\ s.blocks[j].head /\ s.blocks[i].msg = s.blocks[j].msg => i = j
  /\ \A i \in DOMAIN s.blocks : \A m \in 1 .. s.blocks[i].msg : \E j \in DOMAIN s.blocks : s.blocks[j].msg = m

\* A packet carries the block of its number.
PacketsTrue ==
  /\ snd.cur = snd.curr + 1 /\ snd.cur <= Len(snd.blocks) /\ snd.first = snd.ack
  /\ \A p \in net : p.seq <= snd.curr /\ p.blk = snd.blocks[p.seq + 1]
  /\ \A n \in snd.lost : n <= snd.curr

\* The number of the block at the beginning of a buffer, and the messages that were read.
Base(r) == r.ack - DataSize(r)
ReadOf(g) == {m \in DOMAIN Msgs : \E i \in DOMAIN g : g[i] = BlocksOf(m)}

\* The receiver has each block at the place of its number; it is marked as read if its message
\* was read; of the numbers up to the newest one it lacks those that it holds for lost; and
\* what has left the buffer was read.
BufferTrue(s, r, g) ==
  /\ Base(r) \in Nat /\ r.ack <= r.curr + 1
  /\ r.curr <= s.curr /\ s.curr < Len(s.blocks) /\ r.curr + 1 < Base(r) + Size
  /\ r.max >= -1 /\ DataSize(r) + r.max < Size
  /\ r.lost \subseteq r.ack .. r.curr
  /\ \A k \in Places : At(r, k) # Free =>
       /\ Base(r) + k <= r.curr /\ At(r, k).blk = s.blocks[Base(r) + k + 1]
       /\ At(r, k).flag = 2 <=> MessageOf(s, Base(r) + k) \in ReadOf(g)
  /\ \A k \in Places : Base(r) + k <= r.curr => (At(r, k) = Free <=> Base(r) + k \in r.lost)
  /\ \A n \in 0 .. Base(r) - 1 : MessageOf(s, n) \in ReadOf(g)
  /\ \A n \in 0 .. Len(s.blocks) - 1 : MessageOf(s, n) \in ReadOf(g) =>
       n < Base(r) \/ (n - Base(r) \in Places /\ At(r, n - Base(r)) # Free)
  /\ \A m \in ReadOf(g) : \E i \in DOMAIN s.blocks : s.blocks[i].msg = m

MessagesInv == Typed /\ MessagesInARow(snd) /\ PacketsTrue /\ BufferTrue(snd, rcv, got) /\ WholeMessagesOnce

\* Every message is read in the end.
AllRead == <>(\A m \in DOMAIN Msgs : \E i \in DOMAIN got : got[i] = BlocksOf(m))

\* The numbers that the receiver is told to drop are those of messages that may expire.
\* It does not hold of SpecTTL: the range is one number too long (Expire).
OnlyExpiredDropped ==
  \A p \in net : "seq" \in DOMAIN p /\ p.seq \in cut => Msgs[p.blk.msg].ttl
=============================================================================
