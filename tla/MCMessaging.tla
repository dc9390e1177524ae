----------------------------- MODULE MCMessaging -----------------------------
(***************************************************************************)
(* Model checking of GMP and of the parts of UDT, one part in each         *)
(* behaviour; parts whose variables have the same names share them.        *)
(***************************************************************************)
EXTENDS GMP, MessageStream, UDTSetup, TLC

CONSTANTS s1, s2, x1, x2, x3, x4
MCOneOrBoth == {<<s1>>, <<s1, s2>>}

VARIABLES
  part,
  snd, rcv, pkts, sent, taken, lost, early,               \* a connection
  msgSnd, msgRcv, msgNet, cut,                            \* one with messages
  sndList, sndLost, ack, sndCurr,                         \* the loss lists
  rcvList, rcvLost, rcvCurr, dropped, hung,
  heap, loc, ts                                           \* the send queue

gmpVars == <<nodeVars, net, call, ghosts>>
transferVars == <<snd, rcv, pkts, sent, taken, lost, early>>
messageVars == <<msgSnd, msgRcv, msgNet, got, cut>>
connectVars == <<cl, hs, lst, queued, accepted, sk, acc, owned, crashed>>
rendezvousVars == <<side, wire>>
sndLossVars == <<sndList, sndLost, ack, sndCurr>>
rcvLossVars == <<rcvList, rcvLost, rcvCurr, dropped, hung>>
lossVars == <<sndLossVars, rcvLossVars>>
heapVars == <<heap, loc, ts>>

Transfer ==
  INSTANCE UDTTransfer WITH
    MaxSeqNo <- 7, SeqNoTH <- 4, NData <- 2, ISN <- 7, SndBufSize <- 2, RcvBufSize <- 3,
    FlowWindow <- 2, ExpLimit <- 3, MaxLoss <- 1, MaxEarly <- 1, MaxNet <- 2, net <- pkts, got <- taken

\* Three messages, the last of which keeps the order.
TwoBlocks == [len |-> 2, inorder |-> FALSE, ttl |-> FALSE]
MCMsgs == <<[TwoBlocks EXCEPT !.ttl = TRUE], TwoBlocks, [len |-> 1, inorder |-> TRUE, ttl |-> FALSE]>>
Messages ==
  INSTANCE UDTMessages WITH
    SndSize <- 4, Size <- 4, MaxNet <- 2, snd <- msgSnd, rcv <- msgRcv, net <- msgNet

SndLosses ==
  INSTANCE UDTSndLossList WITH MaxSeqNo <- 15, SeqNoTH <- 8, Window <- 6, ISN <- 13, MaxSend <- 7,
    list <- sndList, losses <- sndLost, curr <- sndCurr

RcvLosses ==
  INSTANCE UDTRcvLossList WITH MaxSeqNo <- 15, SeqNoTH <- 8, Size <- 7, ISN <- 13, MaxRecv <- 7,
    list <- rcvList, losses <- rcvLost, curr <- rcvCurr

SendQueue == INSTANCE UDTSndUList WITH Socks <- {x1, x2, x3, x4}, MaxTime <- 4

MCInit ==
  /\ part \in {"calls", "transfer", "messages", "connect", "rendezvous", "sndLosses", "rcvLosses", "sendQueue"}
  /\ Init
  /\ Transfer!Init /\ Messages!Init /\ C!Init /\ R!Init
  /\ SndLosses!Init /\ RcvLosses!Init /\ SendQueue!Init

\* A server crashes in the calls to it alone.
CrashesAlone == session' # session => \A t \in Threads : Len(call[t].dests) <= 1

\* Two handshakes are on their way at a time in the first try to connect only.
FewRepeated == Cardinality(hs') <= 1 \/ cl'[x1].isn <= 1

MCNext ==
  /\ UNCHANGED part
  /\ \/ part = "calls" /\ Next /\ CrashesAlone
        /\ UNCHANGED <<transferVars, messageVars, connectVars, rendezvousVars, lossVars, heapVars>>
     \/ part = "transfer" /\ Transfer!Next
        /\ UNCHANGED <<gmpVars, messageVars, connectVars, rendezvousVars, lossVars, heapVars>>
     \/ part = "messages" /\ Messages!Next
        /\ UNCHANGED <<gmpVars, transferVars, connectVars, rendezvousVars, lossVars, heapVars>>
     \/ part = "connect" /\ C!Next /\ FewRepeated
        /\ UNCHANGED <<gmpVars, transferVars, messageVars, rendezvousVars, lossVars, heapVars>>
     \/ part = "rendezvous" /\ R!Next
        /\ UNCHANGED <<gmpVars, transferVars, messageVars, connectVars, lossVars, heapVars>>
     \/ part = "sndLosses" /\ SndLosses!Next
        /\ UNCHANGED <<gmpVars, transferVars, messageVars, connectVars, rendezvousVars, rcvLossVars, heapVars>>
     \/ part = "rcvLosses" /\ RcvLosses!Next
        /\ UNCHANGED <<gmpVars, transferVars, messageVars, connectVars, rendezvousVars, sndLossVars, heapVars>>
     \/ part = "sendQueue" /\ SendQueue!Next
        /\ UNCHANGED <<gmpVars, transferVars, messageVars, connectVars, rendezvousVars, lossVars>>

mcVars == <<part, gmpVars, transferVars, messageVars, connectVars, rendezvousVars, lossVars, heapVars>>
MCSpec == MCInit /\ [][MCNext]_mcVars

-----------------------------------------------------------------------------
(* The properties of the parts are stated in their modules; those of the calls,
   GMPInv among them, are checked as they are. *)

\* Who is there is not given up (checkTimers).
NoneGivenUp == Transfer!NoneGivenUp

\* The arrays that hold the lists of losses, the heap of the sockets that send, and the
\* receiver's buffer of messages have in them what they are to hold, where it is looked
\* for (list.cpp, queue.cpp, buffer.cpp).
ArraysHold ==
  /\ part = "sndLosses" => SndLosses!HoldsTheLosses
  /\ part = "rcvLosses" => RcvLosses!HoldsUnlessDropped /\ RcvLosses!ReportsTheLosses
  /\ part = "sendQueue" => SendQueue!PlacesKnown
  /\ part = "messages" => Messages!MessagesInv
=============================================================================
