----------------------------- MODULE MCUDTTransfer -----------------------------
(***************************************************************************)
(* Model checking of the liveness of UDTTransfer, UDTMessages and          *)
(* UDTRendezvous, one part in each behaviour.                              *)
(***************************************************************************)
EXTENDS UDTTransfer

VARIABLES
  part,
  msgSnd, msgRcv, msgNet, msgGot, cut,
  side, wire

messageVars == <<msgSnd, msgRcv, msgNet, msgGot, cut>>
rendezvousVars == <<side, wire>>

\* Three messages, the last of which keeps the order.
TwoBlocks == [len |-> 2, inorder |-> FALSE, ttl |-> FALSE]
Messages ==
  INSTANCE UDTMessages WITH
    Msgs <- <<TwoBlocks, TwoBlocks, [len |-> 1, inorder |-> TRUE, ttl |-> FALSE]>>,
    SndSize <- 4, Size <- 4, MaxNet <- 1,
    snd <- msgSnd, rcv <- msgRcv, net <- msgNet, got <- msgGot

Rendezvous == INSTANCE UDTRendezvous WITH MaxRest <- 1

MCInit ==
  /\ part \in {"transfer", "messages", "rendezvous"}
  /\ Init /\ Messages!Init /\ Rendezvous!Init

MCNext ==
  /\ UNCHANGED part
  /\ \/ part = "transfer" /\ Next /\ UNCHANGED <<messageVars, rendezvousVars>>
     \/ part = "messages" /\ Messages!Next /\ UNCHANGED <<vars, rendezvousVars>>
     \/ part = "rendezvous" /\ Rendezvous!Next /\ UNCHANGED <<vars, messageVars>>

MCSpec == MCInit /\ [][MCNext]_<<part, vars, messageVars, rendezvousVars>>

(* Each property is under the fairness of its part. *)

\* What is sent is received, as a stream or as messages (the timers of checkTimers).
AllDelivered ==
  /\ part = "transfer" /\ Fairness => Delivered
  /\ part = "messages" /\ Messages!Fairness => Messages!AllRead

\* An end whose peer is gone learns of it, although the shutdown may be lost.
GoneNoticed == part = "transfer" /\ Fairness => PeerNoticed

\* The sides of a rendezvous meet.
Meet == part = "rendezvous" /\ Rendezvous!Fairness => Rendezvous!Meet
=============================================================================
