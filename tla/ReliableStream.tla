----------------------------- MODULE ReliableStream -----------------------------
(***************************************************************************)
(* What a UDT connection promises in one direction: the receiver gets the  *)
(* data that were sent, in their order and each once.  Either end may give *)
(* the connection up.                                                      *)
(***************************************************************************)
EXTENDS Naturals, Sequences

VARIABLES
  sent,      \* how many pieces of data have been given to send
  got,       \* what recv has returned, each piece by its place among the sent
  sndUp,     \* the sender takes data
  rcvUp      \* the receiver has not given up

streamVars == <<sent, got, sndUp, rcvUp>>

Init == sent = 0 /\ got = <<>> /\ sndUp = TRUE /\ rcvUp = TRUE

Send ==
  /\ sndUp
  /\ sent' = sent + 1
  /\ UNCHANGED <<got, sndUp, rcvUp>>

\* What has come may still be read when the connection is over.
Receive ==
  /\ Len(got) < sent
  /\ got' = Append(got, Len(got) + 1)
  /\ UNCHANGED <<sent, sndUp, rcvUp>>

SenderEnds == sndUp /\ sndUp' = FALSE /\ UNCHANGED <<sent, got, rcvUp>>

ReceiverEnds == rcvUp /\ rcvUp' = FALSE /\ UNCHANGED <<sent, got, sndUp>>

Next == Send \/ Receive \/ SenderEnds \/ ReceiverEnds

Spec == Init /\ [][Next]_streamVars
=============================================================================
