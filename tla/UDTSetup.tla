------------------------------- MODULE UDTSetup -------------------------------
(***************************************************************************)
(* The two ways in which UDT sets up a connection: connect and listen, for *)
(* the commands between two nodes, and a rendezvous, for their data.       *)
(***************************************************************************)
CONSTANTS Clients, MaxTry, Backlog, MaxSock, MaxHandshakes,   \* connect and listen
          MaxRest                                             \* a rendezvous

VARIABLES
  cl, hs, lst, queued, accepted, sk, acc, owned, crashed,
  side, wire

C == INSTANCE UDTConnection WITH MaxNet <- MaxHandshakes
R == INSTANCE UDTRendezvous

\* However often requests and answers come, and whichever first, a connection has two
\* ends that know of each other (ConnectedAgree, OneConnectionPerRequest and
\* QueueOfLiveSockets, and UpWhenHeard, with what makes them inductive).
EndsAgree == C!ConnectionInv /\ R!RendezvousInv
=============================================================================
