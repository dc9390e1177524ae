------------------------------- MODULE Channels -------------------------------
(***************************************************************************)
(* A data channel (DataChannel), for use beside other parts of a node: all *)
(* of its definitions are Ch's.                                            *)
(***************************************************************************)
EXTENDS Naturals

CONSTANTS Sessions, FileSessions, Breaks, MaxBlocks

ASSUME SessionsAssumption == FileSessions \subseteq Sessions
ASSUME BoundsAssumption == Breaks \in BOOLEAN /\ MaxBlocks \in Nat

VARIABLES toSelf, sent, line, connected, queue, rcvLock, pc, call, hand, received

Ch == INSTANCE DataChannel WITH wire <- line, got <- received

\* Sessions that use recv only, on one connection or on the local channel, each see a FIFO queue,
\* also when it breaks (DataChn::send, recv).
SessionsAreFIFO == Ch!SessionsAreFIFO

\* Nothing is lost, doubled or out of order on its way through the threads of other sessions
\* (DataChn::recv): with what makes that inductive.
ChannelInv == Ch!IInv
=============================================================================
