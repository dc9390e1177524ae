-------------------------------- MODULE Chains --------------------------------
(***************************************************************************)
(* What a chain of slaves promises to those that open its file after it:   *)
(* data goes from the client along the chain, and each slave has a thread  *)
(* (SlaveSession::fileHandler) that sends on what it gets.                 *)
(***************************************************************************)
CONSTANT NoSlave

VARIABLE handler   \* transaction, slave -> the fileHandler thread

ClosesAfterNext(t, s) ==
  handler[t][s].st \in {"stopped", "reporting"} /\ handler[t][s].dst # NoSlave
    => handler[t][handler[t][s].dst].st = "done"

\* A slave of a chain stops serving only after the slave it passes data on to is
\* done (it has its answer, or has failed), so the copies are complete when the
\* first report lets somebody else in.
ChainClosedTailFirst == \A t \in DOMAIN handler : \A s \in DOMAIN handler[t] : ClosesAfterNext(t, s)
=============================================================================
