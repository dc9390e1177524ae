----------------------------- MODULE SessionFIFO -----------------------------
(***************************************************************************)
(* What a data channel promises to the sessions that share it: each one    *)
(* receives its own blocks, in the order in which they were sent.  The     *)
(* blocks of a session are numbered from 1.                                *)
(***************************************************************************)
EXTENDS Naturals, Sequences

CONSTANTS Sessions

VARIABLES sent,   \* session -> how many blocks its sender has sent
          got     \* session -> the blocks its receiver has been given

fifoVars == <<sent, got>>

Init == sent = [s \in Sessions |-> 0] /\ got = [s \in Sessions |-> <<>>]

Send(s) == sent' = [sent EXCEPT ![s] = @ + 1] /\ got' = got

Receive(s) ==
  /\ Len(got[s]) < sent[s]
  /\ got' = [got EXCEPT ![s] = Append(@, Len(@) + 1)]
  /\ sent' = sent

Spec == Init /\ [][\E s \in Sessions : Send(s) \/ Receive(s)]_fifoVars
=============================================================================
