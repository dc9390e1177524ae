----------------------------- MODULE MessageStream -----------------------------
(***************************************************************************)
(* What UDT promises of messages: what is sent and what the program reads. *)
(***************************************************************************)
EXTENDS Integers, Sequences

CONSTANT Msgs   \* what is sent: of each message its number of blocks, len, and
                \* whether it keeps the order, inorder, and may expire, ttl

VARIABLE got    \* what was read: sequences of blocks

Block(m, k) == [msg |-> m, head |-> k = 1, tail |-> k = Msgs[m].len, inorder |-> Msgs[m].inorder]
BlocksOf(m) == [k \in 1 .. Msgs[m].len |-> Block(m, k)]

\* What is read is a whole message, none is read twice, and one that is to keep the
\* order is read after all that were sent before it (sendmsg, recvmsg).
WholeMessagesOnce ==
  /\ \A i \in DOMAIN got : \E m \in DOMAIN Msgs : got[i] = BlocksOf(m)
  /\ \A i, j \in DOMAIN got : i # j => got[i] # got[j]
  /\ \A i \in DOMAIN got : got[i][1].inorder =>
       \A m \in 1 .. got[i][1].msg : \E j \in 1 .. i : got[j] = BlocksOf(m)
=============================================================================
