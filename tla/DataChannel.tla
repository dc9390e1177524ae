----------------------------- MODULE DataChannel -----------------------------
(***************************************************************************)
(* One end of a data channel (common/datachn.cpp): a connection to a peer, *)
(* shared by sessions, each with a thread that receives.  Whoever holds    *)
(* the receive lock reads the connection; a block of another session goes  *)
(* to the queue, where every thread looks first.                           *)
(*                                                                         *)
(* A block is read as a whole: only the holder of the lock reads.  Senders *)
(* write a block as a whole under the send lock, so the connection is a    *)
(* sequence of blocks.                                                     *)
(***************************************************************************)
EXTENDS Naturals, Sequences

CONSTANTS Sessions,
          FileSessions,  \* those that call recvfile as well as recv
          Breaks,        \* TRUE: the connection may break
          MaxBlocks      \* bound on the blocks that a session is sent

VARIABLES
  toSelf,     \* the channel of a node to itself: c->m_pTrans is NULL
  sent,       \* session -> how many blocks have been sent to it
  wire,       \* m_pTrans: the blocks on the connection
  connected,  \* m_pTrans->isConnected()
  queue,      \* m_vDataQueue
  rcvLock,    \* m_RcvLock: the sessions whose threads hold it
  pc,         \* where the thread of each session is in recv or recvfile
  call,       \* which of the two it is in
  hand,       \* rd: the block that a thread has read for somebody else
  got         \* session -> the blocks that its calls have returned

vars == <<toSelf, sent, wire, connected, queue, rcvLock, pc, call, hand, got>>

Block == [session: Sessions, n: 1 .. MaxBlocks]

Places == {"idle", "check", "try", "recheck", "read", "push"}

\* The types of all variables; hand is meaningful at "push" only.
TypeOK ==
  /\ toSelf \in BOOLEAN
  /\ sent \in [Sessions -> 0 .. MaxBlocks]
  /\ wire \in Seq(Block)
  /\ connected \in BOOLEAN
  /\ queue \in Seq(Block)
  /\ rcvLock \subseteq Sessions
  /\ pc \in [Sessions -> Places]
  /\ call \in [Sessions -> {"recv", "recvfile"}]
  /\ DOMAIN hand = Sessions
  /\ \A s \in Sessions : pc[s] = "push" => hand[s] \in Block
  /\ got \in [Sessions -> Seq(1 .. MaxBlocks)]

NoBlock == [session |-> "none", n |-> 0]

Init ==
  /\ toSelf \in BOOLEAN
  /\ sent = [s \in Sessions |-> 0]
  /\ wire = <<>>
  /\ connected = TRUE
  /\ queue = <<>>
  /\ rcvLock = {}
  /\ pc = [s \in Sessions |-> "idle"]
  /\ call = [s \in Sessions |-> "recv"]
  /\ hand = [s \in Sessions |-> NoBlock]
  /\ got = [s \in Sessions |-> <<>>]

Goto(s, place) == pc' = [pc EXCEPT ![s] = place]

\* The call of session s returns block b.
Return(s, b) ==
  /\ got' = [got EXCEPT ![s] = Append(@, b.n)]
  /\ Goto(s, "idle")

\* send and sendfile; to oneself, the block goes straight to the queue.
Send(s) ==
  /\ connected
  /\ sent[s] < MaxBlocks
  /\ LET b == [session |-> s, n |-> sent[s] + 1] IN
       IF toSelf THEN queue' = Append(queue, b) /\ wire' = wire
       ELSE wire' = Append(wire, b) /\ queue' = queue
  /\ sent' = [sent EXCEPT ![s] = @ + 1]
  /\ UNCHANGED <<toSelf, connected, rcvLock, pc, call, hand, got>>

Break ==
  /\ Breaks
  /\ ~toSelf
  /\ connected
  /\ connected' = FALSE
  /\ wire' = <<>>
  /\ UNCHANGED <<toSelf, sent, queue, rcvLock, pc, call, hand, got>>

\* A thread calls recv or recvfile; locate() finds the channel.
Call(s) ==
  /\ pc[s] = "idle"
  /\ connected
  /\ \E c \in IF s \in FileSessions THEN {"recv", "recvfile"} ELSE {"recv"} :
       call' = [call EXCEPT ![s] = c]
  /\ Goto(s, "check")
  /\ UNCHANGED <<toSelf, sent, wire, connected, queue, rcvLock, hand, got>>

\* The loop ends when the connection is lost.
Leave(s) ==
  /\ pc[s] = "check"
  /\ ~connected
  /\ Goto(s, "idle")
  /\ UNCHANGED <<toSelf, sent, wire, connected, queue, rcvLock, call, hand, got>>

\* The places in the queue of blocks for s; the first one is taken.
Queued(s) == {i \in DOMAIN queue : queue[i].session = s}
First(s) == CHOOSE i \in Queued(s) : \A j \in Queued(s) : i <= j

TakeFromQueue(s) ==
  LET i == First(s) IN
  /\ Return(s, queue[i])
  /\ queue' = SubSeq(queue, 1, i - 1) \o SubSeq(queue, i + 1, Len(queue))

CheckQueue(s) ==
  /\ pc[s] = "check"
  /\ connected
  /\ IF Queued(s) # {} THEN TakeFromQueue(s)
     ELSE Goto(s, "try") /\ UNCHANGED <<queue, got>>
  /\ UNCHANGED <<toSelf, sent, wire, connected, rcvLock, call, hand>>

TryLock(s) ==
  /\ pc[s] = "try"
  /\ IF rcvLock = {}
     THEN rcvLock' = {s} /\ Goto(s, "recheck")
     ELSE rcvLock' = rcvLock /\ Goto(s, "check")
  /\ UNCHANGED <<toSelf, sent, wire, connected, queue, call, hand, got>>

\* The thread that gets the lock reads at once.
RecheckNothing(s) ==
  /\ pc[s] = "recheck"
  /\ IF toSelf THEN rcvLock' = rcvLock \ {s} /\ Goto(s, "check")
     ELSE rcvLock' = rcvLock /\ Goto(s, "read")
  /\ UNCHANGED <<toSelf, sent, wire, connected, queue, call, hand, got>>

\* Under the lock the queue is looked at once more: the thread that had the
\* lock before may have put something there.
Recheck(s) ==
  /\ pc[s] = "recheck"
  /\ IF Queued(s) # {} THEN TakeFromQueue(s) /\ rcvLock' = rcvLock \ {s}
     ELSE /\ IF toSelf THEN rcvLock' = rcvLock \ {s} /\ Goto(s, "check")
             ELSE rcvLock' = rcvLock /\ Goto(s, "read")
          /\ UNCHANGED <<queue, got>>
  /\ UNCHANGED <<toSelf, sent, wire, connected, call, hand>>

ReadOwn(s) ==
  /\ pc[s] = "read"
  /\ wire # <<>>
  /\ Head(wire).session = s
  /\ Return(s, Head(wire))
  /\ wire' = Tail(wire)
  /\ rcvLock' = rcvLock \ {s}
  /\ UNCHANGED <<toSelf, sent, connected, queue, call, hand>>

\* recv keeps the lock until the block is in the queue; recvfile gives it up
\* at once.
ReadOthers(s) ==
  /\ pc[s] = "read"
  /\ wire # <<>>
  /\ Head(wire).session # s
  /\ hand' = [hand EXCEPT ![s] = Head(wire)]
  /\ wire' = Tail(wire)
  /\ rcvLock' = IF call[s] = "recvfile" THEN rcvLock \ {s} ELSE rcvLock
  /\ Goto(s, "push")
  /\ UNCHANGED <<toSelf, sent, connected, queue, call, got>>

ReadFails(s) ==
  /\ pc[s] = "read"
  /\ ~connected
  /\ rcvLock' = rcvLock \ {s}
  /\ Goto(s, "idle")
  /\ UNCHANGED <<toSelf, sent, wire, connected, queue, call, hand, got>>

\* A block that is put in front of the queue.
PushFront(s) ==
  /\ pc[s] = "push"
  /\ queue' = <<hand[s]>> \o queue
  /\ rcvLock' = rcvLock \ {s}
  /\ Goto(s, "check")
  /\ UNCHANGED <<toSelf, sent, wire, connected, call, hand, got>>

Push(s) ==
  /\ pc[s] = "push"
  /\ queue' = Append(queue, hand[s])
  /\ rcvLock' = rcvLock \ {s}
  /\ Goto(s, "check")
  /\ UNCHANGED <<toSelf, sent, wire, connected, call, hand, got>>

Receiving(s) ==
  \/ Call(s) \/ Leave(s) \/ CheckQueue(s) \/ TryLock(s) \/ Recheck(s)
  \/ ReadOwn(s) \/ ReadOthers(s) \/ ReadFails(s) \/ Push(s)

Next == (\E s \in Sessions : Send(s) \/ Receiving(s)) \/ Break

Spec == Init /\ [][Next]_vars

\* The threads run, and each calls again when a call has returned.
Fairness == \A s \in Sessions : WF_vars(Receiving(s))

FairSpec == Spec /\ Fairness

-----------------------------------------------------------------------------
(* Properties. *)

FIFO == INSTANCE SessionFIFO WITH Sessions <- Sessions, sent <- sent, got <- got

\* Sessions that use recv only, on one connection or on the local channel, each
\* see a FIFO queue, also when it breaks: whatever thread reads a block, its
\* session gets it in its turn.
SessionsAreFIFO == FIFO!Spec

\* A thread is past the lock exactly when it holds it, and one thread does.
LockHeld ==
  /\ \A s \in Sessions : s \in rcvLock <=> pc[s] \in {"recheck", "read", "push"}
  /\ \A s, t \in rcvLock : s = t
  /\ \A s \in Sessions : call[s] = "recv"

\* A thread reads the connection only when nothing is queued for it; the local
\* channel has no connection to read.
ReadsWhatIsNext ==
  /\ \A s \in Sessions : pc[s] = "read" => \A i \in DOMAIN queue : queue[i].session # s
  /\ toSelf => wire = <<>> /\ \A s \in Sessions : pc[s] \notin {"read", "push"}
  /\ ~connected => wire = <<>>

Ordered(q) == \A i, j \in DOMAIN q : i < j /\ q[i].session = q[j].session => q[i].n < q[j].n

\* Block a is before block b, if they are of one session.
Before(a, b) == a.session = b.session => a.n < b.n

\* The blocks of a session are in order from the queue over the hand of the
\* thread that has read one to the connection.
InOrder ==
  /\ Ordered(queue)
  /\ Ordered(wire)
  /\ \A i \in DOMAIN queue, j \in DOMAIN wire : Before(queue[i], wire[j])
  /\ \A t \in Sessions : pc[t] = "push" =>
       /\ \A i \in DOMAIN queue : Before(queue[i], hand[t])
       /\ \A j \in DOMAIN wire : Before(hand[t], wire[j])

\* Block b is on its way.
OnTheWay(b) ==
  \/ \E i \in DOMAIN queue : queue[i] = b
  \/ \E t \in Sessions : pc[t] = "push" /\ hand[t] = b
  \/ \E j \in DOMAIN wire : wire[j] = b

\* What a session has got is the beginning of what was sent to it; what is on
\* its way comes after that without a gap, up to the last block sent unless
\* the connection is lost.
NothingLost ==
  \A s \in Sessions :
    /\ \A i \in DOMAIN got[s] : got[s][i] = i
    /\ Len(got[s]) <= sent[s]
    /\ \A b \in Block : b.session = s /\ OnTheWay(b) =>
         /\ Len(got[s]) < b.n /\ b.n <= sent[s]
         /\ \A m \in Len(got[s]) + 1 .. b.n : OnTheWay([session |-> s, n |-> m])
    /\ connected => \A m \in Len(got[s]) + 1 .. sent[s] : OnTheWay([session |-> s, n |-> m])

\* Nothing is lost, doubled or out of order on its way through the threads of
\* other sessions (sessions that use recv only).
IInv == TypeOK /\ LockHeld /\ ReadsWhatIsNext /\ InOrder /\ NothingLost

\* Every block is received unless the connection is lost: no thread waits on
\* the connection for what is in the queue already.
EveryBlockReceived == []<>(~connected \/ \A s \in Sessions : Len(got[s]) = sent[s])
=============================================================================
