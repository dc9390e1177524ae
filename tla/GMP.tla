---------------------------------- MODULE GMP ----------------------------------
(***************************************************************************)
(* The group messaging protocol (gmp.cpp, prec.cpp): messages over UDP     *)
(* that are sent again until they are acknowledged, a history of what has  *)
(* been received that sorts out what came again, and remote calls on top.  *)
(*                                                                         *)
(* A node has three threads of its own: sndHandler looks through the send  *)
(* queue once a second, rcvHandler takes packets from the UDP socket, and  *)
(* udtRcvHandler takes the messages that are too long for UDP.  A Tick is  *)
(* a second, in which the sndHandler of every node runs once: it sends     *)
(* what is older than a second again, and gives up what is older than ten  *)
(* (GiveUp).  A packet that has not arrived by then is lost, unless Delays *)
(* lets it live on.                                                        *)
(*                                                                         *)
(* One node, Caller, makes remote calls; the servers answer each request.  *)
(* The addresses are those of nodes: a message to a node that has been     *)
(* started again goes to its new session.                                  *)
(***************************************************************************)
EXTENDS Naturals, Sequences, FiniteSets

CONSTANTS Servers, Caller,
          Threads,      \* threads of the caller, each makes one call
          Dests,        \* the sequences of servers that a call may be made to
          Large,        \* TRUE: requests may also be too long for UDP
          Crashers,     \* the nodes that may be started again
          Delays,       \* TRUE: packets, and threads in UDPsend, may take more than a second
          GiveUp,       \* seconds after which a message is given up (10 in the code)
          Window,       \* seconds for which a receipt is remembered (10 in the code)
          MaxErr,       \* errors that an rpc survives (10 in the code)
          MaxRounds,    \* rounds of an rpc in its 60 seconds
          MaxSession, MaxId

Nodes == Servers \cup {Caller}

ASSUME CallerAssumption == Caller \notin Servers
ASSUME DestsAssumption == Dests \subseteq Seq(Servers) \ {<<>>} /\ Crashers \subseteq Nodes
ASSUME FlagsAssumption == Large \in BOOLEAN /\ Delays \in BOOLEAN
ASSUME TimesAssumption == GiveUp \in Nat /\ Window \in Nat /\ MaxErr \in Nat /\ MaxRounds \in Nat
ASSUME BoundsAssumption == MaxSession \in Nat \ {0} /\ MaxId \in Nat

VARIABLES
  session,   \* node -> g_iSession, new (random) in every process
  nextId,    \* node -> g_iID, which starts from 1 in every process
  sndQueue,  \* node -> m_lSndQueue
  pushing,   \* node -> messages that UDPsend has sent and not yet queued
  net,       \* the UDP packets under way
  rcvQueue,  \* node -> m_qRcvQueue
  resQueue,  \* node -> m_mResQueue, as a set of answers with different infos
  history,   \* node -> m_PeerHistory.m_mRecentRec
  rtt,       \* node -> the peers that m_mRTT has an entry for
  call,      \* the calls of the threads of the caller
  asked, handled, everDone, outcome  \* history of requests, for RemoteCalls

nodeVars == <<session, nextId, sndQueue, pushing, rcvQueue, resQueue, history, rtt>>
ghosts == <<asked, handled, everDone, outcome>>
vars == <<session, nextId, sndQueue, pushing, net, rcvQueue, resQueue, history, rtt,
          call, asked, handled, everDone, outcome>>

Sessions == 1 .. MaxSession
Ids == 1 .. MaxId

\* A request of the caller, as its server knows it.
Requests == [session : Sessions, id : Ids]

\* The header and the content of a message: for an answer, info is the id of
\* the request, and re the session that made it, which the code does not send.
Message ==
  [type : {"data", "probe"}, session : Sessions, id : Ids, info : 0 .. MaxId, re : 0 .. MaxSession]
Ack == [type : {"ack"}, session : Sessions, id : Ids, info : {0}, re : {0}]
Packet == [from : Nodes, to : Nodes, msg : Message \cup Ack]
SndRecord == [to : Nodes, msg : Message, age : 0 .. GiveUp]
PeerRecord == [from : Nodes, session : Sessions, id : Ids, age : 0 .. Window + 1]

Call == [st : {"idle", "send", "recv", "rtt", "done"}, dests : Seq(Servers), ids : Seq(0 .. MaxId),
         pos : Nat, err : 0 .. MaxErr, round : 0 .. MaxRounds]
Idle == [st |-> "idle", dests |-> <<>>, ids |-> <<>>, pos |-> 0, err |-> 0, round |-> 0]

TypeOK ==
  /\ session \in [Nodes -> Sessions]
  /\ nextId \in [Nodes -> 1 .. MaxId + 1]
  /\ sndQueue \in [Nodes -> SUBSET SndRecord]
  /\ pushing \in [Nodes -> SUBSET [to : Nodes, msg : Message]]
  /\ net \subseteq Packet
  /\ rcvQueue \in [Nodes -> Seq([from : Nodes, msg : Message])]
  /\ resQueue \in [Nodes -> SUBSET [from : Nodes, msg : Message]]
  /\ history \in [Nodes -> SUBSET PeerRecord]
  /\ rtt \in [Nodes -> SUBSET Nodes]
  /\ call \in [Threads -> Call]
  /\ asked \subseteq Requests \X Servers
  /\ handled \in [Servers -> [Requests -> Nat]]
  /\ everDone \subseteq Requests
  /\ outcome \in [Requests -> {"none", "ok", "failed"}]

Init ==
  /\ session = [n \in Nodes |-> 1]
  /\ nextId = [n \in Nodes |-> 1]
  /\ sndQueue = [n \in Nodes |-> {}]
  /\ pushing = [n \in Nodes |-> {}]
  /\ net = {}
  /\ rcvQueue = [n \in Nodes |-> <<>>]
  /\ resQueue = [n \in Nodes |-> {}]
  /\ history = [n \in Nodes |-> {}]
  /\ rtt = [n \in Nodes |-> {}]
  /\ call = [t \in Threads |-> Idle]
  /\ asked = {} /\ everDone = {}
  /\ handled = [s \in Servers |-> [q \in Requests |-> 0]]
  /\ outcome = [q \in Requests |-> "none"]

-----------------------------------------------------------------------------
(* CPeerManagement. *)

\* The record h is of packet p.
Of(h, p) == h.from = p.from /\ h.session = p.msg.session /\ h.id = p.msg.id

hit(n, p) == \E h \in history[n] : Of(h, p)

\* A history that any record may leave once it is full.
AfterInsertForgetful(n) == SUBSET history[n]

\* addRecentPR also removes the records of the same bucket (one of 2^20, by a
\* hash of the peer, its session and the id) that are older than the window.
AfterInsert(n) == {history[n] \ B : B \in SUBSET {r \in history[n] : r.age > Window}}

Remember(n, p) ==
  \E H \in AfterInsert(n) :
    history' = [history EXCEPT ![n] =
      H \cup {[from |-> p.from, session |-> p.msg.session, id |-> p.msg.id, age |-> 0]}]

-----------------------------------------------------------------------------
(* Sending. *)

NewMessage(n, type, info, re) ==
  [type |-> type, session |-> session[n], id |-> nextId[n], info |-> info, re |-> re]

Used(n) == nextId' = [nextId EXCEPT ![n] = @ + 1]

\* UDPsend, the packet and then, in Push, the record in the queue.
UDPsend(n, to, m) ==
  /\ nextId[n] \in Ids
  /\ Used(n)
  /\ net' = net \cup {[from |-> n, to |-> to, msg |-> m]}
  /\ pushing' = [pushing EXCEPT ![n] = @ \cup {[to |-> to, msg |-> m]}]

\* UDTsend fails, or hands the message to the connection, which may still
\* break before the other side has read it all.
UDTsend(n, to, m) ==
  /\ nextId[n] \in Ids
  /\ Used(n)
  /\ UNCHANGED <<net, pushing>>
  /\ LET p == [from |-> n, to |-> to, msg |-> m] IN
       \/ UNCHANGED <<rcvQueue, history>>
       \/ /\ ~hit(to, p)
          /\ Remember(to, p)
          /\ rcvQueue' = [rcvQueue EXCEPT ![to] = Append(@, [from |-> n, msg |-> m])]

\* The thread that called UDPsend puts the record into the send queue.  An
\* acknowledgement that comes before finds nothing.
Push(n) ==
  /\ \E r \in pushing[n] :
       /\ pushing' = [pushing EXCEPT ![n] = @ \ {r}]
       /\ sndQueue' = [sndQueue EXCEPT ![n] = @ \cup {[to |-> r.to, msg |-> r.msg, age |-> 0]}]
  /\ UNCHANGED <<session, nextId, net, rcvQueue, resQueue, history, rtt, call, ghosts>>

\* A queue that never gives up.
OlderForever(R, limit) == {[r EXCEPT !.age = @ + 1] : r \in R}

\* The message in the queue of n after another second.  It is not sent again
\* before it is older than one second.
Older(R, limit) == {[r EXCEPT !.age = @ + 1] : r \in {q \in R : q.age < limit}}

Resent(n) ==
  {[from |-> n, to |-> r.to, msg |-> r.msg] : r \in {q \in Older(sndQueue[n], GiveUp) : q.age > 1}}

\* A second: the sndHandler of every node goes through its queue.  What is too
\* old is to be sent with UDT, but to the port of UDP, where no UDT socket
\* listens (init opens it one below), so it is lost.
Tick ==
  /\ Delays \/ \A n \in Nodes : pushing[n] = {}
  /\ sndQueue' = [n \in Nodes |-> Older(sndQueue[n], GiveUp)]
  /\ history' = [n \in Nodes |->
       {[r EXCEPT !.age = IF @ > Window THEN @ ELSE @ + 1] : r \in history[n]}]
  /\ \E D \in IF Delays THEN SUBSET net ELSE {{}} :
       net' = D \cup UNION {Resent(n) : n \in Nodes}
  /\ UNCHANGED <<session, nextId, pushing, rcvQueue, resQueue, rtt, call, ghosts>>

-----------------------------------------------------------------------------
(* Receiving: rcvHandler takes packet p. *)

AckOf(n, p) ==
  [from |-> n, to |-> p.from,
   msg |-> [type |-> "ack", session |-> session[n], id |-> p.msg.id, info |-> 0, re |-> 0]]

\* An acknowledgement is matched with whatever was sent to the peer.
AcksPeer(p, r) == r.to = p.from

\* An acknowledgement is matched by its id alone.
Acks(p, r) == r.msg.id = p.msg.id

ReceiveAck(n, p) ==
  /\ p.to = n
  /\ p.msg.type = "ack"
  /\ net' = net \ {p}
  /\ \/ /\ \E r \in sndQueue[n] :
             /\ Acks(p, r)
             /\ sndQueue' = [sndQueue EXCEPT ![n] = @ \ {r}]
        /\ rtt' = [rtt EXCEPT ![n] = @ \cup {p.from}]
        /\ \E H \in AfterInsert(n) : history' = [history EXCEPT ![n] = H]
     \/ /\ \A r \in sndQueue[n] : ~Acks(p, r)
        /\ UNCHANGED <<sndQueue, rtt, history>>
  /\ UNCHANGED <<session, nextId, pushing, rcvQueue, resQueue, call, ghosts>>

\* A probe of the round trip time, and a message received before, are only
\* acknowledged.
ReceiveAgain(n, p) ==
  /\ p.to = n
  /\ \/ p.msg.type = "probe"
     \/ p.msg.type = "data" /\ hit(n, p)
  /\ net' = (net \ {p}) \cup {AckOf(n, p)}
  /\ UNCHANGED <<nodeVars, call, ghosts>>

\* A new request, and a new answer, which takes the place of one to the same id.
ReceiveNew(n, p) ==
  /\ p.to = n
  /\ p.msg.type = "data"
  /\ ~hit(n, p)
  /\ Remember(n, p)
  /\ LET r == [from |-> p.from, msg |-> p.msg] IN
       IF p.msg.info = 0
       THEN /\ rcvQueue' = [rcvQueue EXCEPT ![n] = Append(@, r)]
            /\ resQueue' = resQueue
       ELSE /\ resQueue' = [resQueue EXCEPT ![n] = {a \in @ : a.msg.info # p.msg.info} \cup {r}]
            /\ rcvQueue' = rcvQueue
  /\ net' = (net \ {p}) \cup {AckOf(n, p)}
  /\ UNCHANGED <<session, nextId, pushing, sndQueue, rtt, call, ghosts>>

\* The server takes a request (recvfrom), handles it and answers it.
Serve(s) ==
  /\ rcvQueue[s] # <<>>
  /\ LET r == Head(rcvQueue[s])
         q == [session |-> r.msg.session, id |-> r.msg.id] IN
       /\ UDPsend(s, r.from, NewMessage(s, "data", r.msg.id, r.msg.session))
       /\ handled' = [handled EXCEPT ![s][q] = @ + 1]
       /\ everDone' = everDone \cup {q}
  /\ rcvQueue' = [rcvQueue EXCEPT ![s] = Tail(@)]
  /\ UNCHANGED <<session, sndQueue, resQueue, history, rtt, call, asked, outcome>>

-----------------------------------------------------------------------------
(* rpc, which is multi_rpc with one destination. *)

Dest(t) == call[t].dests[call[t].pos]
Asking(t) == [session |-> session[Caller], id |-> call[t].ids[call[t].pos]]

Begin(t) ==
  /\ call[t].st = "idle"
  /\ \E d \in Dests : call' = [call EXCEPT ![t] = [Idle EXCEPT !.st = "send", !.dests = d, !.pos = 1]]
  /\ UNCHANGED <<nodeVars, net, ghosts>>

\* The call goes on with its next destination.
AfterSend(t, id) ==
  call' = [call EXCEPT ![t].ids = Append(@, id),
                       ![t].pos = IF @ = Len(call[t].dests) THEN 1 ELSE @ + 1,
                       ![t].st = IF call[t].pos = Len(call[t].dests) THEN "recv" ELSE "send"]

\* sendto, which takes UDT for what is too long for UDP.
Send(t) ==
  /\ call[t].st = "send"
  /\ LET m == NewMessage(Caller, "data", 0, 0) IN
       /\ asked' = asked \cup {<<[session |-> m.session, id |-> m.id], Dest(t)>>}
       /\ \/ /\ UDPsend(Caller, Dest(t), m)
             /\ UNCHANGED <<rcvQueue, history>>
          \/ /\ Large
             /\ UDTsend(Caller, Dest(t), m)
  /\ AfterSend(t, nextId[Caller])
  /\ UNCHANGED <<session, sndQueue, resQueue, rtt, handled, everDone, outcome>>

\* UDT cannot connect: there is no id to wait for.
SendFails(t) ==
  /\ call[t].st = "send"
  /\ Large
  /\ nextId[Caller] \in Ids
  /\ Used(Caller)
  /\ AfterSend(t, 0)
  /\ UNCHANGED <<session, sndQueue, pushing, net, rcvQueue, resQueue, history, rtt, ghosts>>

\* The call goes on to the next answer, or returns.
AfterAnswer(t) ==
  call' = [call EXCEPT ![t].pos = @ + 1, ![t].err = 0,
                       ![t].st = IF call[t].pos = Len(call[t].dests) THEN "done" ELSE "recv"]

\* A destination that the request could not be sent to counts as a failure.
Skip(t) ==
  /\ call[t].st = "recv"
  /\ call[t].ids[call[t].pos] = 0
  /\ AfterAnswer(t)
  /\ UNCHANGED <<nodeVars, net, ghosts>>

\* recv: the answer with the id of the request is there, whoever sent it.
Receive(t) ==
  /\ call[t].st = "recv"
  /\ \E a \in resQueue[Caller] :
       /\ a.msg.info = call[t].ids[call[t].pos]
       /\ resQueue' = [resQueue EXCEPT ![Caller] = @ \ {a}]
  /\ outcome' = [outcome EXCEPT ![Asking(t)] = "ok"]
  /\ AfterAnswer(t)
  /\ UNCHANGED <<session, nextId, sndQueue, pushing, net, rcvQueue, history, rtt, asked, handled, everDone>>

\* recv has waited in vain (a second, or less if another answer came); rtt
\* forgets the round trip time of the server and probes it.
Probe(t) ==
  /\ call[t].st = "recv"
  /\ call[t].ids[call[t].pos] # 0
  /\ \A a \in resQueue[Caller] : a.msg.info # call[t].ids[call[t].pos]
  /\ rtt' = [rtt EXCEPT ![Caller] = @ \ {Dest(t)}]
  /\ UDPsend(Caller, Dest(t), NewMessage(Caller, "probe", 0, 0))
  /\ call' = [call EXCEPT ![t].st = "rtt"]
  /\ UNCHANGED <<session, sndQueue, rcvQueue, resQueue, history, ghosts>>

Errors(t) == call[t].err + (IF Dest(t) \in rtt[Caller] THEN 0 ELSE 1)

\* The wait of rtt is over (a second, or less if any acknowledgement came): the
\* call tries again, unless there were too many errors or the time is over.
ProbeEnds(t) ==
  /\ call[t].st = "rtt"
  /\ Errors(t) <= MaxErr
  /\ call[t].round < MaxRounds
  /\ call' = [call EXCEPT ![t].st = "recv", ![t].err = Errors(t), ![t].round = @ + 1]
  /\ UNCHANGED <<nodeVars, net, ghosts>>

GiveUpCall(t) ==
  /\ call[t].st = "rtt"
  /\ Errors(t) > MaxErr \/ call[t].round = MaxRounds
  /\ outcome' = [outcome EXCEPT ![Asking(t)] = "failed"]
  /\ AfterAnswer(t)
  /\ UNCHANGED <<nodeVars, net, asked, handled, everDone>>

-----------------------------------------------------------------------------
\* A process dies and is started again on the same address.
Crash(n) ==
  /\ n \in Crashers
  /\ session[n] < MaxSession
  /\ session' = [session EXCEPT ![n] = @ + 1]
  /\ nextId' = [nextId EXCEPT ![n] = 1]
  /\ sndQueue' = [sndQueue EXCEPT ![n] = {}]
  /\ pushing' = [pushing EXCEPT ![n] = {}]
  /\ rcvQueue' = [rcvQueue EXCEPT ![n] = <<>>]
  /\ resQueue' = [resQueue EXCEPT ![n] = {}]
  /\ history' = [history EXCEPT ![n] = {}]
  /\ rtt' = [rtt EXCEPT ![n] = {}]
  /\ IF n = Caller
     THEN /\ call' = [t \in Threads |-> Idle]
          /\ UNCHANGED handled
     ELSE /\ handled' = [handled EXCEPT ![n] = [q \in Requests |-> 0]]
          /\ UNCHANGED call
  /\ UNCHANGED <<net, asked, everDone, outcome>>

CallStep(t) ==
  \/ Begin(t) \/ Send(t) \/ SendFails(t) \/ Skip(t) \/ Receive(t)
  \/ Probe(t) \/ ProbeEnds(t) \/ GiveUpCall(t)

Next ==
  \/ \E t \in Threads : CallStep(t)
  \/ \E n \in Nodes : Push(n) \/ Crash(n)
  \/ \E n \in Nodes, p \in net : ReceiveAck(n, p) \/ ReceiveAgain(n, p) \/ ReceiveNew(n, p)
  \/ \E s \in Servers : Serve(s)
  \/ Tick

Spec == Init /\ [][Next]_vars

-----------------------------------------------------------------------------
(* Properties. *)

\* What these rest on, beside the types.  The messages that are, or may be, under way:
Carried ==
  {p \in net : p.msg.type # "ack"}
    \cup UNION {{[from |-> n, to |-> r.to, msg |-> r.msg] : r \in pushing[n] \cup sndQueue[n]} : n \in Nodes}

Request(m) == [session |-> m.session, id |-> m.id]

\* The node in session s whose next id is k has used id i in session t.
IsPast(s, k, t, i) == t < s \/ (t = s /\ i < k)

\* Every id is used once, for one message to one node.
IdsUsedOnce ==
  /\ \A p \in Carried : IsPast(session[p.from], nextId[p.from], p.msg.session, p.msg.id)
  /\ \A n \in Nodes : \A h \in history[n] : IsPast(session[h.from], nextId[h.from], h.session, h.id)
  /\ \A p \in net : p.msg.type = "ack" /\ session[p.to] = 1 => p.msg.id < nextId[p.to]
  /\ \A a \in asked : IsPast(session[Caller], nextId[Caller], a[1].session, a[1].id)
  /\ \A p, q \in Carried : p.from = q.from /\ Request(p.msg) = Request(q.msg) => p = q

\* A message may come again only while the record of it is kept.
RecordsLastLonger ==
  /\ \A n \in Nodes : \A r \in pushing[n] : \A h \in history[r.to] :
       h.from = n /\ h.session = r.msg.session /\ h.id = r.msg.id => h.age = 0
  /\ \A n \in Nodes : \A r \in sndQueue[n] : \A h \in history[r.to] :
       h.from = n /\ h.session = r.msg.session /\ h.id = r.msg.id => h.age <= r.age
  /\ \A p \in net : p.msg.type # "ack" => \A h \in history[p.to] : Of(h, p) => h.age <= GiveUp

\* The caller sends requests and probes, and the servers answers to what they have handled.
OnlyAnswersToRequests ==
  /\ \A p \in Carried : p.from = Caller =>
       /\ p.to \in Servers /\ p.msg.info = 0
       /\ p.msg.type = "data" => <<Request(p.msg), p.to>> \in asked
  /\ \A p \in Carried : p.from # Caller =>
       /\ p.to = Caller /\ p.msg.type = "data" /\ p.msg.info # 0
       /\ [session |-> p.msg.re, id |-> p.msg.info] \in everDone
  /\ rcvQueue[Caller] = <<>>
  /\ \A a \in resQueue[Caller] : a.msg.info # 0 /\ [session |-> a.msg.re, id |-> a.msg.info] \in everDone
  /\ \A q \in everDone : \E a \in asked : a[1] = q

\* What a server has handled or is about to handle it knows again, as long as it comes.
HandledOnce ==
  /\ \A s \in Servers, q \in Requests : handled[s][q] \in {0, 1} /\ (handled[s][q] = 1 => <<q, s>> \in asked)
  /\ \A s \in Servers : \A i \in DOMAIN rcvQueue[s] :
       /\ rcvQueue[s][i].from = Caller
       /\ <<Request(rcvQueue[s][i].msg), s>> \in asked
       /\ handled[s][Request(rcvQueue[s][i].msg)] = 0
       /\ \A j \in DOMAIN rcvQueue[s] : Request(rcvQueue[s][i].msg) = Request(rcvQueue[s][j].msg) => i = j
  /\ \A p \in Carried :
       /\ p.from = Caller /\ p.msg.type = "data"
       /\ \/ handled[p.to][Request(p.msg)] = 1
          \/ \E i \in DOMAIN rcvQueue[p.to] : Request(rcvQueue[p.to][i].msg) = Request(p.msg)
       => \E h \in history[p.to] : Of(h, p)

\* An acknowledgement under way is of a message that its sender has.
AcksAreTrue ==
  \A p \in net, q \in Carried :
    p.msg.type = "ack" /\ session[p.to] = 1 /\ q.from = p.to /\ q.msg.id = p.msg.id =>
      /\ q.to = p.from
      /\ q.msg.type = "data" /\ session[p.from] = 1 => \E h \in history[q.to] : Of(h, q)

\* A call has an id for each destination that it has been sent to.
InPlace(c) ==
  /\ c.st = "send" => c.pos \in DOMAIN c.dests /\ Len(c.ids) = c.pos - 1
  /\ c.st \in {"recv", "rtt"} => c.pos \in DOMAIN c.dests /\ Len(c.ids) = Len(c.dests)
  /\ c.st = "rtt" => c.ids[c.pos] # 0
  /\ c.st = "idle" => c = Idle

CallsInPlace == \A t \in Threads : InPlace(call[t])

\* What the remote calls rest on: of each message its receiver has a record as long as
\* it may come again, and no id stands for two (CPeerManagement, UDPsend, rcvHandler).
GMPInv ==
  /\ TypeOK /\ CallsInPlace
  /\ IdsUsedOnce /\ RecordsLastLonger /\ OnlyAnswersToRequests /\ HandledOnce /\ AcksAreTrue

\* The ids that the calls of the caller wait for are theirs, and have had no answer.
CallsWait ==
  /\ session[Caller] = 1
  /\ \A t \in Threads : \A i \in DOMAIN call[t].ids : call[t].ids[i] < nextId[Caller]
  /\ \A t, u \in Threads : \A i \in DOMAIN call[t].ids, j \in DOMAIN call[u].ids :
       call[t].ids[i] = call[u].ids[j] /\ call[t].ids[i] # 0 => t = u /\ i = j
  /\ \A q \in Requests : outcome[q] # "none" => IsPast(1, nextId[Caller], q.session, q.id)
  /\ \A t \in Threads : \A i \in DOMAIN call[t].ids :
       (call[t].st = "send" \/ (call[t].st \in {"recv", "rtt"} /\ i >= call[t].pos)) /\ call[t].ids[i] # 0
         => outcome[[session |-> 1, id |-> call[t].ids[i]]] = "none"

Calls == INSTANCE RemoteCalls WITH
  Requests <- Requests, Servers <- Servers,
  asked <- asked, handled <- handled, everDone <- everDone, outcome <- outcome

\* GMP implements remote calls: a request is handled at most once in the life
\* of a server, although it is sent again as long as no acknowledgement comes,
\* and what rpc returns is the answer to its own request.
ImplementsRemoteCalls == Calls!Spec

\* A message leaves the send queue before its time only when its receiver has
\* it, although an acknowledgement carries nothing but the id (between nodes
\* that have not been started again, see ImplementsRemoteCalls for the others).
AckedWasReceived ==
  [][\A n \in Nodes : \A r \in sndQueue[n] :
         /\ r.msg.type = "data"
         /\ r.age < GiveUp
         /\ session'[n] = 1 /\ session'[r.to] = 1
         /\ \A r2 \in sndQueue'[n] : r2.msg # r.msg
         => \E h \in history[r.to] : h.from = n /\ h.session = r.msg.session /\ h.id = r.msg.id]_vars
=============================================================================
