------------------------------ MODULE GMPProofs ------------------------------
(***************************************************************************)
(* What GMP promises, for all servers, threads, destinations and bounds.   *)
(***************************************************************************)
EXTENDS GMP, TLAPS

(***************************************************************************)
(* The records.                                                            *)
(***************************************************************************)
Sent == [to : Nodes, msg : Message]
Letter == [from : Nodes, msg : Message]

\* What the fields of the messages, packets and records are.
LEMMA Fields ==
  /\ \A m \in Message : /\ m.type \in {"data", "probe"} /\ m.session \in Sessions /\ m.id \in Ids
                        /\ m.info \in 0 .. MaxId /\ m.re \in 0 .. MaxSession
  /\ \A p \in Packet : p.from \in Nodes /\ p.to \in Nodes /\ p.msg \in Message \cup Ack
  /\ \A m \in Message \cup Ack : m.session \in Sessions /\ m.id \in Ids /\ (m.type # "ack" => m \in Message)
  /\ \A m \in Message : m.type # "ack"
  /\ \A r \in SndRecord : r.to \in Nodes /\ r.msg \in Message /\ r.age \in 0 .. GiveUp
  /\ \A r \in Sent : r.to \in Nodes /\ r.msg \in Message /\ r = [to |-> r.to, msg |-> r.msg]
  /\ \A r \in Letter : r.from \in Nodes /\ r.msg \in Message
  /\ \A h \in PeerRecord : h.from \in Nodes /\ h.session \in Sessions /\ h.id \in Ids /\ h.age \in 0 .. Window + 1
  BY DEF Message, Ack, Packet, SndRecord, Sent, Letter, PeerRecord

\* Records that are made are of their kinds.
LEMMA Made ==
  ASSUME TimesAssumption
  PROVE
  /\ \A n, k \in Nodes, m \in Message \cup Ack : [from |-> n, to |-> k, msg |-> m] \in Packet
  /\ \A n \in Nodes, m \in Message : [from |-> n, msg |-> m] \in Letter
  /\ \A n \in Nodes, m \in Message : [to |-> n, msg |-> m] \in Sent
  /\ \A n \in Nodes, m \in Message : [to |-> n, msg |-> m, age |-> 0] \in SndRecord
  /\ \A n \in Nodes, s \in Sessions, i \in Ids :
       [from |-> n, session |-> s, id |-> i, age |-> 0] \in PeerRecord
  /\ \A s \in Sessions, i \in Ids : [session |-> s, id |-> i] \in Requests
  BY DEF Message, Ack, Packet, SndRecord, Sent, Letter, PeerRecord, Requests, TimesAssumption

\* Records grow older within their bounds.
LEMMA Aged ==
  ASSUME TimesAssumption
  PROVE
  /\ \A r \in SndRecord : r.age < GiveUp =>
       /\ [r EXCEPT !.age = @ + 1] \in SndRecord
       /\ [r EXCEPT !.age = @ + 1].to = r.to
       /\ [r EXCEPT !.age = @ + 1].msg = r.msg
       /\ [r EXCEPT !.age = @ + 1].age = r.age + 1
  /\ \A h \in PeerRecord :
       /\ [h EXCEPT !.age = IF @ > Window THEN @ ELSE @ + 1] \in PeerRecord
       /\ [h EXCEPT !.age = IF @ > Window THEN @ ELSE @ + 1].from = h.from
       /\ [h EXCEPT !.age = IF @ > Window THEN @ ELSE @ + 1].session = h.session
       /\ [h EXCEPT !.age = IF @ > Window THEN @ ELSE @ + 1].id = h.id
       /\ [h EXCEPT !.age = IF @ > Window THEN @ ELSE @ + 1].age <= h.age + 1
<1>1. \A r \in SndRecord : r.age < GiveUp =>
        /\ [r EXCEPT !.age = @ + 1] \in SndRecord
        /\ [r EXCEPT !.age = @ + 1].to = r.to
        /\ [r EXCEPT !.age = @ + 1].msg = r.msg
        /\ [r EXCEPT !.age = @ + 1].age = r.age + 1
  BY DEF SndRecord, TimesAssumption
<1>2. ASSUME NEW h \in PeerRecord
      PROVE
       /\ [h EXCEPT !.age = IF @ > Window THEN @ ELSE @ + 1] \in PeerRecord
       /\ [h EXCEPT !.age = IF @ > Window THEN @ ELSE @ + 1].from = h.from
       /\ [h EXCEPT !.age = IF @ > Window THEN @ ELSE @ + 1].session = h.session
       /\ [h EXCEPT !.age = IF @ > Window THEN @ ELSE @ + 1].id = h.id
       /\ [h EXCEPT !.age = IF @ > Window THEN @ ELSE @ + 1].age <= h.age + 1
  <2>1. CASE h.age > Window
    BY <2>1 DEF PeerRecord, TimesAssumption
  <2>2. CASE ~(h.age > Window)
    BY <2>2 DEF PeerRecord, TimesAssumption
  <2>3. QED
    BY <2>1, <2>2
<1>3. QED
  BY <1>1, <1>2

\* What the parts of a call are.
LEMMA CallFields ==
  /\ \A c \in Call : /\ c.st \in {"idle", "send", "recv", "rtt", "done"} /\ c.dests \in Seq(Servers)
                     /\ c.ids \in Seq(0 .. MaxId) /\ c.pos \in Nat /\ c.err \in 0 .. MaxErr
                     /\ c.round \in 0 .. MaxRounds
  BY DEF Call

-----------------------------------------------------------------------------
(***************************************************************************)
(* The types.                                                              *)
(***************************************************************************)
\* What the messages have for themselves.
Transport ==
  /\ session \in [Nodes -> Sessions]
  /\ nextId \in [Nodes -> 1 .. MaxId + 1]
  /\ sndQueue \in [Nodes -> SUBSET SndRecord]
  /\ pushing \in [Nodes -> SUBSET Sent]
  /\ net \subseteq Packet
  /\ rcvQueue \in [Nodes -> Seq(Letter)]
  /\ resQueue \in [Nodes -> SUBSET Letter]
  /\ history \in [Nodes -> SUBSET PeerRecord]
  /\ rtt \in [Nodes -> SUBSET Nodes]

LEMMA TypeParts ==
  TypeOK <=>
    /\ Transport
    /\ call \in [Threads -> Call]
    /\ asked \subseteq Requests \X Servers
    /\ handled \in [Servers -> [Requests -> Nat]]
    /\ everDone \subseteq Requests
    /\ outcome \in [Requests -> {"none", "ok", "failed"}]
  BY DEF TypeOK, Transport, Sent, Letter

\* Which message a node has sent, and how.
SentOne(m) ==
  /\ nextId' = [nextId EXCEPT ![m.from] = @ + 1]
  /\ net' = net \cup {m}
  /\ pushing' = [pushing EXCEPT ![m.from] = @ \cup {[to |-> m.to, msg |-> m.msg]}]

\* The message m was not sent before.
Fresh(m) ==
  /\ m \in [from : Nodes, to : Nodes, msg : Message]
  /\ m.msg.session = session[m.from]
  /\ m.msg.id = nextId[m.from]

LEMMA SentTypes ==
  ASSUME TimesAssumption, Transport, NEW m, Fresh(m), SentOne(m)
  PROVE  /\ nextId' \in [Nodes -> 1 .. MaxId + 1]
         /\ net' \subseteq Packet
         /\ pushing' \in [Nodes -> SUBSET Sent]
<1>1. m.from \in Nodes /\ m.to \in Nodes /\ m.msg \in Message /\ m = [from |-> m.from, to |-> m.to, msg |-> m.msg]
  BY DEF Fresh
<1>2. m \in Packet /\ [to |-> m.to, msg |-> m.msg] \in Sent /\ m.msg.id \in Ids
  BY <1>1, Made, Fields
<1>3. nextId[m.from] \in 1 .. MaxId
  BY <1>2 DEF Fresh, Ids
<1>4. nextId' \in [Nodes -> 1 .. MaxId + 1]
  BY <1>1, <1>3, BoundsAssumption DEF Transport, SentOne
<1>5. net' \subseteq Packet
  BY <1>2 DEF Transport, SentOne
<1>6. pushing' \in [Nodes -> SUBSET Sent]
  BY <1>1, <1>2 DEF Transport, SentOne
<1>7. QED
  BY <1>4, <1>5, <1>6

\* UDPsend sends one new message.
LEMMA UDPsendSends ==
  ASSUME Transport, NEW n \in Nodes, NEW to \in Nodes, NEW type \in {"data", "probe"},
         NEW info \in 0 .. MaxId, NEW re \in 0 .. MaxSession,
         UDPsend(n, to, NewMessage(n, type, info, re))
  PROVE  LET m == [from |-> n, to |-> to, msg |-> NewMessage(n, type, info, re)]
         IN  Fresh(m) /\ SentOne(m)
<1> DEFINE m == [from |-> n, to |-> to, msg |-> NewMessage(n, type, info, re)]
<1>1. NewMessage(n, type, info, re) \in Message
  BY DEF NewMessage, Message, Transport, UDPsend
<1>2. Fresh(m)
  BY <1>1 DEF Fresh, NewMessage
<1>3. SentOne(m)
  BY DEF SentOne, UDPsend, Used
<1>4. QED
  BY <1>2, <1>3

\* A record of a packet that has been read, in a history that lost old ones only.
LEMMA RememberTypes ==
  ASSUME TimesAssumption, Transport, NEW n \in Nodes,
         NEW p \in [from : Nodes, to : Nodes, msg : Message], Remember(n, p)
  PROVE  history' \in [Nodes -> SUBSET PeerRecord]
<1>1. [from |-> p.from, session |-> p.msg.session, id |-> p.msg.id, age |-> 0] \in PeerRecord
  BY Fields, Made
<1>2. PICK H \in AfterInsert(n) :
        history' = [history EXCEPT ![n] =
          H \cup {[from |-> p.from, session |-> p.msg.session, id |-> p.msg.id, age |-> 0]}]
  BY DEF Remember
<1>3. H \subseteq PeerRecord
  BY <1>2 DEF AfterInsert, Transport
<1>4. QED
  BY <1>1, <1>2, <1>3 DEF Transport

\* A request: a thread of the caller sends a new message to its next server.
SendUDP(t, d) ==
  /\ UDPsend(Caller, d, NewMessage(Caller, "data", 0, 0))
  /\ UNCHANGED <<rcvQueue, history>>

LEMMA CallerIsNode == Caller \in Nodes /\ Servers \subseteq Nodes
  BY DEF Nodes

\* The server that a thread sends to, or waits for.
LEMMA Destination ==
  ASSUME TypeOK, CallsInPlace, NEW t \in Threads, call[t].st \in {"send", "recv", "rtt"}
  PROVE  Dest(t) \in Servers /\ call[t].pos \in 1 .. Len(call[t].dests) /\ Len(call[t].dests) \in Nat
<1>1. call[t] \in Call
  BY DEF TypeOK
<1>2. call[t].dests \in Seq(Servers)
  BY <1>1, CallFields
<1>3. call[t].pos \in DOMAIN call[t].dests
  BY DEF CallsInPlace, InPlace
<1>4. QED
  BY <1>2, <1>3 DEF Dest

\* A thread goes to its next destination or answer.
LEMMA CallTypes ==
  ASSUME TimesAssumption, NEW c \in Call
  PROVE
  /\ \A i \in 0 .. MaxId, p \in Nat, st \in {"send", "recv"} :
       [c EXCEPT !.ids = Append(@, i), !.pos = p, !.st = st] \in Call
  /\ \A p \in Nat, st \in {"recv", "done"} : [c EXCEPT !.pos = p, !.err = 0, !.st = st] \in Call
  /\ [c EXCEPT !.st = "rtt"] \in Call
  /\ \A e \in 0 .. MaxErr : c.round < MaxRounds =>
       [c EXCEPT !.st = "recv", !.err = e, !.round = @ + 1] \in Call
<1>1. ASSUME NEW i \in 0 .. MaxId, NEW p \in Nat, NEW st \in {"send", "recv"}
      PROVE  [c EXCEPT !.ids = Append(@, i), !.pos = p, !.st = st] \in Call
  <2>1. Append(c.ids, i) \in Seq(0 .. MaxId)
    BY <1>1, CallFields
  <2>2. QED
    BY <1>1, <2>1 DEF Call
<1>2. ASSUME NEW p \in Nat, NEW st \in {"recv", "done"}
      PROVE  [c EXCEPT !.pos = p, !.err = 0, !.st = st] \in Call
  <2>1. 0 \in 0 .. MaxErr /\ st \in {"idle", "send", "recv", "rtt", "done"}
    BY DEF TimesAssumption
  <2>2. QED
    BY <2>1 DEF Call
<1>3. [c EXCEPT !.st = "rtt"] \in Call
  BY DEF Call
<1>4. ASSUME NEW e \in 0 .. MaxErr, c.round < MaxRounds
      PROVE  [c EXCEPT !.st = "recv", !.err = e, !.round = @ + 1] \in Call
  <2>1. PICK k \in 0 .. MaxRounds : k = c.round + 1
    BY <1>4, CallFields DEF TimesAssumption
  <2>2. [c EXCEPT !.st = "recv", !.err = e, !.round = k] \in Call
    BY DEF Call
  <2>3. QED
    BY <2>1, <2>2
<1>5. QED
  BY <1>1, <1>2, <1>3, <1>4

\* What AfterSend makes of a call.
Asked(c, id) ==
  [c EXCEPT !.ids = Append(@, id),
            !.pos = IF @ = Len(c.dests) THEN 1 ELSE @ + 1,
            !.st = IF c.pos = Len(c.dests) THEN "recv" ELSE "send"]

\* What AfterAnswer makes of a call.
Answered(c) ==
  [c EXCEPT !.pos = @ + 1, !.err = 0, !.st = IF c.pos = Len(c.dests) THEN "done" ELSE "recv"]

LEMMA AskedTypes ==
  ASSUME TimesAssumption, NEW c \in Call, NEW id \in 0 .. MaxId
  PROVE  Asked(c, id) \in Call
<1>1. PICK p \in Nat : p = IF c.pos = Len(c.dests) THEN 1 ELSE c.pos + 1
  BY CallFields
<1>2. PICK st \in {"send", "recv"} : st = IF c.pos = Len(c.dests) THEN "recv" ELSE "send"
  OBVIOUS
<1>3. Asked(c, id) = [c EXCEPT !.ids = Append(@, id), !.pos = p, !.st = st]
  BY <1>1, <1>2 DEF Asked, Call
<1>4. [c EXCEPT !.ids = Append(@, id), !.pos = p, !.st = st] \in Call
  BY CallTypes
<1>5. QED
  BY <1>3, <1>4

LEMMA AnsweredTypes ==
  ASSUME TimesAssumption, NEW c \in Call
  PROVE  Answered(c) \in Call
<1>1. PICK p \in Nat : p = c.pos + 1
  BY CallFields
<1>2. PICK st \in {"recv", "done"} : st = IF c.pos = Len(c.dests) THEN "done" ELSE "recv"
  OBVIOUS
<1>3. Answered(c) = [c EXCEPT !.pos = p, !.err = 0, !.st = st]
  BY <1>1, <1>2 DEF Answered, Call
<1>4. [c EXCEPT !.pos = p, !.err = 0, !.st = st] \in Call
  BY CallTypes
<1>5. QED
  BY <1>3, <1>4

LEMMA AfterSendAsked ==
  ASSUME TimesAssumption, TypeOK, NEW t \in Threads, NEW id \in 0 .. MaxId, AfterSend(t, id)
  PROVE  call' = [call EXCEPT ![t] = Asked(call[t], id)] /\ call' \in [Threads -> Call]
<1>1. call[t] \in Call
  BY DEF TypeOK
<1>2. call' = [call EXCEPT ![t] = Asked(call[t], id)]
  BY DEF AfterSend, Asked, TypeOK
<1>3. Asked(call[t], id) \in Call
  BY <1>1, AskedTypes
<1>4. QED
  BY <1>2, <1>3 DEF TypeOK

LEMMA AfterAnswerAnswered ==
  ASSUME TimesAssumption, TypeOK, NEW t \in Threads, AfterAnswer(t)
  PROVE  call' = [call EXCEPT ![t] = Answered(call[t])] /\ call' \in [Threads -> Call]
<1>1. call[t] \in Call
  BY DEF TypeOK
<1>2. call' = [call EXCEPT ![t] = Answered(call[t])]
  BY DEF AfterAnswer, Answered, TypeOK
<1>3. Answered(call[t]) \in Call
  BY <1>1, AnsweredTypes
<1>4. QED
  BY <1>2, <1>3 DEF TypeOK

-----------------------------------------------------------------------------
(***************************************************************************)
(* What a step does.  M holds the message that it sends, if it sends one.  *)
(***************************************************************************)
Same(g, h) == g.from = h.from /\ g.session = h.session /\ g.id = h.id

\* Ids grow, and a new message has the next one.
IdsGrow(M) ==
  /\ \A n \in Nodes : session'[n] > session[n] \/ (session'[n] = session[n] /\ nextId'[n] >= nextId[n])
  /\ \A m \in M : Fresh(m) /\ session'[m.from] = session[m.from] /\ nextId'[m.from] = nextId[m.from] + 1
  /\ \A m, k \in M : m = k

CarriedGrows(M) == \A p \in Carried' : p \in Carried \/ p \in M

\* A record is made of a message that is read, and an old one is kept.
RecordsGrow(M) ==
  /\ \A n \in Nodes : \A h \in history'[n] :
       \/ \E g \in history[n] : Same(g, h)
       \/ \E p \in Carried \cup M : p.to = n /\ Of(h, p)
  /\ \A n \in Nodes : session'[n] = session[n] =>
       \A h \in history[n] : h.age <= Window => \E g \in history'[n] : Same(g, h)

AcksGrow ==
  \A p \in net' : p.msg.type = "ack" =>
    \/ p \in net
    \/ \E q \in Carried : /\ q.from = p.to /\ q.to = p.from /\ q.msg.id = p.msg.id
                          /\ q.msg.type = "data" => \E h \in history'[q.to] : Of(h, q)

AskedGrows(M) ==
  /\ asked \subseteq asked'
  /\ \A a \in asked' : a \in asked \/ \E m \in M : m.from = Caller /\ a = <<Request(m.msg), m.to>>

\* Answers are to what has been handled.
AnswersGrow(M) ==
  /\ \A m \in M : m.from = Caller =>
       m.to \in Servers /\ m.msg.info = 0 /\ (m.msg.type = "data" => <<Request(m.msg), m.to>> \in asked')
  /\ \A m \in M : m.from # Caller =>
       /\ m.to = Caller /\ m.msg.type = "data" /\ m.msg.info # 0
       /\ [session |-> m.msg.re, id |-> m.msg.info] \in everDone'
  /\ rcvQueue'[Caller] = <<>>
  /\ \A a \in resQueue'[Caller] :
       a \in resQueue[Caller] \/ \E p \in Carried : p.to = Caller /\ p.msg = a.msg /\ p.msg.info # 0
  /\ everDone \subseteq everDone'
  /\ \A q \in everDone' : q \in everDone \/ \E a \in asked : a[1] = q

\* A server starts again, gets a new request, handles the first it has, or goes on.
Restarts(s) ==
  session'[s] # session[s] /\ rcvQueue'[s] = <<>> /\ handled'[s] = [q \in Requests |-> 0]
Gets(s, p) ==
  /\ session'[s] = session[s]
  /\ p.to = s /\ p.msg.type = "data" /\ p.msg.info = 0
  /\ \A h \in history[s] : ~Of(h, p)
  /\ \E h \in history'[s] : Of(h, p)
  /\ rcvQueue'[s] = Append(rcvQueue[s], [from |-> p.from, msg |-> p.msg])
  /\ handled'[s] = handled[s]
HandlesFirst(s) ==
  /\ session'[s] = session[s]
  /\ rcvQueue[s] # <<>>
  /\ rcvQueue'[s] = Tail(rcvQueue[s])
  /\ handled'[s] = [handled[s] EXCEPT ![Request(Head(rcvQueue[s]).msg)] = @ + 1]
GoesOn(s) == session'[s] = session[s] /\ rcvQueue'[s] = rcvQueue[s] /\ handled'[s] = handled[s]
Serves(M) ==
  \A s \in Servers :
    Restarts(s) \/ (\E p \in Carried \cup M : Gets(s, p)) \/ HandlesFirst(s) \/ GoesOn(s)

Effects(M) ==
  /\ M \subseteq [from : Nodes, to : Nodes, msg : Message]
  /\ IdsGrow(M) /\ CarriedGrows(M) /\ RecordsGrow(M) /\ AcksGrow
  /\ AskedGrows(M) /\ AnswersGrow(M) /\ Serves(M)

\* The messages that are under way are in the net, to be queued, or queued.
LEMMA CarriedIs ==
  \A p : p \in Carried <=>
    \/ p \in net /\ p.msg.type # "ack"
    \/ \E n \in Nodes : \E r \in pushing[n] : p = [from |-> n, to |-> r.to, msg |-> r.msg]
    \/ \E n \in Nodes : \E r \in sndQueue[n] : p = [from |-> n, to |-> r.to, msg |-> r.msg]
  BY DEF Carried

LEMMA CarriedIsNext ==
  \A p : p \in Carried' <=>
    \/ p \in net' /\ p.msg.type # "ack"
    \/ \E n \in Nodes : \E r \in pushing'[n] : p = [from |-> n, to |-> r.to, msg |-> r.msg]
    \/ \E n \in Nodes : \E r \in sndQueue'[n] : p = [from |-> n, to |-> r.to, msg |-> r.msg]
  BY DEF Carried

LEMMA CarriedTypes ==
  ASSUME TypeOK
  PROVE  Carried \subseteq [from : Nodes, to : Nodes, msg : Message]
<1>1. SUFFICES ASSUME NEW p \in Carried PROVE p \in [from : Nodes, to : Nodes, msg : Message]
  OBVIOUS
<1>2. CASE p \in net /\ p.msg.type # "ack"
  BY <1>2, Fields DEF TypeOK, Packet
<1>3. ASSUME NEW n \in Nodes, NEW r \in pushing[n], p = [from |-> n, to |-> r.to, msg |-> r.msg]
      PROVE  p \in [from : Nodes, to : Nodes, msg : Message]
  BY <1>3 DEF TypeOK
<1>4. ASSUME NEW n \in Nodes, NEW r \in sndQueue[n], p = [from |-> n, to |-> r.to, msg |-> r.msg]
      PROVE  p \in [from : Nodes, to : Nodes, msg : Message]
  BY <1>4, Fields DEF TypeOK
<1>5. QED
  BY <1>1, <1>2, <1>3, <1>4, CarriedIs

-----------------------------------------------------------------------------
(***************************************************************************)
(* The parts of the invariant, after a step with such effects.             *)
(***************************************************************************)
\* What is past stays past, and so is what has been sent.
LEMMA PastStays ==
  ASSUME TypeOK, TypeOK', NEW M, IdsGrow(M)
  PROVE  /\ \A n \in Nodes, t \in Sessions, i \in Ids :
              IsPast(session[n], nextId[n], t, i) => IsPast(session'[n], nextId'[n], t, i)
         /\ \A m \in M : m.from \in Nodes /\ IsPast(session'[m.from], nextId'[m.from], m.msg.session, m.msg.id)
<1>1. \A n \in Nodes : /\ session[n] \in Nat /\ session'[n] \in Nat
                       /\ nextId[n] \in Nat /\ nextId'[n] \in Nat
  BY DEF TypeOK, Sessions
<1>2. ASSUME NEW n \in Nodes, NEW t \in Sessions, NEW i \in Ids, IsPast(session[n], nextId[n], t, i)
      PROVE  IsPast(session'[n], nextId'[n], t, i)
  BY <1>1, <1>2 DEF IsPast, IdsGrow, Sessions, Ids
<1>3. ASSUME NEW m \in M
      PROVE  m.from \in Nodes /\ IsPast(session'[m.from], nextId'[m.from], m.msg.session, m.msg.id)
  <2>1. m.from \in Nodes
    BY DEF IdsGrow, Fresh
  <2>2. QED
    BY <1>1, <2>1 DEF IdsGrow, Fresh, IsPast
<1>4. QED
  BY <1>2, <1>3

\* A new message has an id that nothing has had.
LEMMA FreshIsNew ==
  ASSUME TypeOK, IdsUsedOnce, NEW m, Fresh(m)
  PROVE  /\ \A p \in Carried : ~(p.from = m.from /\ Request(p.msg) = Request(m.msg))
         /\ \A n \in Nodes : \A h \in history[n] : ~Of(h, m)
         /\ \A p \in net : p.msg.type = "ack" /\ session[p.to] = 1 /\ p.to = m.from => p.msg.id # m.msg.id
         /\ m.from = Caller => \A a \in asked : a[1] # Request(m.msg)
<1>1. m.from \in Nodes /\ ~IsPast(session[m.from], nextId[m.from], m.msg.session, m.msg.id)
  <2>1. m.from \in Nodes /\ session[m.from] \in Nat /\ nextId[m.from] \in Nat
    BY DEF Fresh, TypeOK, Sessions
  <2>2. QED
    BY <2>1 DEF Fresh, IsPast
<1>2. \A p \in Carried : ~(p.from = m.from /\ Request(p.msg) = Request(m.msg))
  BY <1>1 DEF IdsUsedOnce, Request
<1>3. \A n \in Nodes : \A h \in history[n] : ~Of(h, m)
  BY <1>1 DEF IdsUsedOnce, Of
<1>4. ASSUME NEW p \in net, p.msg.type = "ack", session[p.to] = 1, p.to = m.from
      PROVE  p.msg.id # m.msg.id
  <2>1. p.msg.id < nextId[m.from] /\ nextId[m.from] \in Nat
    BY <1>1, <1>4 DEF IdsUsedOnce, TypeOK
  <2>2. QED
    BY <2>1 DEF Fresh
<1>5. m.from = Caller => \A a \in asked : a[1] # Request(m.msg)
  BY <1>1 DEF IdsUsedOnce, Request
<1>6. QED
  BY <1>2, <1>3, <1>4, <1>5

\* What is under way has been sent.
LEMMA CarriedIsPast ==
  ASSUME TypeOK, IdsUsedOnce, NEW p \in Carried
  PROVE  /\ p \in [from : Nodes, to : Nodes, msg : Message]
         /\ p.from \in Nodes /\ p.to \in Nodes /\ p.msg \in Message
         /\ p.msg.session \in Sessions /\ p.msg.id \in Ids
         /\ IsPast(session[p.from], nextId[p.from], p.msg.session, p.msg.id)
<1>1. p \in [from : Nodes, to : Nodes, msg : Message]
  BY CarriedTypes
<1>2. p.from \in Nodes /\ p.to \in Nodes /\ p.msg \in Message
  BY <1>1
<1>3. QED
  BY <1>1, <1>2, Fields DEF IdsUsedOnce

\* Two messages with the same id are one.
LEMMA OneMessage ==
  ASSUME TypeOK, IdsUsedOnce, NEW M, IdsGrow(M)
  PROVE  \A p, q \in Carried \cup M : p.from = q.from /\ Request(p.msg) = Request(q.msg) => p = q
<1>1. SUFFICES ASSUME NEW p \in Carried \cup M, NEW q \in Carried \cup M,
                      p.from = q.from, Request(p.msg) = Request(q.msg)
               PROVE  p = q
  OBVIOUS
<1>2. CASE p \in M /\ q \in M
  BY <1>2 DEF IdsGrow
<1>3. CASE p \in Carried /\ q \in Carried
  BY <1>1, <1>3 DEF IdsUsedOnce
<1>4. CASE p \in M /\ q \in Carried
  BY <1>1, <1>4, FreshIsNew DEF IdsGrow
<1>5. CASE p \in Carried /\ q \in M
  BY <1>1, <1>5, FreshIsNew DEF IdsGrow
<1>6. QED
  BY <1>2, <1>3, <1>4, <1>5

LEMMA IdsKept ==
  ASSUME TypeOK, TypeOK', IdsUsedOnce, NEW M, Effects(M)
  PROVE  IdsUsedOnce'
<1> USE DEF Effects
<1>1. \A p \in Carried' : IsPast(session'[p.from], nextId'[p.from], p.msg.session, p.msg.id)
  <2>1. SUFFICES ASSUME NEW p \in Carried'
                 PROVE  IsPast(session'[p.from], nextId'[p.from], p.msg.session, p.msg.id)
    OBVIOUS
  <2>2. CASE p \in M
    BY <2>2, PastStays
  <2>3. CASE p \in Carried
    BY <2>3, CarriedIsPast, PastStays
  <2>4. QED
    BY <2>2, <2>3 DEF CarriedGrows
<1>2. \A n \in Nodes : \A h \in history'[n] : IsPast(session'[h.from], nextId'[h.from], h.session, h.id)
  <2>1. SUFFICES ASSUME NEW n \in Nodes, NEW h \in history'[n]
                 PROVE  IsPast(session'[h.from], nextId'[h.from], h.session, h.id)
    OBVIOUS
  <2>2. ASSUME NEW g \in history[n], Same(g, h)
        PROVE  IsPast(session'[h.from], nextId'[h.from], h.session, h.id)
    <3>1. g \in PeerRecord
      BY DEF TypeOK
    <3>2. g.from \in Nodes /\ g.session \in Sessions /\ g.id \in Ids
      BY <3>1, Fields
    <3>3. IsPast(session[g.from], nextId[g.from], g.session, g.id)
      BY DEF IdsUsedOnce
    <3>4. QED
      BY <2>2, <3>2, <3>3, PastStays DEF Same
  <2>3. ASSUME NEW p \in Carried, Of(h, p)
        PROVE  IsPast(session'[h.from], nextId'[h.from], h.session, h.id)
    BY <2>3, CarriedIsPast, PastStays DEF Of
  <2>4. ASSUME NEW p \in M, Of(h, p)
        PROVE  IsPast(session'[h.from], nextId'[h.from], h.session, h.id)
    BY <2>4, PastStays DEF Of
  <2>5. QED
    BY <2>2, <2>3, <2>4 DEF RecordsGrow
<1>3. \A p \in net' : p.msg.type = "ack" /\ session'[p.to] = 1 => p.msg.id < nextId'[p.to]
  <2>1. SUFFICES ASSUME NEW p \in net', p.msg.type = "ack", session'[p.to] = 1
                 PROVE  p.msg.id < nextId'[p.to]
    OBVIOUS
  <2>2. p \in Packet
    BY DEF TypeOK
  <2>3. p.to \in Nodes /\ p.msg.id \in Ids
    BY <2>2, Fields
  <2>4. session[p.to] = 1 /\ nextId'[p.to] >= nextId[p.to] /\ nextId[p.to] \in Nat /\ nextId'[p.to] \in Nat
    BY <2>1, <2>3 DEF IdsGrow, TypeOK, Sessions
  <2>5. CASE p \in net
    BY <2>1, <2>3, <2>4, <2>5 DEF IdsUsedOnce, Ids
  <2>6. ASSUME NEW q \in Carried, q.from = p.to, q.msg.id = p.msg.id
        PROVE  p.msg.id < nextId'[p.to]
    <3>1. q.msg.session \in Sessions /\ IsPast(session[q.from], nextId[q.from], q.msg.session, q.msg.id)
      BY CarriedIsPast
    <3>2. p.msg.id < nextId[p.to]
      BY <2>4, <2>6, <3>1 DEF IsPast, Sessions
    <3>3. QED
      BY <2>3, <2>4, <3>2 DEF Ids
  <2>7. QED
    BY <2>1, <2>5, <2>6 DEF AcksGrow
<1>4. \A a \in asked' : IsPast(session'[Caller], nextId'[Caller], a[1].session, a[1].id)
  <2>1. SUFFICES ASSUME NEW a \in asked'
                 PROVE  IsPast(session'[Caller], nextId'[Caller], a[1].session, a[1].id)
    OBVIOUS
  <2>2. CASE a \in asked
    <3>1. a[1] \in Requests
      BY <2>2 DEF TypeOK
    <3>2. a[1].session \in Sessions /\ a[1].id \in Ids
      BY <3>1 DEF Requests
    <3>3. QED
      BY <2>2, <3>2, CallerIsNode, PastStays DEF IdsUsedOnce
  <2>3. ASSUME NEW m \in M, m.from = Caller, a = <<Request(m.msg), m.to>>
        PROVE  IsPast(session'[Caller], nextId'[Caller], a[1].session, a[1].id)
    BY <2>3, PastStays DEF Request
  <2>4. QED
    BY <2>2, <2>3 DEF AskedGrows
<1>5. \A p, q \in Carried' : p.from = q.from /\ Request(p.msg) = Request(q.msg) => p = q
  BY OneMessage DEF CarriedGrows
<1>6. QED
  BY <1>1, <1>2, <1>3, <1>4, <1>5 DEF IdsUsedOnce, IsPast

\* The record of a message that is under way is not too old.
LEMMA RecordsYoung ==
  ASSUME TypeOK, RecordsLastLonger, TimesAssumption, GiveUp <= Window,
         NEW p \in Carried, NEW h \in history[p.to], Of(h, p)
  PROVE  h.age <= Window
<1>1. CASE p \in net /\ p.msg.type # "ack"
  <2>1. h.age <= GiveUp
    BY <1>1 DEF RecordsLastLonger
  <2>2. p \in Packet /\ p.to \in Nodes
    BY <1>1, Fields DEF TypeOK
  <2>3. h \in PeerRecord
    BY <2>2 DEF TypeOK
  <2>4. h.age \in Nat
    BY <2>3, Fields DEF TimesAssumption
  <2>5. QED
    BY <2>1, <2>4 DEF TimesAssumption
<1>2. ASSUME NEW n \in Nodes, NEW r \in pushing[n], p = [from |-> n, to |-> r.to, msg |-> r.msg]
      PROVE  h.age <= Window
  <2>1. h \in history[r.to] /\ h.from = n /\ h.session = r.msg.session /\ h.id = r.msg.id
    BY <1>2 DEF Of
  <2>2. h.age = 0
    BY <2>1 DEF RecordsLastLonger
  <2>3. QED
    BY <2>2 DEF TimesAssumption
<1>3. ASSUME NEW n \in Nodes, NEW r \in sndQueue[n], p = [from |-> n, to |-> r.to, msg |-> r.msg]
      PROVE  h.age <= Window
  <2>1. h \in history[r.to] /\ h.from = n /\ h.session = r.msg.session /\ h.id = r.msg.id
    BY <1>3 DEF Of
  <2>2. h.age <= r.age
    BY <2>1 DEF RecordsLastLonger
  <2>3. r \in SndRecord
    BY DEF TypeOK
  <2>4. r.to \in Nodes /\ r.age \in 0 .. GiveUp
    BY <2>3, Fields
  <2>5. h \in PeerRecord
    BY <2>1, <2>4 DEF TypeOK
  <2>6. h.age \in Nat
    BY <2>5, Fields DEF TimesAssumption
  <2>7. QED
    BY <2>2, <2>4, <2>6 DEF TimesAssumption
<1>4. QED
  BY <1>1, <1>2, <1>3, CarriedIs

\* So its receiver knows it as long as it runs.
LEMMA HitsKept ==
  ASSUME TypeOK, RecordsLastLonger, TimesAssumption, GiveUp <= Window, NEW M, RecordsGrow(M),
         NEW p \in Carried, session'[p.to] = session[p.to], \E h \in history[p.to] : Of(h, p)
  PROVE  \E h \in history'[p.to] : Of(h, p)
<1>1. PICK h \in history[p.to] : Of(h, p)
  OBVIOUS
<1>2. h.age <= Window
  BY <1>1, RecordsYoung
<1>3. p.to \in Nodes
  BY CarriedTypes
<1>4. PICK g \in history'[p.to] : Same(h, g)
  BY <1>2, <1>3 DEF RecordsGrow, Same
<1>5. QED
  BY <1>1, <1>4 DEF Of, Same

LEMMA AcksKept ==
  ASSUME TypeOK, TypeOK', IdsUsedOnce, RecordsLastLonger, AcksAreTrue,
         TimesAssumption, GiveUp <= Window, NEW M, Effects(M)
  PROVE  AcksAreTrue'
<1> USE DEF Effects
<1>1. SUFFICES ASSUME NEW p \in net', NEW q \in Carried', p.msg.type = "ack", session'[p.to] = 1,
                      q.from = p.to, q.msg.id = p.msg.id
               PROVE  /\ q.to = p.from
                      /\ q.msg.type = "data" /\ session'[p.from] = 1 => \E h \in history'[q.to] : Of(h, q)
  BY DEF AcksAreTrue, Of
<1>2. p \in Packet
  BY DEF TypeOK
<1>3. p.to \in Nodes /\ p.from \in Nodes
  BY <1>2, Fields
<1>4. session[p.to] = 1 /\ (session'[p.from] = 1 => session[p.from] = 1)
  BY <1>1, <1>3 DEF IdsGrow, TypeOK, Sessions
<1>5. CASE p \in net
  <2>1. q \notin M
    BY <1>1, <1>4, <1>5, FreshIsNew DEF IdsGrow
  <2>2. q \in Carried
    BY <2>1 DEF CarriedGrows
  <2>3. /\ q.to = p.from
        /\ q.msg.type = "data" /\ session[p.from] = 1 => \E h \in history[q.to] : Of(h, q)
    BY <1>1, <1>4, <1>5, <2>2 DEF AcksAreTrue
  <2>4. QED
    BY <1>4, <2>2, <2>3, HitsKept
<1>6. ASSUME NEW k \in Carried, k.from = p.to, k.to = p.from, k.msg.id = p.msg.id,
             k.msg.type = "data" => \E h \in history'[k.to] : Of(h, k)
      PROVE  /\ q.to = p.from
             /\ q.msg.type = "data" /\ session'[p.from] = 1 => \E h \in history'[q.to] : Of(h, q)
  <2>1. k.msg.session = 1
    BY <1>4, <1>6, CarriedIsPast DEF IsPast, Sessions
  <2>2. q \in Carried \/ (q \in M /\ q.msg.session = 1)
    BY <1>1, <1>4 DEF CarriedGrows, IdsGrow, Fresh
  <2>3. q.msg.session = 1
    BY <1>1, <1>4, <2>2, CarriedIsPast DEF IsPast, Sessions
  <2>4. Request(q.msg) = Request(k.msg)
    BY <1>1, <1>6, <2>1, <2>3 DEF Request
  <2>5. q \notin M
    BY <1>1, <1>6, <2>4, FreshIsNew DEF IdsGrow
  <2>6. q = k
    BY <1>1, <1>6, <2>2, <2>4, <2>5 DEF IdsUsedOnce
  <2>7. QED
    BY <1>6, <2>6
<1>7. QED
  BY <1>1, <1>5, <1>6 DEF AcksGrow

LEMMA AnswersKept ==
  ASSUME TypeOK, OnlyAnswersToRequests, NEW M, Effects(M)
  PROVE  OnlyAnswersToRequests'
<1> USE DEF Effects
<1>1. ASSUME NEW p \in Carried', p.from = Caller
      PROVE  /\ p.to \in Servers /\ p.msg.info = 0
             /\ p.msg.type = "data" => <<Request(p.msg), p.to>> \in asked'
  BY <1>1 DEF OnlyAnswersToRequests, CarriedGrows, AnswersGrow, AskedGrows
<1>2. ASSUME NEW p \in Carried', p.from # Caller
      PROVE  /\ p.to = Caller /\ p.msg.type = "data" /\ p.msg.info # 0
             /\ [session |-> p.msg.re, id |-> p.msg.info] \in everDone'
  BY <1>2 DEF OnlyAnswersToRequests, CarriedGrows, AnswersGrow
<1>3. rcvQueue'[Caller] = <<>>
  BY DEF AnswersGrow
<1>4. ASSUME NEW a \in resQueue'[Caller]
      PROVE  a.msg.info # 0 /\ [session |-> a.msg.re, id |-> a.msg.info] \in everDone'
  <2>1. CASE a \in resQueue[Caller]
    BY <2>1 DEF OnlyAnswersToRequests, AnswersGrow
  <2>2. ASSUME NEW p \in Carried, p.to = Caller, p.msg = a.msg, p.msg.info # 0
        PROVE  a.msg.info # 0 /\ [session |-> a.msg.re, id |-> a.msg.info] \in everDone'
    <3>1. p.from # Caller
      BY <2>2, CallerAssumption DEF OnlyAnswersToRequests
    <3>2. QED
      BY <2>2, <3>1 DEF OnlyAnswersToRequests, AnswersGrow
  <2>3. QED
    BY <2>1, <2>2 DEF AnswersGrow
<1>5. ASSUME NEW q \in everDone'
      PROVE  \E a \in asked' : a[1] = q
  BY DEF OnlyAnswersToRequests, AnswersGrow, AskedGrows
<1>6. QED
  BY <1>1, <1>2, <1>3, <1>4, <1>5 DEF OnlyAnswersToRequests

\* The queue of a server, and the requests in it.
LEMMA QueueFields ==
  ASSUME TypeOK, HandledOnce, NEW s \in Servers
  PROVE  /\ rcvQueue[s] \in Seq(Letter)
         /\ handled[s] \in [Requests -> Nat]
         /\ \A i \in DOMAIN rcvQueue[s] : Request(rcvQueue[s][i].msg) \in Requests
<1>1. rcvQueue[s] \in Seq(Letter) /\ handled[s] \in [Requests -> Nat]
  BY CallerIsNode DEF TypeOK, Letter
<1>2. ASSUME NEW i \in DOMAIN rcvQueue[s]
      PROVE  Request(rcvQueue[s][i].msg) \in Requests
  <2>1. <<Request(rcvQueue[s][i].msg), s>> \in asked
    BY DEF HandledOnce
  <2>2. QED
    BY <2>1 DEF TypeOK
<1>3. QED
  BY <1>1, <1>2

\* A server knows what it has had, if that comes again after a step.
LEMMA OldKnown ==
  ASSUME TypeOK, IdsUsedOnce, RecordsLastLonger, HandledOnce, TimesAssumption, GiveUp <= Window,
         NEW M, Effects(M), NEW s \in Servers, session'[s] = session[s],
         NEW p \in Carried', p.from = Caller, p.to = s, p.msg.type = "data",
         \/ handled[s][Request(p.msg)] = 1
         \/ \E i \in DOMAIN rcvQueue[s] : Request(rcvQueue[s][i].msg) = Request(p.msg)
  PROVE  \E h \in history'[s] : Of(h, p)
<1> USE DEF Effects
<1>1. Request(p.msg) \in Requests
  <2>1. p \in [from : Nodes, to : Nodes, msg : Message]
    BY CarriedTypes DEF CarriedGrows
  <2>2. p.msg \in Message
    BY <2>1
  <2>3. QED
    BY <2>2, Fields DEF Request, Requests
<1>2. <<Request(p.msg), s>> \in asked
  BY <1>1 DEF HandledOnce
<1>3. p \notin M
  BY <1>2, FreshIsNew DEF IdsGrow
<1>4. p \in Carried
  BY <1>3 DEF CarriedGrows
<1>5. \E h \in history[p.to] : Of(h, p)
  BY <1>4 DEF HandledOnce
<1>6. QED
  BY <1>4, <1>5, HitsKept

\* What one server has had, after a step: KnownOnce is HandledOnce of server s,
\* with the requests that were asked, its queue, what it has handled, the messages
\* that are under way and its history.
KnownOnce(s, A, Q, H, C, R) ==
  /\ \A q \in Requests : H[q] \in {0, 1} /\ (H[q] = 1 => <<q, s>> \in A)
  /\ \A i \in DOMAIN Q :
       /\ Q[i].from = Caller
       /\ <<Request(Q[i].msg), s>> \in A
       /\ H[Request(Q[i].msg)] = 0
       /\ \A j \in DOMAIN Q : Request(Q[i].msg) = Request(Q[j].msg) => i = j
  /\ \A p \in C :
       /\ p.from = Caller /\ p.to = s /\ p.msg.type = "data"
       /\ \/ H[Request(p.msg)] = 1
          \/ \E i \in DOMAIN Q : Request(Q[i].msg) = Request(p.msg)
       => \E h \in R : Of(h, p)

LEMMA KnownOnceIsNext ==
  ASSUME OnlyAnswersToRequests',
         \A s \in Servers : KnownOnce(s, asked', rcvQueue'[s], handled'[s], Carried', history'[s])
  PROVE  HandledOnce'
<1>1. \A s \in Servers, q \in Requests : handled'[s][q] \in {0, 1} /\ (handled'[s][q] = 1 => <<q, s>> \in asked')
  BY DEF KnownOnce
<1>2. \A s \in Servers : \A i \in DOMAIN rcvQueue'[s] :
       /\ rcvQueue'[s][i].from = Caller
       /\ <<Request(rcvQueue'[s][i].msg), s>> \in asked'
       /\ handled'[s][Request(rcvQueue'[s][i].msg)] = 0
       /\ \A j \in DOMAIN rcvQueue'[s] : Request(rcvQueue'[s][i].msg) = Request(rcvQueue'[s][j].msg) => i = j
  BY DEF KnownOnce
<1>3. ASSUME NEW p \in Carried', p.from = Caller, p.msg.type = "data",
             \/ handled'[p.to][Request(p.msg)] = 1
             \/ \E i \in DOMAIN rcvQueue'[p.to] : Request(rcvQueue'[p.to][i].msg) = Request(p.msg)
      PROVE  \E h \in history'[p.to] : Of(h, p)
  <2>1. p.to \in Servers
    BY <1>3 DEF OnlyAnswersToRequests
  <2>2. KnownOnce(p.to, asked', rcvQueue'[p.to], handled'[p.to], Carried', history'[p.to])
    BY <2>1
  <2>3. QED
    BY <1>3, <2>2 DEF KnownOnce
<1>4. QED
  BY <1>1, <1>2, <1>3 DEF HandledOnce

\* The packet that a server gets is new.
LEMMA GotIsNew ==
  ASSUME TypeOK, IdsUsedOnce, OnlyAnswersToRequests, HandledOnce, NEW M, Effects(M),
         NEW s \in Servers, NEW p \in Carried \cup M, Gets(s, p)
  PROVE  /\ p.from = Caller /\ Request(p.msg) \in Requests
         /\ <<Request(p.msg), s>> \in asked'
         /\ handled[s][Request(p.msg)] = 0
         /\ \A i \in DOMAIN rcvQueue[s] : Request(rcvQueue[s][i].msg) # Request(p.msg)
<1> USE DEF Effects
<1>1. p \in [from : Nodes, to : Nodes, msg : Message]
  BY CarriedTypes
<1>2. p.to = s /\ p.msg \in Message /\ p.msg.type = "data" /\ p.to # Caller
  BY <1>1, CallerAssumption DEF Gets
<1>3. Request(p.msg) \in Requests
  BY <1>2, Fields DEF Request, Requests
<1>4. p.from = Caller
  BY <1>2 DEF OnlyAnswersToRequests, AnswersGrow
<1>5. <<Request(p.msg), s>> \in asked'
  BY <1>2, <1>4 DEF OnlyAnswersToRequests, AnswersGrow, AskedGrows
<1>6. CASE p \in Carried
  <2>1. ~\E h \in history[p.to] : Of(h, p)
    BY <1>2 DEF Gets
  <2>2. handled[s][Request(p.msg)] # 1 /\ \A i \in DOMAIN rcvQueue[s] : Request(rcvQueue[s][i].msg) # Request(p.msg)
    BY <1>2, <1>4, <1>6, <2>1 DEF HandledOnce
  <2>3. QED
    BY <1>3, <1>4, <1>5, <2>2 DEF HandledOnce
<1>7. CASE p \in M
  <2>1. \A a \in asked : a[1] # Request(p.msg)
    BY <1>4, <1>7, FreshIsNew DEF IdsGrow
  <2>2. <<Request(p.msg), s>> \notin asked
    BY <2>1
  <2>3. \A i \in DOMAIN rcvQueue[s] : Request(rcvQueue[s][i].msg) # Request(p.msg)
    <3>1. \A i \in DOMAIN rcvQueue[s] : <<Request(rcvQueue[s][i].msg), s>> \in asked
      BY DEF HandledOnce
    <3>2. QED
      BY <2>2, <3>1
  <2>4. QED
    BY <1>3, <1>4, <1>5, <2>2, <2>3 DEF HandledOnce
<1>8. QED
  BY <1>6, <1>7

LEMMA HandledKept ==
  ASSUME TypeOK, IdsUsedOnce, RecordsLastLonger, OnlyAnswersToRequests, OnlyAnswersToRequests', HandledOnce,
         TimesAssumption, GiveUp <= Window, NEW M, Effects(M)
  PROVE  HandledOnce'
<1>1. SUFFICES ASSUME NEW s \in Servers
               PROVE  KnownOnce(s, asked', rcvQueue'[s], handled'[s], Carried', history'[s])
  BY KnownOnceIsNext
<1>2. rcvQueue[s] \in Seq(Letter) /\ handled[s] \in [Requests -> Nat]
      /\ \A i \in DOMAIN rcvQueue[s] : Request(rcvQueue[s][i].msg) \in Requests
  BY QueueFields
<1>3. asked \subseteq asked'
  BY DEF Effects, AskedGrows
<1>4. CASE Restarts(s)
  <2>1. /\ \A q \in Requests : handled'[s][q] = 0
        /\ DOMAIN rcvQueue'[s] = {}
    BY <1>4 DEF Restarts
  <2>2. \A p \in Carried' : p.msg.type = "data" => Request(p.msg) \in Requests
    <3>1. \A p \in Carried' : p.msg \in Message
      BY CarriedTypes DEF Effects, CarriedGrows
    <3>2. QED
      BY <3>1, Fields DEF Request, Requests
  <2>3. QED
    BY <2>1, <2>2 DEF KnownOnce
<1>5. CASE GoesOn(s)
  <2>1. ASSUME NEW p \in Carried', p.from = Caller, p.to = s, p.msg.type = "data",
               \/ handled[s][Request(p.msg)] = 1
               \/ \E i \in DOMAIN rcvQueue[s] : Request(rcvQueue[s][i].msg) = Request(p.msg)
        PROVE  \E h \in history'[s] : Of(h, p)
    BY <1>5, <2>1, OldKnown DEF GoesOn
  <2>2. \A q \in Requests : handled[s][q] \in {0, 1} /\ (handled[s][q] = 1 => <<q, s>> \in asked')
    BY <1>3 DEF HandledOnce
  <2>3. \A i \in DOMAIN rcvQueue[s] :
          /\ rcvQueue[s][i].from = Caller
          /\ <<Request(rcvQueue[s][i].msg), s>> \in asked'
          /\ handled[s][Request(rcvQueue[s][i].msg)] = 0
          /\ \A j \in DOMAIN rcvQueue[s] : Request(rcvQueue[s][i].msg) = Request(rcvQueue[s][j].msg) => i = j
    BY <1>3 DEF HandledOnce
  <2>4. KnownOnce(s, asked', rcvQueue[s], handled[s], Carried', history'[s])
    BY <2>1, <2>2, <2>3 DEF KnownOnce
  <2>5. QED
    BY <1>5, <2>4 DEF GoesOn
<1>6. ASSUME NEW k \in Carried \cup M, Gets(s, k)
      PROVE  KnownOnce(s, asked', rcvQueue'[s], handled'[s], Carried', history'[s])
  <2> DEFINE Q == rcvQueue[s]
             r == [from |-> k.from, msg |-> k.msg]
             L == Append(Q, r)
  <2>1. /\ k.from = Caller /\ Request(k.msg) \in Requests
        /\ <<Request(k.msg), s>> \in asked'
        /\ handled[s][Request(k.msg)] = 0
        /\ \A i \in DOMAIN Q : Request(Q[i].msg) # Request(k.msg)
    BY <1>6, GotIsNew
  <2>2. rcvQueue'[s] = L /\ handled'[s] = handled[s] /\ session'[s] = session[s]
    BY <1>6 DEF Gets
  <2>3. /\ DOMAIN L = 1 .. Len(Q) + 1 /\ DOMAIN Q = 1 .. Len(Q) /\ Len(Q) \in Nat
        /\ L[Len(Q) + 1] = r /\ \A i \in DOMAIN Q : L[i] = Q[i]
    BY <1>2
  <2> HIDE DEF L
  <2>4. \A i \in DOMAIN L : i \in DOMAIN Q \/ i = Len(Q) + 1
    BY <2>3
  <2>5. \A i \in DOMAIN L : (i \in DOMAIN Q /\ L[i] = Q[i]) \/ (i = Len(Q) + 1 /\ L[i] = r)
    BY <2>3, <2>4
  <2>6. \A q \in Requests : handled[s][q] \in {0, 1} /\ (handled[s][q] = 1 => <<q, s>> \in asked')
    BY <1>3 DEF HandledOnce
  <2>7. \A i \in DOMAIN Q :
          /\ Q[i].from = Caller
          /\ <<Request(Q[i].msg), s>> \in asked'
          /\ handled[s][Request(Q[i].msg)] = 0
          /\ \A j \in DOMAIN Q : Request(Q[i].msg) = Request(Q[j].msg) => i = j
    BY <1>3 DEF HandledOnce
  <2>8. r.from = Caller /\ r.msg = k.msg
    BY <2>1
  <2>9. ASSUME NEW i \in DOMAIN L
        PROVE  /\ L[i].from = Caller
               /\ <<Request(L[i].msg), s>> \in asked'
               /\ handled[s][Request(L[i].msg)] = 0
    BY <2>1, <2>5, <2>7, <2>8
  <2>10. ASSUME NEW i \in DOMAIN L, NEW j \in DOMAIN L, Request(L[i].msg) = Request(L[j].msg)
         PROVE  i = j
    <3>1. CASE i \in DOMAIN Q /\ L[i] = Q[i] /\ j \in DOMAIN Q /\ L[j] = Q[j]
      BY <2>7, <2>10, <3>1
    <3>2. CASE i \in DOMAIN Q /\ L[i] = Q[i] /\ L[j] = r
      BY <2>1, <2>8, <2>10, <3>2
    <3>3. CASE L[i] = r /\ j \in DOMAIN Q /\ L[j] = Q[j]
      BY <2>1, <2>8, <2>10, <3>3
    <3>4. QED
      BY <2>5, <3>1, <3>2, <3>3
  <2>11. ASSUME NEW p \in Carried', p.from = Caller, p.to = s, p.msg.type = "data",
                \/ handled[s][Request(p.msg)] = 1
                \/ \E i \in DOMAIN L : Request(L[i].msg) = Request(p.msg)
         PROVE  \E h \in history'[s] : Of(h, p)
    <3>1. CASE \/ handled[s][Request(p.msg)] = 1
               \/ \E i \in DOMAIN Q : Request(Q[i].msg) = Request(p.msg)
      BY <2>2, <2>11, <3>1, OldKnown
    <3>2. CASE Request(k.msg) = Request(p.msg)
      <4>1. p = k
        BY <2>1, <2>11, <3>2, OneMessage DEF Effects, CarriedGrows
      <4>2. QED
        BY <1>6, <4>1 DEF Gets
    <3>3. QED
      BY <2>5, <2>8, <2>11, <3>1, <3>2
  <2>12. KnownOnce(s, asked', L, handled[s], Carried', history'[s])
    BY <2>6, <2>9, <2>10, <2>11 DEF KnownOnce
  <2>13. QED
    BY <2>2, <2>12 DEF L
<1>7. CASE HandlesFirst(s)
  <2> DEFINE Q == rcvQueue[s]
             q0 == Request(Head(Q).msg)
             L == Tail(Q)
             H == [handled[s] EXCEPT ![q0] = @ + 1]
  <2>1. rcvQueue'[s] = L /\ handled'[s] = H /\ session'[s] = session[s] /\ Q # <<>>
    BY <1>7 DEF HandlesFirst
  <2>2. /\ Q \in Seq(Letter) /\ DOMAIN Q = 1 .. Len(Q) /\ Len(Q) \in Nat \ {0} /\ Head(Q) = Q[1]
        /\ DOMAIN L = 1 .. Len(Q) - 1 /\ \A i \in DOMAIN L : L[i] = Q[i + 1] /\ i + 1 \in DOMAIN Q /\ i + 1 # 1
    BY <1>2, <2>1
  <2>3. \A q \in Requests : handled[s][q] \in {0, 1} /\ (handled[s][q] = 1 => <<q, s>> \in asked')
    BY <1>3 DEF HandledOnce
  <2>4. \A i \in DOMAIN Q :
          /\ Q[i].from = Caller
          /\ <<Request(Q[i].msg), s>> \in asked'
          /\ handled[s][Request(Q[i].msg)] = 0
          /\ \A j \in DOMAIN Q : Request(Q[i].msg) = Request(Q[j].msg) => i = j
    BY <1>3 DEF HandledOnce
  <2>5. 1 \in DOMAIN Q
    BY <2>2
  <2>6. q0 = Request(Q[1].msg) /\ q0 \in Requests /\ handled[s][q0] = 0 /\ <<q0, s>> \in asked'
    BY <1>2, <2>2, <2>4, <2>5
  <2>7. H[q0] = 1 /\ \A q \in Requests : q # q0 => H[q] = handled[s][q]
    BY <1>2, <2>6
  <2>8. \A q \in Requests : H[q] \in {0, 1} /\ (H[q] = 1 => <<q, s>> \in asked')
    BY <2>3, <2>6, <2>7
  <2>9. \A i \in DOMAIN L : Request(L[i].msg) # q0 /\ Request(L[i].msg) \in Requests
    <3>1. SUFFICES ASSUME NEW i \in DOMAIN L
                   PROVE  Request(L[i].msg) # q0 /\ Request(L[i].msg) \in Requests
      OBVIOUS
    <3>2. L[i] = Q[i + 1] /\ i + 1 \in DOMAIN Q /\ i + 1 # 1
      BY <2>2
    <3>3. Request(Q[i + 1].msg) \in Requests
      BY <1>2, <3>2
    <3>4. Request(Q[i + 1].msg) # Request(Q[1].msg)
      BY <2>4, <2>5, <3>2
    <3>5. QED
      BY <2>6, <3>2, <3>3, <3>4
  <2>10. ASSUME NEW i \in DOMAIN L
         PROVE  /\ L[i].from = Caller
                /\ <<Request(L[i].msg), s>> \in asked'
                /\ H[Request(L[i].msg)] = 0
    BY <2>2, <2>4, <2>7, <2>9
  <2>11. ASSUME NEW i \in DOMAIN L, NEW j \in DOMAIN L, Request(L[i].msg) = Request(L[j].msg)
         PROVE  i = j
    <3>1. Request(Q[i + 1].msg) = Request(Q[j + 1].msg) /\ i + 1 \in DOMAIN Q /\ j + 1 \in DOMAIN Q
      BY <2>2, <2>11
    <3>2. i + 1 = j + 1
      BY <2>4, <3>1
    <3>3. i \in Nat /\ j \in Nat
      BY <2>2
    <3>4. QED
      BY <3>2, <3>3
  <2>12. ASSUME NEW p \in Carried', p.from = Caller, p.to = s, p.msg.type = "data",
                \/ H[Request(p.msg)] = 1
                \/ \E i \in DOMAIN L : Request(L[i].msg) = Request(p.msg)
         PROVE  \E h \in history'[s] : Of(h, p)
    <3>1. Request(p.msg) \in Requests
      <4>1. p.msg \in Message
        BY CarriedTypes DEF Effects, CarriedGrows
      <4>2. QED
        BY <4>1, Fields DEF Request, Requests
    <3>2. \/ handled[s][Request(p.msg)] = 1
          \/ \E i \in DOMAIN Q : Request(Q[i].msg) = Request(p.msg)
      BY <2>2, <2>5, <2>6, <2>7, <2>12, <3>1
    <3>3. QED
      BY <2>1, <2>12, <3>2, OldKnown
  <2>13. KnownOnce(s, asked', L, H, Carried', history'[s])
    BY <2>8, <2>10, <2>11, <2>12 DEF KnownOnce
  <2>14. QED
    BY <2>1, <2>13
<1>8. QED
  BY <1>4, <1>5, <1>6, <1>7 DEF Effects, Serves

\* A step within a second: messages go from pushing to the queue, or are sent.
MessagesGrow(M) ==
  /\ \A n \in Nodes : \A r \in pushing'[n] :
       r \in pushing[n] \/ [from |-> n, to |-> r.to, msg |-> r.msg] \in M
  /\ \A n \in Nodes : \A r \in sndQueue'[n] :
       r \in sndQueue[n] \/ (r.age = 0 /\ [to |-> r.to, msg |-> r.msg] \in pushing[n])
  /\ \A p \in net' : p.msg.type = "ack" \/ p \in net \/ p \in M
  /\ \A n \in Nodes : \A h \in history'[n] : h \in history[n] \/ h.age = 0

LEMMA MessagesCarried ==
  ASSUME TypeOK, NEW M, MessagesGrow(M)
  PROVE  CarriedGrows(M)
<1>1. SUFFICES ASSUME NEW p \in Carried', p \notin M PROVE p \in Carried
  BY DEF CarriedGrows
<1>2. CASE p \in net' /\ p.msg.type # "ack"
  BY <1>1, <1>2, CarriedIs DEF MessagesGrow
<1>3. ASSUME NEW n \in Nodes, NEW r \in pushing'[n], p = [from |-> n, to |-> r.to, msg |-> r.msg]
      PROVE  p \in Carried
  BY <1>1, <1>3, CarriedIs DEF MessagesGrow
<1>4. ASSUME NEW n \in Nodes, NEW r \in sndQueue'[n], p = [from |-> n, to |-> r.to, msg |-> r.msg]
      PROVE  p \in Carried
  <2>1. CASE r \in sndQueue[n]
    BY <1>4, <2>1, CarriedIs
  <2>2. CASE [to |-> r.to, msg |-> r.msg] \in pushing[n]
    <3>1. PICK k \in pushing[n] : k = [to |-> r.to, msg |-> r.msg]
      BY <2>2
    <3>2. p = [from |-> n, to |-> k.to, msg |-> k.msg]
      BY <1>4, <3>1
    <3>3. QED
      BY <3>2, CarriedIs
  <2>3. QED
    BY <2>1, <2>2 DEF MessagesGrow
<1>5. QED
  BY <1>1, <1>2, <1>3, <1>4, CarriedIsNext

LEMMA RecordsKept ==
  ASSUME TypeOK, TypeOK', IdsUsedOnce, RecordsLastLonger, TimesAssumption,
         NEW M, IdsGrow(M), MessagesGrow(M)
  PROVE  RecordsLastLonger'
<1>1. ASSUME NEW m \in M, NEW n \in Nodes, NEW h \in history'[n],
             h.from = m.from, h.session = m.msg.session, h.id = m.msg.id
      PROVE  h.age = 0
  BY <1>1, FreshIsNew DEF IdsGrow, MessagesGrow, Of
<1>2. ASSUME NEW n \in Nodes, NEW r \in pushing'[n], NEW h \in history'[r.to],
             h.from = n, h.session = r.msg.session, h.id = r.msg.id
      PROVE  h.age = 0
  <2>1. r \in Sent
    BY DEF TypeOK, Sent
  <2>2. r.to \in Nodes
    BY <2>1, Fields
  <2>3. CASE r \in pushing[n] /\ h \in history[r.to]
    BY <1>2, <2>3 DEF RecordsLastLonger
  <2>4. CASE [from |-> n, to |-> r.to, msg |-> r.msg] \in M
    <3>1. PICK m \in M : m.from = n /\ m.msg = r.msg
      BY <2>4
    <3>2. QED
      BY <1>1, <1>2, <2>2, <3>1
  <2>5. QED
    BY <2>2, <2>3, <2>4 DEF MessagesGrow
<1>3. ASSUME NEW n \in Nodes, NEW r \in sndQueue'[n], NEW h \in history'[r.to],
             h.from = n, h.session = r.msg.session, h.id = r.msg.id
      PROVE  h.age <= r.age
  <2>1. r \in SndRecord
    BY DEF TypeOK
  <2>2. r.to \in Nodes /\ r.age \in Nat
    BY <2>1, Fields DEF TimesAssumption
  <2>3. CASE h.age = 0
    BY <2>2, <2>3
  <2>4. CASE r \in sndQueue[n] /\ h \in history[r.to]
    BY <1>3, <2>4 DEF RecordsLastLonger
  <2>5. CASE h \in history[r.to] /\ [to |-> r.to, msg |-> r.msg] \in pushing[n]
    <3>1. PICK k \in pushing[n] : k.to = r.to /\ k.msg = r.msg
      BY <2>5
    <3>2. h.age = 0
      BY <1>3, <2>5, <3>1 DEF RecordsLastLonger
    <3>3. QED
      BY <2>2, <3>2
  <2>6. QED
    BY <2>2, <2>3, <2>4, <2>5 DEF MessagesGrow
<1>4. ASSUME NEW p \in net', p.msg.type # "ack", NEW h \in history'[p.to], Of(h, p)
      PROVE  h.age <= GiveUp
  <2>1. p \in Packet
    BY DEF TypeOK
  <2>2. p.to \in Nodes
    BY <2>1, Fields
  <2>3. CASE h.age = 0
    BY <2>3 DEF TimesAssumption
  <2>4. CASE p \in net /\ h \in history[p.to]
    BY <1>4, <2>4 DEF RecordsLastLonger
  <2>5. CASE p \in M
    <3>1. h.age = 0
      BY <1>1, <1>4, <2>2, <2>5 DEF Of
    <3>2. QED
      BY <3>1 DEF TimesAssumption
  <2>6. QED
    BY <1>4, <2>2, <2>3, <2>4, <2>5 DEF MessagesGrow
<1>5. QED
  BY <1>2, <1>3, <1>4 DEF RecordsLastLonger, Of

\* A call that goes on is in its place.
LEMMA AskedInPlace ==
  ASSUME NEW c \in Call, InPlace(c), c.st = "send", NEW id \in 0 .. MaxId
  PROVE  InPlace(Asked(c, id))
<1>1. c.dests \in Seq(Servers) /\ c.ids \in Seq(0 .. MaxId) /\ c.pos \in Nat
  BY CallFields
<1>2. c.pos \in 1 .. Len(c.dests) /\ Len(c.ids) = c.pos - 1 /\ Len(c.dests) \in Nat
  BY <1>1 DEF InPlace
<1>3. Len(Append(c.ids, id)) = c.pos
  BY <1>1, <1>2
<1>4. PICK a : a = Asked(c, id)
  OBVIOUS
<1>5. /\ a.dests = c.dests /\ a.ids = Append(c.ids, id)
      /\ a.pos = IF c.pos = Len(c.dests) THEN 1 ELSE c.pos + 1
      /\ a.st = IF c.pos = Len(c.dests) THEN "recv" ELSE "send"
  BY <1>4 DEF Asked, Call
<1>6. DOMAIN c.dests = 1 .. Len(c.dests)
  BY <1>1
<1>7. InPlace(a)
  BY <1>2, <1>3, <1>5, <1>6 DEF InPlace
<1>8. QED
  BY <1>4, <1>7

LEMMA AnsweredInPlace ==
  ASSUME NEW c \in Call, InPlace(c), c.st \in {"recv", "rtt"}
  PROVE  InPlace(Answered(c))
<1>1. c.dests \in Seq(Servers) /\ c.ids \in Seq(0 .. MaxId) /\ c.pos \in Nat
  BY CallFields
<1>2. c.pos \in 1 .. Len(c.dests) /\ Len(c.ids) = Len(c.dests) /\ Len(c.dests) \in Nat
  BY <1>1 DEF InPlace
<1>3. PICK a : a = Answered(c)
  OBVIOUS
<1>4. /\ a.dests = c.dests /\ a.ids = c.ids /\ a.pos = c.pos + 1
      /\ a.st = IF c.pos = Len(c.dests) THEN "done" ELSE "recv"
  BY <1>3 DEF Answered, Call
<1>5. DOMAIN c.dests = 1 .. Len(c.dests)
  BY <1>1
<1>6. InPlace(a)
  BY <1>2, <1>4, <1>5 DEF InPlace
<1>7. QED
  BY <1>3, <1>6

-----------------------------------------------------------------------------
(***************************************************************************)
(* The steps of a call that send nothing.                                  *)
(***************************************************************************)
Quiet ==
  /\ UNCHANGED <<session, sndQueue, pushing, net, rcvQueue, history, rtt, asked, handled, everDone>>
  /\ \A n \in Nodes : nextId'[n] >= nextId[n]
  /\ \A n \in Nodes : resQueue'[n] \subseteq resQueue[n]

LEMMA QuietEffects ==
  ASSUME TypeOK, OnlyAnswersToRequests, Quiet
  PROVE  Effects({}) /\ MessagesGrow({})
<1> USE DEF Quiet
<1>1. MessagesGrow({})
  BY DEF MessagesGrow
<1>2. CarriedGrows({})
  BY <1>1, MessagesCarried
<1>3. IdsGrow({})
  BY DEF IdsGrow
<1>4. RecordsGrow({})
  BY DEF RecordsGrow, Same
<1>5. AcksGrow /\ AskedGrows({})
  BY DEF AcksGrow, AskedGrows
<1>6. AnswersGrow({})
  BY CallerIsNode DEF AnswersGrow, OnlyAnswersToRequests
<1>7. Serves({})
  BY DEF Serves, GoesOn
<1>8. QED
  BY <1>1, <1>2, <1>3, <1>4, <1>5, <1>6, <1>7 DEF Effects

\* An id of the caller is used up.
LEMMA UsedTypes ==
  ASSUME TypeOK, nextId[Caller] \in Ids, Used(Caller)
  PROVE  nextId' \in [Nodes -> 1 .. MaxId + 1] /\ \A n \in Nodes : nextId'[n] >= nextId[n]
<1>1. nextId[Caller] \in 1 .. MaxId /\ nextId \in [Nodes -> 1 .. MaxId + 1] /\ Caller \in Nodes
  BY CallerIsNode DEF TypeOK, Ids
<1>2. QED
  BY <1>1, BoundsAssumption DEF Used

LEMMA CallChanges ==
  ASSUME TypeOK, CallsInPlace, NEW t \in Threads, NEW c, InPlace(c), call' = [call EXCEPT ![t] = c]
  PROVE  CallsInPlace'
<1>1. \A u \in Threads : call'[u] = IF u = t THEN c ELSE call[u]
  BY DEF TypeOK
<1>2. \A u \in Threads : InPlace(call'[u])
  BY <1>1 DEF CallsInPlace
<1>3. QED
  BY <1>2 DEF CallsInPlace, InPlace

LEMMA IdleIsCall ==
  ASSUME TimesAssumption
  PROVE  Idle \in Call
<1>1. <<>> \in Seq(Servers) /\ <<>> \in Seq(0 .. MaxId) /\ 0 \in 0 .. MaxErr /\ 0 \in 0 .. MaxRounds
  BY DEF TimesAssumption
<1>2. QED
  BY <1>1 DEF Idle, Call

LEMMA BeginStep ==
  ASSUME TypeOK, CallsInPlace, TimesAssumption, NEW t \in Threads, Begin(t)
  PROVE  TypeOK' /\ CallsInPlace' /\ Quiet
<1>1. PICK d \in Dests : call' = [call EXCEPT ![t] = [Idle EXCEPT !.st = "send", !.dests = d, !.pos = 1]]
  BY DEF Begin
<1>2. PICK c : c = [Idle EXCEPT !.st = "send", !.dests = d, !.pos = 1]
  OBVIOUS
<1>3. d \in Seq(Servers) /\ Len(d) \in Nat \ {0} /\ 1 \in DOMAIN d
  BY DestsAssumption
<1>4. c = [st |-> "send", dests |-> d, ids |-> <<>>, pos |-> 1, err |-> 0, round |-> 0]
  BY <1>2 DEF Idle
<1>5. c \in Call
  <2>1. <<>> \in Seq(0 .. MaxId) /\ 0 \in 0 .. MaxErr /\ 0 \in 0 .. MaxRounds
    BY DEF TimesAssumption
  <2>2. QED
    BY <1>3, <1>4, <2>1 DEF Call
<1>6. call' \in [Threads -> Call]
  BY <1>1, <1>2, <1>5 DEF TypeOK
<1>7. TypeOK'
  BY <1>6 DEF Begin, TypeOK, nodeVars, ghosts
<1>8. Quiet
  BY DEF Begin, Quiet, nodeVars, ghosts, TypeOK
<1>9. CallsInPlace'
  <2>1. Len(<<>>) = 0
    OBVIOUS
  <2>2. InPlace(c)
    BY <1>3, <1>4, <2>1 DEF InPlace
  <2>3. QED
    BY <1>1, <1>2, <2>2, CallChanges
<1>10. QED
  BY <1>7, <1>8, <1>9

LEMMA SendFailsStep ==
  ASSUME TypeOK, CallsInPlace, TimesAssumption, NEW t \in Threads, SendFails(t)
  PROVE  TypeOK' /\ CallsInPlace' /\ Quiet
<1>1. AfterSend(t, 0) /\ 0 \in 0 .. MaxId /\ call[t] \in Call /\ call[t].st = "send"
  BY BoundsAssumption DEF SendFails, TypeOK
<1>2. call' = [call EXCEPT ![t] = Asked(call[t], 0)] /\ call' \in [Threads -> Call]
  BY <1>1, AfterSendAsked
<1>3. nextId' \in [Nodes -> 1 .. MaxId + 1] /\ \A n \in Nodes : nextId'[n] >= nextId[n]
  BY UsedTypes DEF SendFails
<1>4. TypeOK'
  BY <1>2, <1>3 DEF SendFails, TypeOK, ghosts
<1>5. Quiet
  BY <1>3 DEF SendFails, Quiet, ghosts
<1>6. CallsInPlace'
  BY <1>1, <1>2, AskedInPlace, CallChanges DEF CallsInPlace
<1>7. QED
  BY <1>4, <1>5, <1>6

LEMMA SkipStep ==
  ASSUME TypeOK, CallsInPlace, TimesAssumption, NEW t \in Threads, Skip(t)
  PROVE  TypeOK' /\ CallsInPlace' /\ Quiet
<1>1. AfterAnswer(t) /\ call[t] \in Call /\ call[t].st = "recv"
  BY DEF Skip, TypeOK
<1>2. call' = [call EXCEPT ![t] = Answered(call[t])] /\ call' \in [Threads -> Call]
  BY <1>1, AfterAnswerAnswered
<1>3. TypeOK'
  BY <1>2 DEF Skip, TypeOK, nodeVars, ghosts
<1>4. Quiet
  BY DEF Skip, Quiet, nodeVars, ghosts, TypeOK
<1>5. CallsInPlace'
  BY <1>1, <1>2, AnsweredInPlace, CallChanges DEF CallsInPlace
<1>6. QED
  BY <1>3, <1>4, <1>5

LEMMA ReceiveStep ==
  ASSUME TypeOK, CallsInPlace, TimesAssumption, NEW t \in Threads, Receive(t)
  PROVE  TypeOK' /\ CallsInPlace' /\ Quiet
<1>1. AfterAnswer(t) /\ call[t] \in Call /\ call[t].st = "recv"
  BY DEF Receive, TypeOK
<1>2. call' = [call EXCEPT ![t] = Answered(call[t])] /\ call' \in [Threads -> Call]
  BY <1>1, AfterAnswerAnswered
<1>3. PICK a \in resQueue[Caller] : resQueue' = [resQueue EXCEPT ![Caller] = @ \ {a}]
  BY DEF Receive
<1>4. resQueue' \in [Nodes -> SUBSET [from : Nodes, msg : Message]] /\ \A n \in Nodes : resQueue'[n] \subseteq resQueue[n]
  BY <1>3 DEF TypeOK
<1>5. outcome' \in [Requests -> {"none", "ok", "failed"}]
  BY DEF Receive, TypeOK
<1>6. TypeOK'
  BY <1>2, <1>4, <1>5 DEF Receive, TypeOK
<1>7. Quiet
  BY <1>4 DEF Receive, Quiet, TypeOK
<1>8. CallsInPlace'
  BY <1>1, <1>2, AnsweredInPlace, CallChanges DEF CallsInPlace
<1>9. QED
  BY <1>6, <1>7, <1>8

LEMMA GiveUpCallStep ==
  ASSUME TypeOK, CallsInPlace, TimesAssumption, NEW t \in Threads, GiveUpCall(t)
  PROVE  TypeOK' /\ CallsInPlace' /\ Quiet
<1>1. AfterAnswer(t) /\ call[t] \in Call /\ call[t].st = "rtt"
  BY DEF GiveUpCall, TypeOK
<1>2. call' = [call EXCEPT ![t] = Answered(call[t])] /\ call' \in [Threads -> Call]
  BY <1>1, AfterAnswerAnswered
<1>3. outcome' \in [Requests -> {"none", "ok", "failed"}]
  BY DEF GiveUpCall, TypeOK
<1>4. TypeOK'
  BY <1>2, <1>3 DEF GiveUpCall, TypeOK, nodeVars
<1>5. Quiet
  BY DEF GiveUpCall, Quiet, nodeVars, TypeOK
<1>6. CallsInPlace'
  BY <1>1, <1>2, AnsweredInPlace, CallChanges DEF CallsInPlace
<1>7. QED
  BY <1>4, <1>5, <1>6

LEMMA ProbeEndsStep ==
  ASSUME TypeOK, CallsInPlace, TimesAssumption, NEW t \in Threads, ProbeEnds(t)
  PROVE  TypeOK' /\ CallsInPlace' /\ Quiet
<1>1. call[t] \in Call /\ call[t].st = "rtt" /\ call[t].round < MaxRounds
  BY DEF ProbeEnds, TypeOK
<1>2. PICK e \in 0 .. MaxErr : e = Errors(t)
  <2>1. call[t].err \in 0 .. MaxErr
    BY <1>1, CallFields
  <2>2. Errors(t) \in Nat /\ Errors(t) <= MaxErr
    BY <2>1, TimesAssumption DEF Errors, ProbeEnds, TimesAssumption
  <2>3. QED
    BY <2>2 DEF TimesAssumption
<1>3. PICK c : c = [call[t] EXCEPT !.st = "recv", !.err = e, !.round = @ + 1]
  OBVIOUS
<1>4. c \in Call
  BY <1>1, <1>3, CallTypes
<1>5. call' = [call EXCEPT ![t] = c]
  BY <1>2, <1>3 DEF ProbeEnds, TypeOK
<1>6. c.st = "recv" /\ c.pos = call[t].pos /\ c.ids = call[t].ids /\ c.dests = call[t].dests
  BY <1>1, <1>3 DEF Call
<1>7. InPlace(c)
  BY <1>1, <1>6 DEF CallsInPlace, InPlace
<1>8. TypeOK'
  <2>1. call' \in [Threads -> Call]
    BY <1>4, <1>5 DEF TypeOK
  <2>2. UNCHANGED <<session, nextId, sndQueue, pushing, rcvQueue, resQueue, history, rtt,
                    net, asked, handled, everDone, outcome>>
    BY DEF ProbeEnds, nodeVars, ghosts
  <2>3. QED
    BY <2>1, <2>2 DEF TypeOK
<1>9. Quiet
  BY DEF ProbeEnds, Quiet, nodeVars, ghosts, TypeOK
<1>10. QED
  BY <1>5, <1>7, <1>8, <1>9, CallChanges

-----------------------------------------------------------------------------
(***************************************************************************)
(* The steps that send.                                                    *)
(***************************************************************************)
LEMMA SentEffects ==
  ASSUME TypeOK, NEW m, Fresh(m), SentOne(m), UNCHANGED <<session, sndQueue, history>>
  PROVE  /\ IdsGrow({m}) /\ MessagesGrow({m}) /\ RecordsGrow({m}) /\ AcksGrow
         /\ {m} \subseteq [from : Nodes, to : Nodes, msg : Message]
<1>1. m.from \in Nodes /\ m.msg \in Message /\ m = [from |-> m.from, to |-> m.to, msg |-> m.msg]
  BY DEF Fresh
<1>2. IdsGrow({m})
  <2>1. nextId'[m.from] = nextId[m.from] + 1
    BY <1>1 DEF SentOne, TypeOK
  <2>2. \A n \in Nodes : nextId'[n] >= nextId[n]
    <3>1. \A n \in Nodes : nextId[n] \in Nat
      BY DEF TypeOK
    <3>2. \A n \in Nodes : nextId'[n] = IF n = m.from THEN nextId[n] + 1 ELSE nextId[n]
      BY <1>1 DEF SentOne, TypeOK
    <3>3. QED
      BY <3>1, <3>2
  <2>3. QED
    BY <2>1, <2>2 DEF IdsGrow
<1>3. MessagesGrow({m})
  <2>1. ASSUME NEW n \in Nodes, NEW r \in pushing'[n]
        PROVE  r \in pushing[n] \/ [from |-> n, to |-> r.to, msg |-> r.msg] \in {m}
    <3>1. r \in pushing[n] \/ (n = m.from /\ r = [to |-> m.to, msg |-> m.msg])
      BY DEF SentOne, TypeOK
    <3>2. QED
      BY <1>1, <3>1
  <2>2. \A p \in net' : p \in net \/ p \in {m}
    BY DEF SentOne
  <2>3. QED
    BY <2>1, <2>2 DEF MessagesGrow
<1>4. RecordsGrow({m})
  BY DEF RecordsGrow, Same
<1>5. AcksGrow
  BY <1>1, Fields DEF AcksGrow, SentOne
<1>6. QED
  BY <1>1, <1>2, <1>3, <1>4, <1>5 DEF Fresh

LEMMA ProbeStep ==
  ASSUME TypeOK, CallsInPlace, OnlyAnswersToRequests, TimesAssumption, NEW t \in Threads, Probe(t)
  PROVE  TypeOK' /\ CallsInPlace' /\ \E M : Effects(M) /\ MessagesGrow(M)
<1>1. call[t] \in Call /\ call[t].st = "recv" /\ call[t].ids[call[t].pos] # 0
  BY DEF Probe, TypeOK
<1>2. PICK d \in Servers : d = Dest(t)
  BY <1>1, Destination
<1>3. UDPsend(Caller, d, NewMessage(Caller, "probe", 0, 0))
  BY <1>2 DEF Probe
<1>4. PICK m : m = [from |-> Caller, to |-> d, msg |-> NewMessage(Caller, "probe", 0, 0)]
  OBVIOUS
<1>5. Transport /\ Caller \in Nodes /\ d \in Nodes /\ 0 \in 0 .. MaxId /\ 0 \in 0 .. MaxSession
  BY TypeParts, CallerIsNode, BoundsAssumption
<1>6. Fresh(m) /\ SentOne(m)
  BY <1>3, <1>4, <1>5, UDPsendSends
<1>7. m.from = Caller /\ m.to = d /\ m.msg.info = 0 /\ m.msg.type = "probe"
  BY <1>4 DEF NewMessage
<1>8. PICK c : c = [call[t] EXCEPT !.st = "rtt"]
  OBVIOUS
<1>9. c \in Call /\ c.st = "rtt" /\ c.pos = call[t].pos /\ c.ids = call[t].ids /\ c.dests = call[t].dests
  BY <1>1, <1>8, CallTypes DEF Call
<1>10. call' = [call EXCEPT ![t] = c]
  BY <1>8 DEF Probe, TypeOK
<1>11. InPlace(c)
  BY <1>1, <1>9 DEF CallsInPlace, InPlace
<1>12. CallsInPlace'
  BY <1>10, <1>11, CallChanges
<1>13. TypeOK'
  <2>1. /\ nextId' \in [Nodes -> 1 .. MaxId + 1] /\ net' \subseteq Packet
        /\ pushing' \in [Nodes -> SUBSET Sent]
    BY <1>5, <1>6, SentTypes
  <2>2. rtt' \in [Nodes -> SUBSET Nodes] /\ call' \in [Threads -> Call]
    BY <1>9, <1>10 DEF Probe, TypeOK
  <2>3. QED
    BY <2>1, <2>2 DEF Probe, TypeOK, Sent, ghosts
<1>14. Effects({m}) /\ MessagesGrow({m})
  <2>1. /\ IdsGrow({m}) /\ MessagesGrow({m}) /\ RecordsGrow({m}) /\ AcksGrow
        /\ {m} \subseteq [from : Nodes, to : Nodes, msg : Message]
    BY <1>6, SentEffects DEF Probe
  <2>2. CarriedGrows({m})
    BY <2>1, MessagesCarried
  <2>3. AskedGrows({m})
    BY DEF Probe, ghosts, AskedGrows
  <2>4. AnswersGrow({m})
    BY <1>7 DEF Probe, ghosts, AnswersGrow, OnlyAnswersToRequests
  <2>5. Serves({m})
    BY DEF Probe, ghosts, Serves, GoesOn
  <2>6. QED
    BY <2>1, <2>2, <2>3, <2>4, <2>5 DEF Effects
<1>15. QED
  BY <1>12, <1>13, <1>14

LEMMA ServeStep ==
  ASSUME TypeOK, CallsInPlace, OnlyAnswersToRequests, HandledOnce, TimesAssumption, NEW s \in Servers, Serve(s)
  PROVE  TypeOK' /\ CallsInPlace' /\ \E M : Effects(M) /\ MessagesGrow(M)
<1>1. s \in Nodes /\ s # Caller
  BY CallerIsNode, CallerAssumption
<1>2. PICK r : r = Head(rcvQueue[s])
  OBVIOUS
<1>3. rcvQueue[s] # <<>> /\ rcvQueue[s] \in Seq(Letter) /\ r = rcvQueue[s][1] /\ 1 \in DOMAIN rcvQueue[s]
  BY <1>1, <1>2, QueueFields DEF Serve
<1>4. r \in Letter /\ r.from = Caller /\ <<Request(r.msg), s>> \in asked
  <2>1. r \in Letter
    BY <1>3
  <2>2. r.from = Caller /\ <<Request(r.msg), s>> \in asked
    BY <1>3 DEF HandledOnce
  <2>3. QED
    BY <2>1, <2>2
<1>5. r.msg \in Message
  BY <1>4, Fields
<1>6. PICK id \in 0 .. MaxId : id = r.msg.id /\ id \in Ids
  BY <1>5, Fields, BoundsAssumption DEF Ids
<1>7. PICK re \in 0 .. MaxSession : re = r.msg.session /\ re \in Sessions
  BY <1>5, Fields, BoundsAssumption DEF Sessions
<1>8. PICK q : q = [session |-> re, id |-> id]
  OBVIOUS
<1>9. q \in Requests /\ q = Request(r.msg)
  BY <1>6, <1>7, <1>8 DEF Requests, Request
<1>10. /\ UDPsend(s, Caller, NewMessage(s, "data", id, re))
       /\ handled' = [handled EXCEPT ![s][q] = @ + 1]
       /\ everDone' = everDone \cup {q}
       /\ rcvQueue' = [rcvQueue EXCEPT ![s] = Tail(@)]
       /\ UNCHANGED <<session, sndQueue, resQueue, history, rtt, call, asked, outcome>>
  BY <1>2, <1>4, <1>6, <1>7, <1>8 DEF Serve
<1>11. PICK m : m = [from |-> s, to |-> Caller, msg |-> NewMessage(s, "data", id, re)]
  OBVIOUS
<1>12. Transport /\ Caller \in Nodes
  BY TypeParts, CallerIsNode
<1>13. Fresh(m) /\ SentOne(m)
  BY <1>1, <1>10, <1>11, <1>12, UDPsendSends
<1>14. m.from = s /\ m.to = Caller /\ m.msg.info = id /\ m.msg.re = re /\ m.msg.type = "data"
  BY <1>11 DEF NewMessage
<1>15. rcvQueue'[s] = Tail(rcvQueue[s]) /\ \A n \in Nodes : n # s => rcvQueue'[n] = rcvQueue[n]
  BY <1>1, <1>10 DEF TypeOK
<1>16. /\ handled'[s] = [handled[s] EXCEPT ![q] = @ + 1]
       /\ \A k \in Servers : k # s => handled'[k] = handled[k]
  BY <1>10 DEF TypeOK
<1>17. TypeOK'
  <2>1. /\ nextId' \in [Nodes -> 1 .. MaxId + 1] /\ net' \subseteq Packet
        /\ pushing' \in [Nodes -> SUBSET Sent]
    BY <1>12, <1>13, SentTypes
  <2>2. Tail(rcvQueue[s]) \in Seq(Letter)
    BY <1>3
  <2>3. rcvQueue' \in [Nodes -> Seq(Letter)]
    BY <1>10, <2>2 DEF TypeOK, Letter
  <2>4. handled' \in [Servers -> [Requests -> Nat]]
    BY <1>9, <1>10 DEF TypeOK
  <2>5. everDone' \subseteq Requests
    BY <1>9, <1>10 DEF TypeOK
  <2>6. QED
    BY <1>10, <2>1, <2>3, <2>4, <2>5 DEF TypeOK, Sent, Letter
<1>18. CallsInPlace'
  BY <1>10 DEF CallsInPlace, InPlace
<1>19. Effects({m}) /\ MessagesGrow({m})
  <2>1. /\ IdsGrow({m}) /\ MessagesGrow({m}) /\ RecordsGrow({m}) /\ AcksGrow
        /\ {m} \subseteq [from : Nodes, to : Nodes, msg : Message]
    BY <1>10, <1>13, SentEffects
  <2>2. CarriedGrows({m})
    BY <2>1, MessagesCarried
  <2>3. AskedGrows({m})
    BY <1>10 DEF AskedGrows
  <2>4. m.msg.info # 0 /\ [session |-> m.msg.re, id |-> m.msg.info] = q
    BY <1>6, <1>8, <1>14 DEF Ids
  <2>5. \E a \in asked : a[1] = q
    BY <1>4, <1>9
  <2>6. rcvQueue'[Caller] = <<>>
    BY <1>1, <1>12, <1>15 DEF OnlyAnswersToRequests
  <2>7. AnswersGrow({m})
    BY <1>1, <1>10, <1>14, <2>4, <2>5, <2>6 DEF AnswersGrow
  <2>8. HandlesFirst(s)
    BY <1>2, <1>3, <1>9, <1>10, <1>15, <1>16 DEF HandlesFirst
  <2>9. ASSUME NEW k \in Servers, k # s PROVE GoesOn(k)
    BY <1>10, <1>15, <1>16, <2>9, CallerIsNode DEF GoesOn
  <2>10. Serves({m})
    BY <2>8, <2>9 DEF Serves
  <2>11. QED
    BY <2>1, <2>2, <2>3, <2>7, <2>10 DEF Effects
<1>20. QED
  BY <1>17, <1>18, <1>19

\* A message over UDT, which has an id of its own too, is lost or read at once.
LEMMA UDTEffects ==
  ASSUME TypeOK, TimesAssumption, NEW d \in Servers,
         UDTsend(Caller, d, NewMessage(Caller, "data", 0, 0)), UNCHANGED <<session, sndQueue>>,
         NEW m, m = [from |-> Caller, to |-> d, msg |-> NewMessage(Caller, "data", 0, 0)]
  PROVE  /\ Fresh(m)
         /\ IdsGrow({m}) /\ MessagesGrow({m}) /\ RecordsGrow({m}) /\ AcksGrow
         /\ nextId' \in [Nodes -> 1 .. MaxId + 1]
         /\ history' \in [Nodes -> SUBSET PeerRecord]
         /\ rcvQueue' \in [Nodes -> Seq(Letter)]
         /\ UNCHANGED <<net, pushing>>
         /\ \A n \in Nodes : n # d => rcvQueue'[n] = rcvQueue[n]
         /\ \/ rcvQueue'[d] = rcvQueue[d]
            \/ /\ \A h \in history[d] : ~Of(h, m)
               /\ \E h \in history'[d] : Of(h, m)
               /\ rcvQueue'[d] = Append(rcvQueue[d], [from |-> m.from, msg |-> m.msg])
<1>1. Caller \in Nodes /\ d \in Nodes
  BY CallerIsNode
<1>2. nextId[Caller] \in Ids /\ Used(Caller) /\ UNCHANGED <<net, pushing>>
  BY DEF UDTsend
<1>3. nextId' \in [Nodes -> 1 .. MaxId + 1] /\ \A n \in Nodes : nextId'[n] >= nextId[n]
  BY <1>2, UsedTypes
<1>4. NewMessage(Caller, "data", 0, 0) \in Message
  BY <1>1, <1>2, BoundsAssumption DEF NewMessage, Message, TypeOK
<1>5. m.from = Caller /\ m.to = d /\ m.msg = NewMessage(Caller, "data", 0, 0)
  OBVIOUS
<1>6. m \in [from : Nodes, to : Nodes, msg : Message]
  BY <1>1, <1>4
<1>7. Fresh(m)
  BY <1>5, <1>6 DEF Fresh, NewMessage
<1>8. IdsGrow({m})
  <2>1. nextId'[Caller] = nextId[Caller] + 1
    BY <1>1, <1>2 DEF Used, TypeOK
  <2>2. QED
    BY <1>3, <1>5, <1>7, <2>1 DEF IdsGrow
<1>9. CASE UNCHANGED <<rcvQueue, history>>
  <2>1. MessagesGrow({m})
    BY <1>2, <1>9 DEF MessagesGrow
  <2>2. RecordsGrow({m})
    BY <1>9 DEF RecordsGrow, Same
  <2>3. AcksGrow
    BY <1>2 DEF AcksGrow
  <2>4. QED
    BY <1>2, <1>3, <1>7, <1>8, <1>9, <2>1, <2>2, <2>3 DEF TypeOK, Letter
<1>10. CASE /\ ~hit(d, m)
            /\ Remember(d, m)
            /\ rcvQueue' = [rcvQueue EXCEPT ![d] = Append(@, [from |-> Caller, msg |-> NewMessage(Caller, "data", 0, 0)])]
  <2>1. history' \in [Nodes -> SUBSET PeerRecord]
    BY <1>1, <1>6, <1>10, RememberTypes, TypeParts
  <2>2. PICK H \in AfterInsert(d) :
          history' = [history EXCEPT ![d] =
            H \cup {[from |-> m.from, session |-> m.msg.session, id |-> m.msg.id, age |-> 0]}]
    BY <1>10 DEF Remember
  <2>3. H \subseteq history[d] /\ \A h \in history[d] : h.age <= Window => h \in H
    <3>1. PICK B \in SUBSET {r \in history[d] : r.age > Window} : H = history[d] \ B
      BY <2>2 DEF AfterInsert
    <3>2. \A h \in history[d] : h \in PeerRecord
      BY <1>1 DEF TypeOK
    <3>3. \A h \in history[d] : h.age \in Nat
      BY <3>2, Fields DEF TimesAssumption
    <3>4. QED
      BY <3>1, <3>3, TimesAssumption DEF TimesAssumption
  <2>4. PICK g : g = [from |-> m.from, session |-> m.msg.session, id |-> m.msg.id, age |-> 0]
    OBVIOUS
  <2>5. Of(g, m) /\ g.age = 0
    BY <2>4 DEF Of
  <2>6. history'[d] = H \cup {g} /\ \A n \in Nodes : n # d => history'[n] = history[n]
    BY <1>1, <2>2, <2>4 DEF TypeOK
  <2>7. MessagesGrow({m})
    BY <1>2, <2>3, <2>5, <2>6 DEF MessagesGrow
  <2>8. RecordsGrow({m})
    <3>1. ASSUME NEW n \in Nodes, NEW h \in history'[n]
          PROVE  (\E k \in history[n] : Same(k, h)) \/ (\E p \in Carried \cup {m} : p.to = n /\ Of(h, p))
      BY <1>5, <2>3, <2>5, <2>6 DEF Same
    <3>2. ASSUME NEW n \in Nodes, NEW h \in history[n], h.age <= Window
          PROVE  \E k \in history'[n] : Same(k, h)
      BY <2>3, <2>6, <3>2 DEF Same
    <3>3. QED
      BY <3>1, <3>2 DEF RecordsGrow
  <2>9. AcksGrow
    BY <1>2 DEF AcksGrow
  <2>10. PICK l \in Letter : l = [from |-> m.from, msg |-> m.msg]
    BY <1>1, <1>4, <1>5 DEF Letter
  <2>11. rcvQueue' = [rcvQueue EXCEPT ![d] = Append(@, l)]
    BY <1>5, <1>10, <2>10
  <2>12. rcvQueue \in [Nodes -> Seq(Letter)]
    BY DEF TypeOK, Letter
  <2>13. Append(rcvQueue[d], l) \in Seq(Letter)
    BY <1>1, <2>12
  <2>14. /\ rcvQueue' \in [Nodes -> Seq(Letter)]
         /\ rcvQueue'[d] = Append(rcvQueue[d], l)
         /\ \A n \in Nodes : n # d => rcvQueue'[n] = rcvQueue[n]
    BY <1>1, <2>11, <2>12, <2>13
  <2>15. (\A h \in history[d] : ~Of(h, m)) /\ \E h \in history'[d] : Of(h, m)
    BY <1>10, <2>5, <2>6 DEF hit
  <2>16. QED
    BY <1>2, <1>3, <1>7, <1>8, <2>1, <2>7, <2>8, <2>9, <2>10, <2>14, <2>15
<1>11. QED
  BY <1>9, <1>10 DEF UDTsend

LEMMA SendStep ==
  ASSUME TypeOK, CallsInPlace, OnlyAnswersToRequests, TimesAssumption, NEW t \in Threads, Send(t)
  PROVE  TypeOK' /\ CallsInPlace' /\ \E M : Effects(M) /\ MessagesGrow(M)
<1>1. call[t] \in Call /\ call[t].st = "send" /\ Caller \in Nodes
  BY CallerIsNode DEF Send, TypeOK
<1>2. PICK d \in Servers : d = Dest(t)
  BY <1>1, Destination
<1>3. PICK m : m = [from |-> Caller, to |-> d, msg |-> NewMessage(Caller, "data", 0, 0)]
  OBVIOUS
<1>4. m.from = Caller /\ m.to = d /\ m.msg.info = 0 /\ m.msg.type = "data"
      /\ Request(m.msg) = [session |-> session[Caller], id |-> nextId[Caller]]
  BY <1>3 DEF NewMessage, Request
<1>5. asked' = asked \cup {<<Request(m.msg), d>>}
  BY <1>2, <1>4 DEF Send, NewMessage
<1>6. UNCHANGED <<session, sndQueue, resQueue, rtt, handled, everDone, outcome>>
  BY DEF Send
<1>7. AfterSend(t, nextId[Caller])
  BY DEF Send
<1>8. \/ UDPsend(Caller, d, NewMessage(Caller, "data", 0, 0)) /\ UNCHANGED <<rcvQueue, history>>
      \/ UDTsend(Caller, d, NewMessage(Caller, "data", 0, 0))
  BY <1>2 DEF Send
<1>9. nextId[Caller] \in Ids
  BY <1>8 DEF UDPsend, UDTsend
<1>10. PICK id \in 0 .. MaxId : id = nextId[Caller]
  BY <1>9, BoundsAssumption DEF Ids
<1>11. call' = [call EXCEPT ![t] = Asked(call[t], id)] /\ call' \in [Threads -> Call]
  BY <1>7, <1>10, AfterSendAsked
<1>12. CallsInPlace'
  BY <1>1, <1>11, AskedInPlace, CallChanges DEF CallsInPlace
<1>13. Request(m.msg) \in Requests
  BY <1>1, <1>4, <1>9 DEF Requests, TypeOK
<1>14. asked' \subseteq Requests \X Servers
  BY <1>5, <1>13 DEF TypeOK
<1>15. {m} \subseteq [from : Nodes, to : Nodes, msg : Message] /\ AskedGrows({m})
  <2>1. m \in [from : Nodes, to : Nodes, msg : Message]
    <3>1. NewMessage(Caller, "data", 0, 0) \in Message
      BY <1>1, <1>9, BoundsAssumption DEF NewMessage, Message, TypeOK
    <3>2. QED
      BY <1>1, <1>3, <3>1, CallerIsNode
  <2>2. QED
    BY <1>4, <1>5, <2>1 DEF AskedGrows
<1>16. rcvQueue'[Caller] = <<>> => AnswersGrow({m})
  BY <1>4, <1>5, <1>6 DEF AnswersGrow
<1>17. CASE UDPsend(Caller, d, NewMessage(Caller, "data", 0, 0)) /\ UNCHANGED <<rcvQueue, history>>
  <2>1. Fresh(m) /\ SentOne(m)
    <3>1. Transport /\ d \in Nodes /\ 0 \in 0 .. MaxId /\ 0 \in 0 .. MaxSession
      BY TypeParts, CallerIsNode, BoundsAssumption
    <3>2. QED
      BY <1>1, <1>3, <1>17, <3>1, UDPsendSends
  <2>2. /\ IdsGrow({m}) /\ MessagesGrow({m}) /\ RecordsGrow({m}) /\ AcksGrow
    BY <1>6, <1>17, <2>1, SentEffects
  <2>3. CarriedGrows({m})
    BY <2>2, MessagesCarried
  <2>4. AnswersGrow({m})
    BY <1>16, <1>17 DEF OnlyAnswersToRequests
  <2>5. Serves({m})
    BY <1>6, <1>17 DEF Serves, GoesOn
  <2>6. /\ nextId' \in [Nodes -> 1 .. MaxId + 1] /\ net' \subseteq Packet
        /\ pushing' \in [Nodes -> SUBSET Sent]
    BY <2>1, SentTypes, TypeParts
  <2>7. TypeOK'
    BY <1>6, <1>11, <1>14, <1>17, <2>6 DEF TypeOK, Sent
  <2>8. QED
    BY <1>12, <1>15, <2>2, <2>3, <2>4, <2>5, <2>7 DEF Effects
<1>18. CASE UDTsend(Caller, d, NewMessage(Caller, "data", 0, 0))
  <2>1. /\ Fresh(m)
        /\ IdsGrow({m}) /\ MessagesGrow({m}) /\ RecordsGrow({m}) /\ AcksGrow
        /\ nextId' \in [Nodes -> 1 .. MaxId + 1]
        /\ history' \in [Nodes -> SUBSET PeerRecord]
        /\ rcvQueue' \in [Nodes -> Seq(Letter)]
        /\ UNCHANGED <<net, pushing>>
        /\ \A n \in Nodes : n # d => rcvQueue'[n] = rcvQueue[n]
        /\ \/ rcvQueue'[d] = rcvQueue[d]
           \/ /\ \A h \in history[d] : ~Of(h, m)
              /\ \E h \in history'[d] : Of(h, m)
              /\ rcvQueue'[d] = Append(rcvQueue[d], [from |-> m.from, msg |-> m.msg])
    BY <1>3, <1>6, <1>18, UDTEffects
  <2>2. CarriedGrows({m})
    BY <2>1, MessagesCarried
  <2>3. rcvQueue'[Caller] = <<>>
    BY <1>1, <2>1, CallerAssumption DEF OnlyAnswersToRequests
  <2>4. GoesOn(d) \/ Gets(d, m)
    BY <1>4, <1>6, <2>1 DEF GoesOn, Gets
  <2>5. \A s \in Servers : s # d => GoesOn(s)
    BY <1>6, <2>1, CallerIsNode DEF GoesOn
  <2>6. Serves({m})
    BY <2>4, <2>5 DEF Serves
  <2>7. TypeOK'
    BY <1>6, <1>11, <1>14, <2>1 DEF TypeOK, Letter
  <2>8. QED
    BY <1>12, <1>15, <1>16, <2>1, <2>2, <2>3, <2>6, <2>7 DEF Effects
<1>19. QED
  BY <1>8, <1>17, <1>18

-----------------------------------------------------------------------------
(***************************************************************************)
(* The steps of the threads of GMP.                                        *)
(***************************************************************************)
LEMMA PushStep ==
  ASSUME TypeOK, CallsInPlace, OnlyAnswersToRequests, TimesAssumption, NEW n \in Nodes, Push(n)
  PROVE  TypeOK' /\ CallsInPlace' /\ \E M : Effects(M) /\ MessagesGrow(M)
<1>1. PICK r \in pushing[n] :
        /\ pushing' = [pushing EXCEPT ![n] = @ \ {r}]
        /\ sndQueue' = [sndQueue EXCEPT ![n] = @ \cup {[to |-> r.to, msg |-> r.msg, age |-> 0]}]
  BY DEF Push
<1>2. r \in Sent
  BY DEF TypeOK, Sent
<1>3. r.to \in Nodes /\ r.msg \in Message /\ r = [to |-> r.to, msg |-> r.msg]
  BY <1>2, Fields
<1>4. PICK k : k = [to |-> r.to, msg |-> r.msg, age |-> 0]
  OBVIOUS
<1>5. k \in SndRecord /\ k.age = 0 /\ [to |-> k.to, msg |-> k.msg] = r
  BY <1>3, <1>4, Made
<1>6. /\ pushing' \in [Nodes -> SUBSET [to : Nodes, msg : Message]]
      /\ sndQueue' \in [Nodes -> SUBSET SndRecord]
  BY <1>1, <1>4, <1>5 DEF TypeOK
<1>7. TypeOK'
  BY <1>6 DEF Push, TypeOK, ghosts
<1>8. CallsInPlace'
  BY DEF Push, CallsInPlace, InPlace
<1>9. MessagesGrow({})
  <2>1. \A c \in Nodes : \A b \in sndQueue'[c] : b \in sndQueue[c] \/ (c = n /\ b = k)
    BY <1>1, <1>4 DEF TypeOK
  <2>2. \A c \in Nodes : pushing'[c] \subseteq pushing[c]
    BY <1>1 DEF TypeOK
  <2>3. QED
    BY <1>5, <2>1, <2>2 DEF Push, MessagesGrow
<1>10. IdsGrow({}) /\ RecordsGrow({}) /\ AcksGrow /\ AskedGrows({}) /\ Serves({})
  <2>1. IdsGrow({})
    BY DEF Push, IdsGrow, TypeOK
  <2>2. RecordsGrow({})
    BY DEF Push, RecordsGrow, Same
  <2>3. AcksGrow /\ AskedGrows({})
    BY DEF Push, AcksGrow, AskedGrows, ghosts
  <2>4. Serves({})
    BY DEF Push, Serves, GoesOn, ghosts
  <2>5. QED
    BY <2>1, <2>2, <2>3, <2>4
<1>11. AnswersGrow({})
  BY DEF Push, AnswersGrow, ghosts, OnlyAnswersToRequests
<1>12. CarriedGrows({})
  BY <1>9, MessagesCarried
<1>13. QED
  BY <1>7, <1>8, <1>9, <1>10, <1>11, <1>12 DEF Effects

LEMMA CrashStep ==
  ASSUME TypeOK, CallsInPlace, OnlyAnswersToRequests, TimesAssumption, NEW n \in Nodes, Crash(n)
  PROVE  TypeOK' /\ CallsInPlace' /\ \E M : Effects(M) /\ MessagesGrow(M)
<1>1. /\ session[n] < MaxSession
      /\ session' = [session EXCEPT ![n] = @ + 1]
      /\ nextId' = [nextId EXCEPT ![n] = 1]
      /\ sndQueue' = [sndQueue EXCEPT ![n] = {}]
      /\ pushing' = [pushing EXCEPT ![n] = {}]
      /\ rcvQueue' = [rcvQueue EXCEPT ![n] = <<>>]
      /\ resQueue' = [resQueue EXCEPT ![n] = {}]
      /\ history' = [history EXCEPT ![n] = {}]
      /\ rtt' = [rtt EXCEPT ![n] = {}]
      /\ UNCHANGED <<net, asked, everDone, outcome>>
  BY DEF Crash
<1>2. call' \in [Threads -> Call] /\ CallsInPlace'
  <2>1. CASE call' = [t \in Threads |-> Idle]
    <3>1. InPlace(Idle)
      BY DEF InPlace, Idle
    <3>2. \A t \in Threads : InPlace(call'[t])
      BY <2>1, <3>1
    <3>3. call' \in [Threads -> Call]
      BY <2>1, IdleIsCall
    <3>4. CallsInPlace'
      BY <3>2 DEF CallsInPlace, InPlace
    <3>5. QED
      BY <3>3, <3>4
  <2>2. CASE UNCHANGED call
    BY <2>2 DEF TypeOK, CallsInPlace, InPlace
  <2>3. QED
    BY <2>1, <2>2 DEF Crash
<1>3. handled' \in [Servers -> [Requests -> Nat]]
  <2>1. [q \in Requests |-> 0] \in [Requests -> Nat]
    OBVIOUS
  <2>2. QED
    BY <2>1 DEF Crash, TypeOK
<1>4. session[n] \in Nat /\ session[n] + 1 \in Sessions
  BY <1>1, BoundsAssumption DEF TypeOK, Sessions
<1>5. TypeOK'
  <2>1. session' \in [Nodes -> Sessions] /\ nextId' \in [Nodes -> 1 .. MaxId + 1]
    BY <1>1, <1>4, BoundsAssumption DEF TypeOK
  <2>2. <<>> \in Seq([from : Nodes, msg : Message])
    OBVIOUS
  <2>3. rcvQueue' \in [Nodes -> Seq([from : Nodes, msg : Message])]
    BY <1>1, <2>2 DEF TypeOK
  <2>4. /\ sndQueue' \in [Nodes -> SUBSET SndRecord]
        /\ pushing' \in [Nodes -> SUBSET [to : Nodes, msg : Message]]
        /\ resQueue' \in [Nodes -> SUBSET [from : Nodes, msg : Message]]
        /\ history' \in [Nodes -> SUBSET PeerRecord]
        /\ rtt' \in [Nodes -> SUBSET Nodes]
    BY <1>1 DEF TypeOK
  <2>5. QED
    BY <1>1, <1>2, <1>3, <2>1, <2>3, <2>4 DEF TypeOK
<1>6. MessagesGrow({})
  BY <1>1 DEF MessagesGrow, TypeOK
<1>7. CarriedGrows({})
  BY <1>6, MessagesCarried
<1>8. session'[n] > session[n] /\ session'[n] # session[n]
  BY <1>1, <1>4 DEF TypeOK
<1>9. \A k \in Nodes : k # n => session'[k] = session[k] /\ nextId'[k] = nextId[k] /\ rcvQueue'[k] = rcvQueue[k]
                                /\ history'[k] = history[k]
  BY <1>1 DEF TypeOK
<1>10. IdsGrow({})
  <2>1. \A k \in Nodes : nextId[k] \in Nat
    BY DEF TypeOK
  <2>2. QED
    BY <1>8, <1>9, <2>1 DEF IdsGrow
<1>11. RecordsGrow({})
  <2>1. history'[n] = {}
    BY <1>1 DEF TypeOK
  <2>2. QED
    BY <1>8, <1>9, <2>1 DEF RecordsGrow, Same
<1>12. AcksGrow /\ AskedGrows({})
  BY <1>1 DEF AcksGrow, AskedGrows
<1>13. AnswersGrow({})
  <2>1. rcvQueue'[Caller] = <<>> /\ resQueue'[Caller] \subseteq resQueue[Caller]
    BY <1>1, CallerIsNode DEF TypeOK, OnlyAnswersToRequests
  <2>2. QED
    BY <1>1, <2>1 DEF AnswersGrow
<1>14. Serves({})
  <2>1. SUFFICES ASSUME NEW s \in Servers PROVE Restarts(s) \/ GoesOn(s)
    BY DEF Serves
  <2>2. s \in Nodes /\ s # Caller
    BY CallerIsNode, CallerAssumption
  <2>3. CASE s = n
    <3>1. rcvQueue'[s] = <<>>
      BY <1>1, <2>2, <2>3 DEF TypeOK
    <3>2. handled'[s] = [q \in Requests |-> 0]
      BY <2>2, <2>3 DEF Crash, TypeOK
    <3>3. QED
      BY <1>8, <2>3, <3>1, <3>2 DEF Restarts
  <2>4. CASE s # n
    <3>1. handled'[s] = handled[s]
      BY <2>4 DEF Crash, TypeOK
    <3>2. QED
      BY <1>9, <2>2, <2>4, <3>1 DEF GoesOn
  <2>5. QED
    BY <2>3, <2>4
<1>15. QED
  BY <1>2, <1>5, <1>6, <1>7, <1>10, <1>11, <1>12, <1>13, <1>14 DEF Effects

\* Only old records make place for a new one.
LEMMA InsertKeeps ==
  ASSUME TypeOK, TimesAssumption, NEW n \in Nodes, NEW H \in AfterInsert(n)
  PROVE  H \subseteq history[n] /\ \A h \in history[n] : h.age <= Window => h \in H
<1>1. PICK B \in SUBSET {r \in history[n] : r.age > Window} : H = history[n] \ B
  BY DEF AfterInsert
<1>2. \A h \in history[n] : h \in PeerRecord
  BY DEF TypeOK
<1>3. \A h \in history[n] : h.age \in Nat
  BY <1>2, Fields DEF TimesAssumption
<1>4. QED
  BY <1>1, <1>3, TimesAssumption DEF TimesAssumption

LEMMA ReceiveAckStep ==
  ASSUME TypeOK, CallsInPlace, OnlyAnswersToRequests, TimesAssumption,
         NEW n \in Nodes, NEW p \in net, ReceiveAck(n, p)
  PROVE  TypeOK' /\ CallsInPlace' /\ \E M : Effects(M) /\ MessagesGrow(M)
<1>1. /\ net' = net \ {p}
      /\ UNCHANGED <<session, nextId, pushing, rcvQueue, resQueue, call, ghosts>>
  BY DEF ReceiveAck
<1>2. p \in Packet
  BY DEF TypeOK
<1>3. p.from \in Nodes
  BY <1>2, Fields
<1>4. /\ sndQueue' \in [Nodes -> SUBSET SndRecord]
      /\ \A c \in Nodes : sndQueue'[c] \subseteq sndQueue[c]
      /\ rtt' \in [Nodes -> SUBSET Nodes]
  <2>1. \/ /\ \E r \in sndQueue[n] : sndQueue' = [sndQueue EXCEPT ![n] = @ \ {r}]
           /\ rtt' = [rtt EXCEPT ![n] = @ \cup {p.from}]
        \/ UNCHANGED <<sndQueue, rtt>>
    BY DEF ReceiveAck
  <2>2. CASE UNCHANGED <<sndQueue, rtt>>
    BY <2>2 DEF TypeOK
  <2>3. ASSUME NEW r \in sndQueue[n], sndQueue' = [sndQueue EXCEPT ![n] = @ \ {r}]
        PROVE  /\ sndQueue' \in [Nodes -> SUBSET SndRecord]
               /\ \A c \in Nodes : sndQueue'[c] \subseteq sndQueue[c]
    BY <2>3 DEF TypeOK
  <2>4. ASSUME rtt' = [rtt EXCEPT ![n] = @ \cup {p.from}]
        PROVE  rtt' \in [Nodes -> SUBSET Nodes]
    BY <1>3, <2>4 DEF TypeOK
  <2>5. QED
    BY <2>1, <2>2, <2>3, <2>4
<1>5. /\ history' \in [Nodes -> SUBSET PeerRecord]
      /\ \A c \in Nodes : /\ history'[c] \subseteq history[c]
                          /\ \A h \in history[c] : h.age <= Window => h \in history'[c]
  <2>1. CASE UNCHANGED history
    BY <2>1 DEF TypeOK
  <2>2. ASSUME NEW H \in AfterInsert(n), history' = [history EXCEPT ![n] = H]
        PROVE  /\ history' \in [Nodes -> SUBSET PeerRecord]
               /\ \A c \in Nodes : /\ history'[c] \subseteq history[c]
                                   /\ \A h \in history[c] : h.age <= Window => h \in history'[c]
    <3>1. H \subseteq history[n] /\ \A h \in history[n] : h.age <= Window => h \in H
      BY InsertKeeps
    <3>2. QED
      BY <2>2, <3>1 DEF TypeOK
  <2>3. QED
    BY <2>1, <2>2 DEF ReceiveAck
<1>6. TypeOK' /\ CallsInPlace'
  <2>1. TypeOK'
    BY <1>1, <1>4, <1>5 DEF TypeOK, ghosts
  <2>2. CallsInPlace'
    BY <1>1 DEF CallsInPlace, InPlace
  <2>3. QED
    BY <2>1, <2>2
<1>7. MessagesGrow({})
  BY <1>1, <1>4, <1>5 DEF MessagesGrow
<1>8. CarriedGrows({})
  BY <1>7, MessagesCarried
<1>9. IdsGrow({})
  BY <1>1 DEF IdsGrow, TypeOK
<1>10. RecordsGrow({})
  BY <1>5 DEF RecordsGrow, Same
<1>11. AcksGrow /\ AskedGrows({})
  BY <1>1 DEF AcksGrow, AskedGrows, ghosts
<1>12. AnswersGrow({})
  BY <1>1 DEF AnswersGrow, OnlyAnswersToRequests, ghosts
<1>13. Serves({})
  BY <1>1 DEF Serves, GoesOn, ghosts
<1>14. QED
  BY <1>6, <1>7, <1>8, <1>9, <1>10, <1>11, <1>12, <1>13 DEF Effects

\* The acknowledgement of a packet that has been read.
LEMMA AckTypes ==
  ASSUME TypeOK, NEW n \in Nodes, NEW p \in net, p.to = n, p.msg.type # "ack"
  PROVE  /\ p \in [from : Nodes, to : Nodes, msg : Message] /\ p \in Carried
         /\ AckOf(n, p) \in Packet /\ AckOf(n, p).msg.type = "ack"
         /\ AckOf(n, p).from = n /\ AckOf(n, p).to = p.from /\ AckOf(n, p).msg.id = p.msg.id
<1>1. p \in Packet
  BY DEF TypeOK
<1>2. p.from \in Nodes /\ p.to \in Nodes /\ p.msg \in Message /\ p.msg.id \in Ids
  BY <1>1, Fields
<1>3. p \in [from : Nodes, to : Nodes, msg : Message]
  BY <1>1, <1>2 DEF Packet
<1>4. p \in Carried
  BY CarriedIs
<1>5. session[n] \in Sessions
  BY DEF TypeOK
<1>6. AckOf(n, p) \in Packet
  BY <1>2, <1>5 DEF AckOf, Packet, Ack
<1>7. QED
  BY <1>3, <1>4, <1>6 DEF AckOf

\* What is acknowledged is known.
LEMMA AcksOf ==
  ASSUME TypeOK, NEW n \in Nodes, NEW p \in net, p.to = n, p.msg.type # "ack",
         net' = (net \ {p}) \cup {AckOf(n, p)},
         p.msg.type = "data" => \E h \in history'[n] : Of(h, p)
  PROVE  AcksGrow /\ net' \subseteq Packet
<1>1. /\ p \in Carried /\ AckOf(n, p) \in Packet
      /\ AckOf(n, p).from = n /\ AckOf(n, p).to = p.from /\ AckOf(n, p).msg.id = p.msg.id
  BY AckTypes
<1>2. net' \subseteq Packet
  BY <1>1 DEF TypeOK
<1>3. AcksGrow
  BY <1>1 DEF AcksGrow
<1>4. QED
  BY <1>2, <1>3

LEMMA ReceiveAgainStep ==
  ASSUME TypeOK, CallsInPlace, OnlyAnswersToRequests, TimesAssumption,
         NEW n \in Nodes, NEW p \in net, ReceiveAgain(n, p)
  PROVE  TypeOK' /\ CallsInPlace' /\ \E M : Effects(M) /\ MessagesGrow(M)
<1>1. /\ net' = (net \ {p}) \cup {AckOf(n, p)}
      /\ UNCHANGED <<session, nextId, sndQueue, pushing, rcvQueue, resQueue, history, rtt, call, ghosts>>
      /\ p.to = n /\ p.msg.type # "ack"
  BY DEF ReceiveAgain, nodeVars
<1>2. p.msg.type = "data" => \E h \in history'[n] : Of(h, p)
  BY <1>1 DEF ReceiveAgain, hit
<1>3. AcksGrow /\ net' \subseteq Packet
  BY <1>1, <1>2, AcksOf
<1>4. TypeOK' /\ CallsInPlace'
  <2>1. TypeOK'
    BY <1>1, <1>3 DEF TypeOK, ghosts
  <2>2. CallsInPlace'
    BY <1>1 DEF CallsInPlace, InPlace
  <2>3. QED
    BY <2>1, <2>2
<1>5. MessagesGrow({})
  BY <1>1, AckTypes DEF MessagesGrow
<1>6. CarriedGrows({})
  BY <1>5, MessagesCarried
<1>7. IdsGrow({})
  BY <1>1 DEF IdsGrow, TypeOK
<1>8. RecordsGrow({})
  BY <1>1 DEF RecordsGrow, Same
<1>9. AskedGrows({})
  BY <1>1 DEF AskedGrows, ghosts
<1>10. AnswersGrow({})
  BY <1>1 DEF AnswersGrow, OnlyAnswersToRequests, ghosts
<1>11. Serves({})
  BY <1>1 DEF Serves, GoesOn, ghosts
<1>12. QED
  BY <1>3, <1>4, <1>5, <1>6, <1>7, <1>8, <1>9, <1>10, <1>11 DEF Effects

LEMMA ReceiveNewStep ==
  ASSUME TypeOK, CallsInPlace, OnlyAnswersToRequests, TimesAssumption,
         NEW n \in Nodes, NEW p \in net, ReceiveNew(n, p)
  PROVE  TypeOK' /\ CallsInPlace' /\ \E M : Effects(M) /\ MessagesGrow(M)
<1>1. /\ net' = (net \ {p}) \cup {AckOf(n, p)}
      /\ UNCHANGED <<session, nextId, pushing, sndQueue, rtt, call, ghosts>>
      /\ p.to = n /\ p.msg.type = "data" /\ p.msg.type # "ack"
      /\ ~hit(n, p) /\ Remember(n, p)
  BY DEF ReceiveNew
<1>2. p \in [from : Nodes, to : Nodes, msg : Message] /\ p \in Carried
  BY <1>1, AckTypes
<1>3. PICK l \in Letter : l = [from |-> p.from, msg |-> p.msg]
  BY <1>2 DEF Letter
<1>4. \/ /\ p.msg.info = 0
         /\ rcvQueue' = [rcvQueue EXCEPT ![n] = Append(@, l)]
         /\ resQueue' = resQueue
      \/ /\ p.msg.info # 0
         /\ resQueue' = [resQueue EXCEPT ![n] = {a \in @ : a.msg.info # p.msg.info} \cup {l}]
         /\ rcvQueue' = rcvQueue
  BY <1>3 DEF ReceiveNew
<1>5. history' \in [Nodes -> SUBSET PeerRecord]
  BY <1>1, <1>2, RememberTypes, TypeParts
<1>6. PICK H \in AfterInsert(n) :
        history' = [history EXCEPT ![n] =
          H \cup {[from |-> p.from, session |-> p.msg.session, id |-> p.msg.id, age |-> 0]}]
  BY <1>1 DEF Remember
<1>7. H \subseteq history[n] /\ \A h \in history[n] : h.age <= Window => h \in H
  BY InsertKeeps
<1>8. PICK g : g = [from |-> p.from, session |-> p.msg.session, id |-> p.msg.id, age |-> 0]
  OBVIOUS
<1>9. Of(g, p) /\ g.age = 0
  BY <1>8 DEF Of
<1>10. history'[n] = H \cup {g} /\ \A c \in Nodes : c # n => history'[c] = history[c]
  BY <1>6, <1>8 DEF TypeOK
<1>11. AcksGrow /\ net' \subseteq Packet
  BY <1>1, <1>9, <1>10, AcksOf
<1>12. /\ rcvQueue' \in [Nodes -> Seq(Letter)]
       /\ resQueue' \in [Nodes -> SUBSET Letter]
  <2>1. rcvQueue \in [Nodes -> Seq(Letter)] /\ resQueue \in [Nodes -> SUBSET Letter]
    BY DEF TypeOK, Letter
  <2>2. CASE p.msg.info = 0
    <3>1. Append(rcvQueue[n], l) \in Seq(Letter)
      BY <2>1
    <3>2. QED
      BY <1>4, <2>1, <2>2, <3>1
  <2>3. CASE p.msg.info # 0
    BY <1>4, <2>1, <2>3
  <2>4. QED
    BY <2>2, <2>3
<1>13. TypeOK' /\ CallsInPlace'
  <2>1. TypeOK'
    BY <1>1, <1>5, <1>11, <1>12 DEF TypeOK, Letter, ghosts
  <2>2. CallsInPlace'
    BY <1>1 DEF CallsInPlace, InPlace
  <2>3. QED
    BY <2>1, <2>2
<1>14. MessagesGrow({})
  <2>1. \A k \in net' : k.msg.type = "ack" \/ k \in net
    BY <1>1, AckTypes
  <2>2. QED
    BY <1>1, <1>7, <1>9, <1>10, <2>1 DEF MessagesGrow
<1>15. CarriedGrows({})
  BY <1>14, MessagesCarried
<1>16. IdsGrow({})
  BY <1>1 DEF IdsGrow, TypeOK
<1>17. RecordsGrow({})
  <2>1. ASSUME NEW c \in Nodes, NEW h \in history'[c]
        PROVE  (\E k \in history[c] : Same(k, h)) \/ (\E k \in Carried \cup {} : k.to = c /\ Of(h, k))
    BY <1>1, <1>2, <1>7, <1>9, <1>10 DEF Same
  <2>2. ASSUME NEW c \in Nodes, NEW h \in history[c], h.age <= Window
        PROVE  \E k \in history'[c] : Same(k, h)
    BY <1>7, <1>10, <2>2 DEF Same
  <2>3. QED
    BY <2>1, <2>2 DEF RecordsGrow
<1>18. AskedGrows({})
  BY <1>1 DEF AskedGrows, ghosts
<1>19. AnswersGrow({})
  <2>1. CASE p.msg.info = 0
    <3>1. n # Caller
      BY <1>1, <1>2, <2>1, CallerAssumption DEF OnlyAnswersToRequests
    <3>2. rcvQueue'[Caller] = <<>> /\ resQueue'[Caller] = resQueue[Caller]
      BY <1>4, <2>1, <3>1, CallerIsNode DEF TypeOK, OnlyAnswersToRequests
    <3>3. QED
      BY <1>1, <3>2 DEF AnswersGrow, ghosts
  <2>2. CASE p.msg.info # 0
    <3>1. rcvQueue'[Caller] = <<>>
      BY <1>4, <2>2 DEF OnlyAnswersToRequests
    <3>2. \A a \in resQueue'[Caller] : a \in resQueue[Caller] \/ (n = Caller /\ a = l)
      <4>1. resQueue' = [resQueue EXCEPT ![n] = {a \in @ : a.msg.info # p.msg.info} \cup {l}]
        BY <1>4, <2>2
      <4>2. CASE n = Caller
        <5>1. resQueue'[Caller] = {a \in resQueue[Caller] : a.msg.info # p.msg.info} \cup {l}
          BY <4>1, <4>2 DEF TypeOK
        <5>2. QED
          BY <4>2, <5>1
      <4>3. CASE n # Caller
        <5>1. resQueue'[Caller] = resQueue[Caller]
          BY <4>1, <4>3, CallerIsNode DEF TypeOK
        <5>2. QED
          BY <5>1
      <4>4. QED
        BY <4>2, <4>3
    <3>3. l.msg = p.msg
      BY <1>3
    <3>4. \A a \in resQueue'[Caller] :
            a \in resQueue[Caller] \/ \E k \in Carried : k.to = Caller /\ k.msg = a.msg /\ k.msg.info # 0
      BY <1>1, <1>2, <2>2, <3>2, <3>3
    <3>5. QED
      BY <1>1, <3>1, <3>4 DEF AnswersGrow, ghosts
  <2>3. QED
    BY <2>1, <2>2
<1>20. Serves({})
  <2>1. SUFFICES ASSUME NEW s \in Servers PROVE GoesOn(s) \/ \E k \in Carried : Gets(s, k)
    BY DEF Serves
  <2>2. s \in Nodes /\ session'[s] = session[s] /\ handled'[s] = handled[s]
    BY <1>1, CallerIsNode DEF ghosts
  <2>3. CASE s = n /\ p.msg.info = 0
    <3>1. rcvQueue'[s] = Append(rcvQueue[s], [from |-> p.from, msg |-> p.msg])
      BY <1>3, <1>4, <2>2, <2>3 DEF TypeOK
    <3>2. Gets(s, p)
      BY <1>1, <1>9, <1>10, <2>2, <2>3, <3>1 DEF Gets, hit
    <3>3. QED
      BY <1>2, <3>2
  <2>4. CASE s # n \/ p.msg.info # 0
    <3>1. rcvQueue'[s] = rcvQueue[s]
      BY <1>4, <2>2, <2>4 DEF TypeOK
    <3>2. QED
      BY <2>2, <3>1 DEF GoesOn
  <2>5. QED
    BY <2>3, <2>4
<1>21. QED
  BY <1>13, <1>14, <1>15, <1>16, <1>17, <1>11, <1>18, <1>19, <1>20 DEF Effects

-----------------------------------------------------------------------------
(***************************************************************************)
(* A second goes by: the queues and the histories grow older together.     *)
(***************************************************************************)
LEMMA TickAges ==
  ASSUME TypeOK, TimesAssumption, ~Delays, Tick
  PROVE  /\ \A n \in Nodes : pushing[n] = {} /\ pushing'[n] = {}
         /\ \A n \in Nodes : \A r \in sndQueue'[n] :
              r \in SndRecord /\ \E q \in sndQueue[n] : q.to = r.to /\ q.msg = r.msg /\ r.age = q.age + 1
         /\ \A p \in net' : \E n \in Nodes : \E r \in sndQueue'[n] : p = [from |-> n, to |-> r.to, msg |-> r.msg]
         /\ \A n \in Nodes : \A h \in history'[n] :
              h \in PeerRecord /\ \E g \in history[n] : Same(g, h) /\ h.age <= g.age + 1
         /\ \A n \in Nodes : \A g \in history[n] : \E h \in history'[n] : Same(g, h)
         /\ DOMAIN sndQueue' = Nodes /\ DOMAIN history' = Nodes
<1>1. (\A n \in Nodes : pushing[n] = {}) /\ UNCHANGED pushing
  BY DEF Tick
<1>2. sndQueue' = [n \in Nodes |-> Older(sndQueue[n], GiveUp)]
  BY DEF Tick
<1>3. ASSUME NEW n \in Nodes, NEW r \in sndQueue'[n]
      PROVE  r \in SndRecord /\ \E q \in sndQueue[n] : q.to = r.to /\ q.msg = r.msg /\ r.age = q.age + 1
  <2>1. PICK q \in sndQueue[n] : q.age < GiveUp /\ r = [q EXCEPT !.age = @ + 1]
    BY <1>2 DEF Older
  <2>2. q \in SndRecord
    BY DEF TypeOK
  <2>3. QED
    BY <2>1, <2>2, Aged
<1>4. ASSUME NEW p \in net'
      PROVE  \E n \in Nodes : \E r \in sndQueue'[n] : p = [from |-> n, to |-> r.to, msg |-> r.msg]
  <2>1. net' = UNION {Resent(n) : n \in Nodes}
    BY DEF Tick
  <2>2. PICK n \in Nodes : p \in Resent(n)
    BY <2>1
  <2>3. PICK r \in Older(sndQueue[n], GiveUp) : p = [from |-> n, to |-> r.to, msg |-> r.msg]
    BY <2>2 DEF Resent
  <2>4. r \in sndQueue'[n]
    BY <1>2, <2>3
  <2>5. QED
    BY <2>3, <2>4
<1>5. history' = [n \in Nodes |-> {[r EXCEPT !.age = IF @ > Window THEN @ ELSE @ + 1] : r \in history[n]}]
  BY DEF Tick
<1>6. ASSUME NEW n \in Nodes, NEW h \in history'[n]
      PROVE  h \in PeerRecord /\ \E g \in history[n] : Same(g, h) /\ h.age <= g.age + 1
  <2>1. PICK g \in history[n] : h = [g EXCEPT !.age = IF @ > Window THEN @ ELSE @ + 1]
    BY <1>5
  <2>2. g \in PeerRecord
    BY DEF TypeOK
  <2>3. QED
    BY <2>1, <2>2, Aged DEF Same
<1>7. ASSUME NEW n \in Nodes, NEW g \in history[n]
      PROVE  \E h \in history'[n] : Same(g, h)
  <2>1. [g EXCEPT !.age = IF @ > Window THEN @ ELSE @ + 1] \in history'[n]
    BY <1>5
  <2>2. g \in PeerRecord
    BY DEF TypeOK
  <2>3. QED
    BY <2>1, <2>2, Aged DEF Same
<1>8. QED
  BY <1>1, <1>2, <1>3, <1>4, <1>5, <1>6, <1>7

LEMMA TickStep ==
  ASSUME TypeOK, CallsInPlace, OnlyAnswersToRequests, RecordsLastLonger, TimesAssumption, ~Delays, Tick
  PROVE  TypeOK' /\ CallsInPlace' /\ RecordsLastLonger' /\ \E M : Effects(M)
<1>1. /\ \A n \in Nodes : pushing[n] = {} /\ pushing'[n] = {}
      /\ \A n \in Nodes : \A r \in sndQueue'[n] :
           r \in SndRecord /\ \E q \in sndQueue[n] : q.to = r.to /\ q.msg = r.msg /\ r.age = q.age + 1
      /\ \A p \in net' : \E n \in Nodes : \E r \in sndQueue'[n] : p = [from |-> n, to |-> r.to, msg |-> r.msg]
      /\ \A n \in Nodes : \A h \in history'[n] :
           h \in PeerRecord /\ \E g \in history[n] : Same(g, h) /\ h.age <= g.age + 1
      /\ \A n \in Nodes : \A g \in history[n] : \E h \in history'[n] : Same(g, h)
      /\ DOMAIN sndQueue' = Nodes /\ DOMAIN history' = Nodes
  BY TickAges
<1>2. UNCHANGED <<session, nextId, pushing, rcvQueue, resQueue, rtt, call, ghosts>>
  BY DEF Tick
<1>3. sndQueue' \in [Nodes -> SUBSET SndRecord] /\ history' \in [Nodes -> SUBSET PeerRecord]
  <2>1. sndQueue' = [n \in Nodes |-> sndQueue'[n]] /\ history' = [n \in Nodes |-> history'[n]]
    BY DEF Tick
  <2>2. (\A n \in Nodes : sndQueue'[n] \subseteq SndRecord) /\ (\A n \in Nodes : history'[n] \subseteq PeerRecord)
    BY <1>1
  <2>3. QED
    BY <2>1, <2>2
<1>4. net' \subseteq Packet
  <2>1. SUFFICES ASSUME NEW p \in net' PROVE p \in Packet
    OBVIOUS
  <2>2. PICK n \in Nodes, r \in SndRecord : p = [from |-> n, to |-> r.to, msg |-> r.msg]
    BY <1>1
  <2>3. QED
    BY <2>2, Fields, Made
<1>5. TypeOK' /\ CallsInPlace'
  <2>1. TypeOK'
    BY <1>2, <1>3, <1>4 DEF TypeOK, ghosts
  <2>2. CallsInPlace'
    BY <1>2 DEF CallsInPlace, InPlace
  <2>3. QED
    BY <2>1, <2>2
<1>6. ASSUME NEW n \in Nodes, NEW r \in sndQueue'[n], NEW h \in history'[r.to],
             h.from = n, h.session = r.msg.session, h.id = r.msg.id
      PROVE  h.age <= r.age
  <2>1. r \in SndRecord
    BY <1>1
  <2>2. r.to \in Nodes
    BY <2>1, Fields
  <2>3. PICK q \in sndQueue[n] : q.to = r.to /\ q.msg = r.msg /\ r.age = q.age + 1
    BY <1>1
  <2>4. PICK g \in history[r.to] : Same(g, h) /\ h.age <= g.age + 1
    BY <1>1, <2>2
  <2>5. g.age <= q.age
    BY <1>6, <2>3, <2>4 DEF RecordsLastLonger, Same
  <2>6. q \in SndRecord /\ g \in PeerRecord /\ h \in PeerRecord
    BY <1>1, <2>2 DEF TypeOK
  <2>7. q.age \in Nat /\ g.age \in Nat /\ h.age \in Nat
    BY <2>6, Fields DEF TimesAssumption
  <2>8. QED
    BY <2>3, <2>4, <2>5, <2>7
<1>7. RecordsLastLonger'
  <2>1. ASSUME NEW p \in net', NEW h \in history'[p.to], Of(h, p)
        PROVE  h.age <= GiveUp
    <3>1. PICK n \in Nodes : \E r \in sndQueue'[n] : p = [from |-> n, to |-> r.to, msg |-> r.msg]
      BY <1>1
    <3>2. PICK r \in sndQueue'[n] : p = [from |-> n, to |-> r.to, msg |-> r.msg]
      BY <3>1
    <3>3. h \in history'[r.to] /\ h.from = n /\ h.session = r.msg.session /\ h.id = r.msg.id
      BY <2>1, <3>2 DEF Of
    <3>4. h.age <= r.age
      BY <1>6, <3>3
    <3>5. r \in SndRecord
      BY <1>1
    <3>6. r.age \in 0 .. GiveUp /\ r.to \in Nodes
      BY <3>5, Fields
    <3>7. h \in PeerRecord
      BY <1>1, <3>3, <3>6
    <3>8. h.age \in Nat
      BY <3>7, Fields DEF TimesAssumption
    <3>9. QED
      BY <3>4, <3>6, <3>8 DEF TimesAssumption
  <2>2. QED
    BY <1>1, <1>6, <2>1 DEF RecordsLastLonger, Of
<1>8. CarriedGrows({})
  <2>1. SUFFICES ASSUME NEW p \in Carried' PROVE p \in Carried
    BY DEF CarriedGrows
  <2>2. PICK n \in Nodes : \E r \in sndQueue'[n] : p = [from |-> n, to |-> r.to, msg |-> r.msg]
    BY <1>1, CarriedIsNext
  <2>3. PICK r \in sndQueue'[n] : p = [from |-> n, to |-> r.to, msg |-> r.msg]
    BY <2>2
  <2>4. PICK q \in sndQueue[n] : q.to = r.to /\ q.msg = r.msg
    BY <1>1
  <2>5. p = [from |-> n, to |-> q.to, msg |-> q.msg]
    BY <2>3, <2>4
  <2>6. QED
    BY <2>5, CarriedIs
<1>9. AcksGrow
  <2>1. \A p \in net' : p.msg.type # "ack"
    <3>1. SUFFICES ASSUME NEW p \in net' PROVE p.msg.type # "ack"
      OBVIOUS
    <3>2. PICK n \in Nodes, r \in SndRecord : p = [from |-> n, to |-> r.to, msg |-> r.msg]
      BY <1>1
    <3>3. p.msg \in Message
      BY <3>2, Fields
    <3>4. QED
      BY <3>3, Fields
  <2>2. QED
    BY <2>1 DEF AcksGrow
<1>10. IdsGrow({})
  BY <1>2 DEF IdsGrow, TypeOK
<1>11. RecordsGrow({})
  <2>1. \A n \in Nodes : \A h \in history'[n] : \E g \in history[n] : Same(g, h)
    BY <1>1
  <2>2. \A n \in Nodes : \A g \in history[n] : \E h \in history'[n] : Same(g, h)
    BY <1>1
  <2>3. \A n \in Nodes : \A h \in history[n] : \E g \in history'[n] : Same(g, h)
    BY <2>2 DEF Same
  <2>4. QED
    BY <2>1, <2>3 DEF RecordsGrow
<1>12. AskedGrows({})
  BY <1>2 DEF AskedGrows, ghosts
<1>13. AnswersGrow({})
  BY <1>2 DEF AnswersGrow, OnlyAnswersToRequests, ghosts
<1>14. Serves({})
  BY <1>2 DEF Serves, GoesOn, ghosts
<1>15. QED
  BY <1>5, <1>7, <1>8, <1>9, <1>10, <1>11, <1>12, <1>13, <1>14 DEF Effects

-----------------------------------------------------------------------------
(***************************************************************************)
(* The invariant.                                                          *)
(***************************************************************************)
\* What the code's ten seconds have: a receipt is remembered for as long as a
\* message is sent again, and what is sent arrives within its second.
TimelyAssumption == ~Delays /\ GiveUp <= Window

LEMMA InitInv ==
  ASSUME TimesAssumption, Init
  PROVE  GMPInv
<1>1. TypeOK
  <2>1. /\ 1 \in Sessions /\ 1 \in 1 .. MaxId + 1
        /\ <<>> \in Seq([from : Nodes, msg : Message])
    BY BoundsAssumption DEF Sessions
  <2>2. Idle \in Call
    BY IdleIsCall
  <2>3. QED
    BY <2>1, <2>2 DEF Init, TypeOK
<1>2. Carried = {}
  BY DEF Init, Carried
<1>3. CallsInPlace
  BY DEF Init, CallsInPlace, InPlace, Idle
<1>4. IdsUsedOnce /\ RecordsLastLonger /\ AcksAreTrue
  BY <1>2 DEF Init, IdsUsedOnce, RecordsLastLonger, AcksAreTrue
<1>5. OnlyAnswersToRequests
  BY <1>2, CallerIsNode DEF Init, OnlyAnswersToRequests
<1>6. HandledOnce
  <2>1. \A s \in Servers : rcvQueue[s] = <<>> /\ \A q \in Requests : handled[s][q] = 0
    BY CallerIsNode DEF Init
  <2>2. DOMAIN <<>> = {}
    OBVIOUS
  <2>3. QED
    BY <1>2, <2>1, <2>2 DEF HandledOnce
<1>7. QED
  BY <1>1, <1>3, <1>4, <1>5, <1>6 DEF GMPInv

\* A step of a call.
LEMMA CallStepEffects ==
  ASSUME GMPInv, TimesAssumption, NEW t \in Threads, CallStep(t)
  PROVE  TypeOK' /\ CallsInPlace' /\ \E M : Effects(M) /\ MessagesGrow(M)
<1> USE DEF GMPInv
<1>1. CASE Begin(t)
  BY <1>1, BeginStep, QuietEffects
<1>2. CASE Send(t)
  BY <1>2, SendStep
<1>3. CASE SendFails(t)
  BY <1>3, SendFailsStep, QuietEffects
<1>4. CASE Skip(t)
  BY <1>4, SkipStep, QuietEffects
<1>5. CASE Receive(t)
  BY <1>5, ReceiveStep, QuietEffects
<1>6. CASE Probe(t)
  BY <1>6, ProbeStep
<1>7. CASE ProbeEnds(t)
  BY <1>7, ProbeEndsStep, QuietEffects
<1>8. CASE GiveUpCall(t)
  BY <1>8, GiveUpCallStep, QuietEffects
<1>9. QED
  BY <1>1, <1>2, <1>3, <1>4, <1>5, <1>6, <1>7, <1>8 DEF CallStep

LEMMA StepEffects ==
  ASSUME GMPInv, TimesAssumption, TimelyAssumption, [Next]_vars
  PROVE  TypeOK' /\ CallsInPlace' /\ RecordsLastLonger' /\ \E M : Effects(M)
<1> USE DEF GMPInv
<1>1. SUFFICES ASSUME ~Tick
               PROVE  TypeOK' /\ CallsInPlace' /\ \E M : Effects(M) /\ MessagesGrow(M)
  <2>1. CASE Tick
    BY <2>1, TickStep DEF TimelyAssumption
  <2>2. CASE TypeOK' /\ CallsInPlace' /\ \E M : Effects(M) /\ MessagesGrow(M)
    BY <2>2, RecordsKept DEF Effects
  <2>3. QED
    BY <2>1, <2>2
<1>2. CASE UNCHANGED vars
  <2>1. TypeOK' /\ CallsInPlace'
    BY <1>2 DEF vars, TypeOK, CallsInPlace, InPlace
  <2>2. Quiet
    BY <1>2 DEF vars, Quiet, TypeOK
  <2>3. QED
    BY <2>1, <2>2, QuietEffects
<1>3. ASSUME NEW t \in Threads, CallStep(t)
      PROVE  TypeOK' /\ CallsInPlace' /\ \E M : Effects(M) /\ MessagesGrow(M)
  BY <1>3, CallStepEffects
<1>4. ASSUME NEW n \in Nodes, Push(n) \/ Crash(n)
      PROVE  TypeOK' /\ CallsInPlace' /\ \E M : Effects(M) /\ MessagesGrow(M)
  BY <1>4, PushStep, CrashStep
<1>5. ASSUME NEW n \in Nodes, NEW p \in net, ReceiveAck(n, p) \/ ReceiveAgain(n, p) \/ ReceiveNew(n, p)
      PROVE  TypeOK' /\ CallsInPlace' /\ \E M : Effects(M) /\ MessagesGrow(M)
  BY <1>5, ReceiveAckStep, ReceiveAgainStep, ReceiveNewStep
<1>6. ASSUME NEW s \in Servers, Serve(s)
      PROVE  TypeOK' /\ CallsInPlace' /\ \E M : Effects(M) /\ MessagesGrow(M)
  BY <1>6, ServeStep
<1>7. QED
  BY <1>1, <1>2, <1>3, <1>4, <1>5, <1>6 DEF Next

LEMMA NextInv ==
  ASSUME GMPInv, TimesAssumption, TimelyAssumption, [Next]_vars
  PROVE  GMPInv'
<1>1. TypeOK' /\ CallsInPlace' /\ RecordsLastLonger' /\ \E M : Effects(M)
  BY StepEffects
<1>2. PICK M : Effects(M)
  BY <1>1
<1>3. TypeOK /\ IdsUsedOnce /\ RecordsLastLonger /\ OnlyAnswersToRequests /\ HandledOnce /\ AcksAreTrue
      /\ TypeOK' /\ GiveUp <= Window
  BY <1>1 DEF GMPInv, TimelyAssumption
<1>4. IdsUsedOnce'
  BY <1>2, <1>3, IdsKept
<1>5. OnlyAnswersToRequests'
  BY <1>2, <1>3, AnswersKept
<1>6. AcksAreTrue'
  BY <1>2, <1>3, AcksKept
<1>7. HandledOnce'
  BY <1>2, <1>3, <1>5, HandledKept
<1>8. QED
  BY <1>1, <1>4, <1>5, <1>6, <1>7 DEF GMPInv

\* The invariant of GMP: every id is for one message, a receipt is kept as long as the
\* message may come again, a server handles a request once and an answer is to a request
\* that was handled (gmp.cpp, prec.cpp).
THEOREM GMPInvariant ==
  ASSUME TimelyAssumption
  PROVE  Spec => []GMPInv
<1>1. TimesAssumption
  BY TimesAssumption
<1>2. Init => GMPInv
  BY <1>1, InitInv
<1>3. GMPInv /\ [Next]_vars => GMPInv'
  BY <1>1, NextInv
<1>4. QED
  BY <1>2, <1>3, PTL DEF Spec

-----------------------------------------------------------------------------
(***************************************************************************)
(* The calls of a caller that is not started again.                        *)
(***************************************************************************)
\* The answers that a call has yet to get.
Waits(c) == {i \in DOMAIN c.ids : c.st = "send" \/ (c.st \in {"recv", "rtt"} /\ i >= c.pos)}

\* CallsWait of the calls C, where k is the next id of the caller and O the outcomes.
Wait(C, k, O) ==
  /\ \A t \in Threads : \A i \in DOMAIN C[t].ids : C[t].ids[i] < k
  /\ \A t, u \in Threads : \A i \in DOMAIN C[t].ids, j \in DOMAIN C[u].ids :
       C[t].ids[i] = C[u].ids[j] /\ C[t].ids[i] # 0 => t = u /\ i = j
  /\ \A q \in Requests : O[q] # "none" => IsPast(1, k, q.session, q.id)
  /\ \A t \in Threads : \A i \in Waits(C[t]) :
       C[t].ids[i] # 0 => O[[session |-> 1, id |-> C[t].ids[i]]] = "none"

LEMMA WaitIs == CallsWait <=> session[Caller] = 1 /\ Wait(call, nextId[Caller], outcome)
  BY DEF CallsWait, Wait, Waits, IsPast

LEMMA WaitIsNext ==
  ASSUME session'[Caller] = 1, Wait(call', nextId'[Caller], outcome')
  PROVE  CallsWait'
  BY DEF CallsWait, Wait, Waits, IsPast

\* The calls go on, and only t does.
Goes(C, D, t) == D \in [Threads -> Call] /\ \A u \in Threads : u # t => D[u] = C[u]

LEMMA IdFields ==
  ASSUME NEW c \in Call
  PROVE  \A i \in DOMAIN c.ids : c.ids[i] \in 0 .. MaxId
<1>1. c.ids \in Seq(0 .. MaxId)
  BY CallFields
<1>2. \A S : \A s \in Seq(S) : \A i \in DOMAIN s : s[i] \in S
  OBVIOUS
<1>3. QED
  BY <1>1, <1>2

\* More ids are used by others.
LEMMA WaitLater ==
  ASSUME NEW C \in [Threads -> Call], NEW O, NEW k \in Nat, NEW l \in Nat, k <= l, Wait(C, k, O)
  PROVE  Wait(C, l, O)
<1>1. \A t \in Threads : \A i \in DOMAIN C[t].ids : C[t].ids[i] < l
  <2>1. \A t \in Threads : \A i \in DOMAIN C[t].ids : C[t].ids[i] \in 0 .. MaxId
    BY IdFields
  <2>2. QED
    BY <2>1 DEF Wait
<1>2. \A q \in Requests : O[q] # "none" => IsPast(1, l, q.session, q.id)
  BY DEF Wait, IsPast, Requests, Sessions, Ids
<1>3. QED
  BY <1>1, <1>2 DEF Wait

\* A call waits for nothing else.
LEMMA WaitLess ==
  ASSUME NEW C \in [Threads -> Call], NEW D, NEW t \in Threads, Goes(C, D, t), NEW O, NEW k, Wait(C, k, O),
         D[t].ids = C[t].ids \/ D[t].ids = <<>>, Waits(D[t]) \subseteq Waits(C[t])
  PROVE  Wait(D, k, O)
<1>1. \A u \in Threads : D[u].ids = C[u].ids \/ D[u].ids = <<>>
  BY DEF Goes
<1>2. DOMAIN <<>> = {}
  OBVIOUS
<1>3. \A u \in Threads : \A i \in DOMAIN D[u].ids : i \in DOMAIN C[u].ids /\ D[u].ids[i] = C[u].ids[i]
  BY <1>1, <1>2
<1>4. \A u \in Threads : Waits(D[u]) \subseteq Waits(C[u])
  BY DEF Goes
<1>5. \A u \in Threads : \A i \in Waits(D[u]) : i \in DOMAIN D[u].ids
  BY DEF Waits
<1>6. \A u \in Threads : \A i \in DOMAIN D[u].ids : D[u].ids[i] < k
  BY <1>3 DEF Wait
<1>7. \A u, v \in Threads : \A i \in DOMAIN D[u].ids, j \in DOMAIN D[v].ids :
        D[u].ids[i] = D[v].ids[j] /\ D[u].ids[i] # 0 => u = v /\ i = j
  BY <1>3 DEF Wait
<1>8. \A u \in Threads : \A i \in Waits(D[u]) :
        D[u].ids[i] # 0 => O[[session |-> 1, id |-> D[u].ids[i]]] = "none"
  BY <1>3, <1>4, <1>5 DEF Wait
<1>9. QED
  BY <1>6, <1>7, <1>8 DEF Wait

\* A request gets its outcome, and is not waited for any more.
LEMMA WaitDone ==
  ASSUME NEW C \in [Threads -> Call], NEW O \in [Requests -> {"none", "ok", "failed"}], NEW k \in Nat,
         Wait(C, k, O), NEW t \in Threads, NEW j \in DOMAIN C[t].ids, j \notin Waits(C[t]),
         C[t].ids[j] # 0, NEW v
  PROVE  Wait(C, k, [O EXCEPT ![[session |-> 1, id |-> C[t].ids[j]]] = v])
<1>1. PICK q : q = [session |-> 1, id |-> C[t].ids[j]]
  OBVIOUS
<1>2. PICK P : P = [O EXCEPT ![q] = v]
  OBVIOUS
<1>3. \A r \in Requests : r # q => P[r] = O[r]
  BY <1>2
<1>4. q.session = 1 /\ q.id = C[t].ids[j]
  BY <1>1
<1>5. \A r \in Requests : P[r] # "none" => IsPast(1, k, r.session, r.id)
  BY <1>3, <1>4 DEF Wait, IsPast
<1>6. ASSUME NEW u \in Threads, NEW i \in Waits(C[u]), C[u].ids[i] # 0
      PROVE  P[[session |-> 1, id |-> C[u].ids[i]]] = "none"
  <2>1. i \in DOMAIN C[u].ids
    BY DEF Waits
  <2>2. C[u].ids[i] # C[t].ids[j]
    BY <1>6, <2>1 DEF Wait
  <2>3. PICK r : r = [session |-> 1, id |-> C[u].ids[i]]
    OBVIOUS
  <2>4. r # q
    BY <1>4, <2>2, <2>3
  <2>5. r \in Requests
    <3>1. C[u].ids[i] \in 0 .. MaxId
      BY <2>1, IdFields
    <3>2. QED
      BY <1>6, <2>3, <3>1, BoundsAssumption DEF Requests, Sessions, Ids
  <2>6. O[r] = "none"
    BY <1>6, <2>3 DEF Wait
  <2>7. QED
    BY <1>3, <2>3, <2>4, <2>5, <2>6
<1>7. Wait(C, k, P)
  BY <1>5, <1>6 DEF Wait
<1>8. QED
  BY <1>1, <1>2, <1>7

\* A call gets an id that no one has, or none.
LEMMA WaitAsked ==
  ASSUME NEW C \in [Threads -> Call], NEW D, NEW t \in Threads, Goes(C, D, t), NEW O, NEW k \in Nat,
         Wait(C, k, O), NEW id \in {0, k}, D[t].ids = Append(C[t].ids, id), C[t].st = "send"
  PROVE  Wait(D, k + 1, O)
<1>1. C[t].ids \in Seq(0 .. MaxId)
  BY CallFields
<1>2. PICK L : L = D[t].ids
  OBVIOUS
<1>3. /\ DOMAIN L = 1 .. Len(C[t].ids) + 1 /\ DOMAIN C[t].ids = 1 .. Len(C[t].ids) /\ Len(C[t].ids) \in Nat
      /\ L[Len(C[t].ids) + 1] = id /\ \A i \in DOMAIN C[t].ids : L[i] = C[t].ids[i]
  BY <1>1, <1>2
<1>4. \A i \in DOMAIN L : (i \in DOMAIN C[t].ids /\ L[i] = C[t].ids[i]) \/ (i = Len(C[t].ids) + 1 /\ L[i] = id)
  BY <1>3
<1>5. \A u \in Threads : \A i \in DOMAIN C[u].ids : C[u].ids[i] \in 0 .. MaxId /\ C[u].ids[i] < k
  BY IdFields DEF Wait
<1>6. \A u \in Threads : \A i \in DOMAIN D[u].ids :
        \/ i \in DOMAIN C[u].ids /\ D[u].ids[i] = C[u].ids[i]
        \/ u = t /\ i = Len(C[t].ids) + 1 /\ D[u].ids[i] = id
  BY <1>2, <1>4 DEF Goes
<1>7. \A u \in Threads : \A i \in DOMAIN D[u].ids : D[u].ids[i] < k + 1
  BY <1>5, <1>6
<1>8. \A u, w \in Threads : \A i \in DOMAIN D[u].ids, j \in DOMAIN D[w].ids :
        D[u].ids[i] = D[w].ids[j] /\ D[u].ids[i] # 0 => u = w /\ i = j
  <2>1. SUFFICES ASSUME NEW u \in Threads, NEW w \in Threads, NEW i \in DOMAIN D[u].ids, NEW j \in DOMAIN D[w].ids,
                        D[u].ids[i] = D[w].ids[j], D[u].ids[i] # 0
                 PROVE  u = w /\ i = j
    OBVIOUS
  <2>2. CASE i \in DOMAIN C[u].ids /\ D[u].ids[i] = C[u].ids[i] /\ j \in DOMAIN C[w].ids /\ D[w].ids[j] = C[w].ids[j]
    <3>1. C[u].ids[i] = C[w].ids[j] /\ C[u].ids[i] # 0
      BY <2>1, <2>2
    <3>2. QED
      BY <2>2, <3>1 DEF Wait
  <2>3. CASE i \in DOMAIN C[u].ids /\ D[u].ids[i] = C[u].ids[i] /\ D[w].ids[j] = id
    <3>1. C[u].ids[i] \in 0 .. MaxId /\ C[u].ids[i] < k
      BY <1>5, <2>3
    <3>2. C[u].ids[i] # k
      BY <3>1
    <3>3. C[u].ids[i] = id /\ C[u].ids[i] # 0
      BY <2>1, <2>3
    <3>4. QED
      BY <3>2, <3>3
  <2>4. CASE j \in DOMAIN C[w].ids /\ D[w].ids[j] = C[w].ids[j] /\ D[u].ids[i] = id
    <3>1. C[w].ids[j] \in 0 .. MaxId /\ C[w].ids[j] < k
      BY <1>5, <2>4
    <3>2. C[w].ids[j] # k
      BY <3>1
    <3>3. C[w].ids[j] = id /\ C[w].ids[j] # 0
      BY <2>1, <2>4
    <3>4. QED
      BY <3>2, <3>3
  <2>5. CASE u = t /\ i = Len(C[t].ids) + 1 /\ w = t /\ j = Len(C[t].ids) + 1
    BY <2>5
  <2>6. QED
    BY <1>6, <2>2, <2>3, <2>4, <2>5
<1>9. \A q \in Requests : O[q] # "none" => IsPast(1, k, q.session, q.id)
  BY DEF Wait
<1>10. \A q \in Requests : O[q] # "none" => IsPast(1, k + 1, q.session, q.id)
  BY <1>9 DEF IsPast, Requests, Sessions, Ids
<1>11. ASSUME NEW u \in Threads, NEW i \in Waits(D[u]), D[u].ids[i] # 0
       PROVE  O[[session |-> 1, id |-> D[u].ids[i]]] = "none"
  <2>1. i \in DOMAIN D[u].ids
    BY DEF Waits
  <2>2. CASE i \in DOMAIN C[u].ids /\ D[u].ids[i] = C[u].ids[i]
    <3>1. i \in Waits(C[u])
      BY <2>2 DEF Goes, Waits
    <3>2. QED
      BY <1>11, <2>2, <3>1 DEF Wait
  <2>3. CASE D[u].ids[i] = id
    <3>1. id = k
      BY <1>11, <2>3
    <3>2. PICK q : q = [session |-> 1, id |-> k]
      OBVIOUS
    <3>3. ~IsPast(1, k, q.session, q.id)
      BY <3>2 DEF IsPast
    <3>4. k \in Ids
      <4>1. D[t] \in Call
        BY DEF Goes
      <4>2. u = t \/ D[u] = C[u]
        BY DEF Goes
      <4>3. D[u].ids[i] \in 0 .. MaxId
        BY <2>1, IdFields DEF Goes
      <4>4. QED
        BY <1>11, <2>3, <3>1, <4>3 DEF Ids
    <3>5. q \in Requests
      BY <3>2, <3>4, BoundsAssumption DEF Requests, Sessions
    <3>6. QED
      BY <1>9, <2>3, <3>1, <3>2, <3>3, <3>5
  <2>4. QED
    BY <1>6, <2>1, <2>2, <2>3
<1>12. QED
  BY <1>7, <1>8, <1>10, <1>11 DEF Wait

\* The steps that no call takes.
LEMMA OthersWait ==
  ASSUME TypeOK, TypeOK', CallsWait, session'[Caller] = session[Caller], nextId'[Caller] >= nextId[Caller],
         UNCHANGED <<call, outcome>>
  PROVE  CallsWait'
<1>1. nextId[Caller] \in Nat /\ nextId'[Caller] \in Nat /\ call \in [Threads -> Call]
  BY CallerIsNode DEF TypeOK
<1>2. session[Caller] = 1 /\ Wait(call, nextId[Caller], outcome)
  BY WaitIs
<1>3. Wait(call, nextId'[Caller], outcome)
  BY <1>1, <1>2, WaitLater
<1>4. QED
  BY <1>2, <1>3, WaitIsNext

\* A call that goes on to its next answer waits for one less.
LEMMA AnsweredWaits ==
  ASSUME NEW c \in Call, InPlace(c), c.st \in {"recv", "rtt"}
  PROVE  /\ Answered(c).ids = c.ids
         /\ Waits(Answered(c)) \subseteq Waits(c)
         /\ c.pos \in DOMAIN c.ids
         /\ c.pos \in Waits(c)
         /\ c.pos \notin Waits(Answered(c))
<1>1. c.dests \in Seq(Servers) /\ c.ids \in Seq(0 .. MaxId) /\ c.pos \in Nat
  BY CallFields
<1>2. DOMAIN c.dests = 1 .. Len(c.dests) /\ DOMAIN c.ids = 1 .. Len(c.ids) /\ Len(c.ids) = Len(c.dests)
  BY <1>1 DEF InPlace
<1>3. c.pos \in DOMAIN c.ids
  BY <1>2 DEF InPlace
<1>4. PICK a : a = Answered(c)
  OBVIOUS
<1>5. /\ a.ids = c.ids /\ a.pos = c.pos + 1
      /\ a.st = IF c.pos = Len(c.dests) THEN "done" ELSE "recv"
  BY <1>4 DEF Answered, Call
<1>6. \A i \in DOMAIN c.ids : i \in Nat
  BY <1>2
<1>7. Waits(a) \subseteq Waits(c)
  BY <1>1, <1>5, <1>6 DEF Waits
<1>8. c.pos \in Waits(c)
  BY <1>1, <1>3 DEF Waits
<1>9. c.pos \notin Waits(a)
  BY <1>1, <1>5 DEF Waits
<1>10. QED
  BY <1>3, <1>4, <1>5, <1>7, <1>8, <1>9

LEMMA ChangesOne ==
  ASSUME TypeOK, TypeOK', NEW t \in Threads, NEW c, call' = [call EXCEPT ![t] = c]
  PROVE  /\ Goes(call, call', t) /\ call'[t] = c
         /\ call \in [Threads -> Call] /\ call' \in [Threads -> Call]
         /\ nextId[Caller] \in Nat /\ nextId'[Caller] \in Nat /\ Caller \in Nodes
         /\ outcome \in [Requests -> {"none", "ok", "failed"}]
  BY CallerIsNode DEF TypeOK, Goes

LEMMA BeginWaits ==
  ASSUME TypeOK, TypeOK', CallsWait, NEW t \in Threads, Begin(t)
  PROVE  CallsWait' /\ UNCHANGED <<asked, handled, everDone, outcome>>
<1>1. PICK d \in Dests : call' = [call EXCEPT ![t] = [Idle EXCEPT !.st = "send", !.dests = d, !.pos = 1]]
  BY DEF Begin
<1>2. PICK c : c = [Idle EXCEPT !.st = "send", !.dests = d, !.pos = 1]
  OBVIOUS
<1>3. c.ids = <<>>
  BY <1>2 DEF Idle
<1>4. Waits(c) = {}
  <2>1. DOMAIN <<>> = {}
    OBVIOUS
  <2>2. QED
    BY <1>3, <2>1 DEF Waits
<1>5. UNCHANGED <<session, nextId, asked, handled, everDone, outcome>>
  BY DEF Begin, nodeVars, ghosts
<1>6. /\ Goes(call, call', t) /\ call'[t] = c /\ call \in [Threads -> Call]
  BY <1>1, <1>2, ChangesOne
<1>7. Wait(call', nextId[Caller], outcome)
  BY <1>3, <1>4, <1>6, WaitIs, WaitLess
<1>8. QED
  BY <1>5, <1>7, WaitIs, WaitIsNext

LEMMA SkipWaits ==
  ASSUME TypeOK, TypeOK', TimesAssumption, CallsInPlace, CallsWait, NEW t \in Threads, Skip(t)
  PROVE  CallsWait' /\ UNCHANGED <<asked, handled, everDone, outcome>>
<1>1. call[t] \in Call /\ call[t].st = "recv" /\ InPlace(call[t]) /\ AfterAnswer(t)
  BY DEF Skip, TypeOK, CallsInPlace
<1>2. call' = [call EXCEPT ![t] = Answered(call[t])]
  BY <1>1, AfterAnswerAnswered
<1>3. UNCHANGED <<session, nextId, asked, handled, everDone, outcome>>
  BY DEF Skip, nodeVars, ghosts
<1>4. Goes(call, call', t) /\ call'[t] = Answered(call[t]) /\ call \in [Threads -> Call]
  BY <1>2, ChangesOne
<1>5. Wait(call', nextId[Caller], outcome)
  BY <1>1, <1>4, AnsweredWaits, WaitIs, WaitLess
<1>6. QED
  BY <1>3, <1>5, WaitIs, WaitIsNext

LEMMA ProbeWaits ==
  ASSUME TypeOK, TypeOK', CallsWait, NEW t \in Threads, Probe(t) \/ ProbeEnds(t)
  PROVE  CallsWait' /\ UNCHANGED <<asked, handled, everDone, outcome>>
<1>1. call[t] \in Call /\ call[t].st \in {"recv", "rtt"}
  BY DEF Probe, ProbeEnds, TypeOK
<1>2. PICK c : /\ call' = [call EXCEPT ![t] = c]
               /\ c.ids = call[t].ids /\ c.pos = call[t].pos /\ c.st \in {"recv", "rtt"}
  <2>1. CASE Probe(t)
    <3>1. PICK c : c = [call[t] EXCEPT !.st = "rtt"]
      OBVIOUS
    <3>2. c.ids = call[t].ids /\ c.pos = call[t].pos /\ c.st = "rtt"
      BY <1>1, <3>1 DEF Call
    <3>3. call' = [call EXCEPT ![t] = c]
      BY <2>1, <3>1 DEF Probe, TypeOK
    <3>4. QED
      BY <3>2, <3>3
  <2>2. CASE ProbeEnds(t)
    <3>1. PICK e : e = Errors(t)
      OBVIOUS
    <3>2. PICK c : c = [call[t] EXCEPT !.st = "recv", !.err = e, !.round = @ + 1]
      OBVIOUS
    <3>3. c.ids = call[t].ids /\ c.pos = call[t].pos /\ c.st = "recv"
      BY <1>1, <3>2 DEF Call
    <3>4. call' = [call EXCEPT ![t] = c]
      BY <2>2, <3>1, <3>2 DEF ProbeEnds, TypeOK
    <3>5. QED
      BY <3>3, <3>4
  <2>3. QED
    BY <2>1, <2>2
<1>3. UNCHANGED <<session, asked, handled, everDone, outcome>>
  BY DEF Probe, ProbeEnds, nodeVars, ghosts
<1>4. nextId'[Caller] >= nextId[Caller]
  <2>1. nextId[Caller] \in Nat
    BY CallerIsNode DEF TypeOK
  <2>2. nextId' = nextId \/ nextId' = [nextId EXCEPT ![Caller] = @ + 1]
    BY DEF Probe, ProbeEnds, UDPsend, Used, nodeVars
  <2>3. nextId'[Caller] = nextId[Caller] \/ nextId'[Caller] = nextId[Caller] + 1
    BY <2>2, CallerIsNode DEF TypeOK
  <2>4. QED
    BY <2>1, <2>3
<1>5. /\ Goes(call, call', t) /\ call'[t] = c
      /\ call \in [Threads -> Call] /\ call' \in [Threads -> Call]
      /\ nextId[Caller] \in Nat /\ nextId'[Caller] \in Nat
  BY <1>2, ChangesOne
<1>6. Waits(c) \subseteq Waits(call[t])
  BY <1>1, <1>2 DEF Waits
<1>7. Wait(call', nextId[Caller], outcome)
  BY <1>2, <1>5, <1>6, WaitIs, WaitLess
<1>8. Wait(call', nextId'[Caller], outcome)
  BY <1>4, <1>5, <1>7, WaitLater
<1>9. QED
  BY <1>3, <1>8, WaitIs, WaitIsNext

\* A thread takes the next id for its call, or none.
LEMMA AskedWaits ==
  ASSUME TypeOK, TypeOK', TimesAssumption, CallsWait, NEW t \in Threads, call[t].st = "send",
         NEW id \in {0, nextId[Caller]}, id \in 0 .. MaxId, AfterSend(t, id), nextId'[Caller] = nextId[Caller] + 1,
         UNCHANGED <<session, outcome>>
  PROVE  CallsWait'
<1>1. call' = [call EXCEPT ![t] = Asked(call[t], id)]
  BY AfterSendAsked
<1>2. call[t] \in Call
  BY DEF TypeOK
<1>3. Asked(call[t], id).ids = Append(call[t].ids, id)
  BY <1>2 DEF Asked, Call
<1>4. /\ Goes(call, call', t) /\ call'[t] = Asked(call[t], id) /\ call \in [Threads -> Call]
      /\ nextId[Caller] \in Nat
  BY <1>1, ChangesOne
<1>5. Wait(call', nextId[Caller] + 1, outcome)
  BY <1>3, <1>4, WaitIs, WaitAsked
<1>6. QED
  BY <1>5, WaitIs, WaitIsNext

LEMMA SendFailsWaits ==
  ASSUME TypeOK, TypeOK', TimesAssumption, CallsWait, NEW t \in Threads, SendFails(t)
  PROVE  CallsWait' /\ UNCHANGED <<asked, handled, everDone, outcome>>
<1>1. /\ call[t].st = "send" /\ Used(Caller) /\ AfterSend(t, 0)
      /\ UNCHANGED <<session, asked, handled, everDone, outcome>>
  BY DEF SendFails, ghosts
<1>2. nextId'[Caller] = nextId[Caller] + 1
  BY <1>1, CallerIsNode DEF Used, TypeOK
<1>3. 0 \in 0 .. MaxId
  BY BoundsAssumption
<1>4. QED
  BY <1>1, <1>2, <1>3, AskedWaits

LEMMA SendWaits ==
  ASSUME TypeOK, TypeOK', TimesAssumption, CallsInPlace, IdsUsedOnce, CallsWait, NEW t \in Threads, Send(t)
  PROVE  CallsWait' /\ Calls!Next
<1>1. call[t] \in Call /\ call[t].st = "send" /\ Caller \in Nodes
  BY CallerIsNode DEF Send, TypeOK
<1>2. PICK d \in Servers : d = Dest(t)
  BY <1>1, Destination
<1>3. PICK m : m = [from |-> Caller, to |-> d, msg |-> NewMessage(Caller, "data", 0, 0)]
  OBVIOUS
<1>4. m.from = Caller /\ m.msg.session = session[Caller] /\ m.msg.id = nextId[Caller]
  BY <1>3 DEF NewMessage
<1>5. PICK q : q = [session |-> session[Caller], id |-> nextId[Caller]]
  OBVIOUS
<1>6. asked' = asked \cup {<<q, d>>} /\ q = Request(m.msg)
  BY <1>2, <1>4, <1>5 DEF Send, NewMessage, Request
<1>7. /\ AfterSend(t, nextId[Caller]) /\ nextId[Caller] \in Ids /\ Used(Caller)
      /\ UNCHANGED <<session, handled, everDone, outcome>>
  BY DEF Send, UDPsend, UDTsend
<1>8. nextId'[Caller] = nextId[Caller] + 1
  BY <1>1, <1>7 DEF Used, TypeOK
<1>9. nextId[Caller] \in 0 .. MaxId
  BY <1>7 DEF Ids
<1>10. CallsWait'
  BY <1>1, <1>7, <1>8, <1>9, AskedWaits
<1>11. q \in Requests
  BY <1>1, <1>5, <1>7 DEF Requests, TypeOK
<1>12. Fresh(m)
  <2>1. NewMessage(Caller, "data", 0, 0) \in Message
    BY <1>1, <1>7, BoundsAssumption DEF NewMessage, Message, TypeOK
  <2>2. QED
    BY <1>1, <1>3, <1>4, <2>1, CallerIsNode DEF Fresh
<1>13. \A a \in asked : a[1] # q
  BY <1>4, <1>6, <1>12, FreshIsNew
<1>14. Calls!Ask(q, d)
  BY <1>6, <1>7, <1>13 DEF Calls!Ask
<1>15. QED
  BY <1>10, <1>11, <1>14 DEF Calls!Next

\* A thread that waits for an answer gets it, or gives it up.
LEMMA DoneWaits ==
  ASSUME TypeOK, TypeOK', TimesAssumption, CallsInPlace, CallsWait, NEW t \in Threads, AfterAnswer(t),
         call[t].st \in {"recv", "rtt"}, call[t].ids[call[t].pos] # 0, NEW v \in {"ok", "failed"},
         outcome' = [outcome EXCEPT ![Asking(t)] = v], UNCHANGED <<session, nextId>>
  PROVE  /\ CallsWait'
         /\ \E q \in Requests : /\ q = [session |-> 1, id |-> call[t].ids[call[t].pos]]
                                /\ outcome[q] = "none" /\ outcome' = [outcome EXCEPT ![q] = v]
<1>1. call[t] \in Call /\ InPlace(call[t])
  BY DEF TypeOK, CallsInPlace
<1>2. call' = [call EXCEPT ![t] = Answered(call[t])]
  BY AfterAnswerAnswered
<1>3. /\ Goes(call, call', t) /\ call'[t] = Answered(call[t])
      /\ call \in [Threads -> Call] /\ call' \in [Threads -> Call]
      /\ nextId[Caller] \in Nat /\ outcome \in [Requests -> {"none", "ok", "failed"}]
  BY <1>2, ChangesOne
<1>4. PICK c \in Call : c = call[t]
  BY <1>1
<1>5. /\ Answered(c).ids = c.ids /\ Waits(Answered(c)) \subseteq Waits(c) /\ c.pos \in DOMAIN c.ids
      /\ c.pos \in Waits(c) /\ c.pos \notin Waits(Answered(c))
  BY <1>1, <1>4, AnsweredWaits
<1>6. PICK q : q = [session |-> 1, id |-> c.ids[c.pos]]
  OBVIOUS
<1>7. q \in Requests
  <2>1. c.ids[c.pos] \in 0 .. MaxId
    BY <1>5, IdFields
  <2>2. QED
    BY <1>4, <1>6, <2>1, BoundsAssumption DEF Requests, Sessions, Ids
<1>8. session[Caller] = 1 /\ Wait(call, nextId[Caller], outcome)
  BY WaitIs
<1>9. outcome' = [outcome EXCEPT ![q] = v]
  BY <1>4, <1>6, <1>8 DEF Asking
<1>10. outcome[q] = "none"
  BY <1>4, <1>5, <1>6, <1>8 DEF Wait
<1>11. Wait(call', nextId[Caller], outcome)
  BY <1>3, <1>4, <1>5, <1>8, WaitLess
<1>12. call'[t].ids[c.pos] = c.ids[c.pos] /\ c.pos \in DOMAIN call'[t].ids /\ c.pos \notin Waits(call'[t])
  BY <1>3, <1>4, <1>5
<1>13. Wait(call', nextId[Caller], [outcome EXCEPT ![[session |-> 1, id |-> call'[t].ids[c.pos]]] = v])
  BY <1>3, <1>4, <1>11, <1>12, WaitDone
<1>14. Wait(call', nextId[Caller], outcome')
  BY <1>6, <1>9, <1>12, <1>13
<1>15. CallsWait'
  BY <1>8, <1>14, WaitIsNext
<1>16. QED
  BY <1>4, <1>6, <1>7, <1>9, <1>10, <1>15

LEMMA ReceiveWaits ==
  ASSUME TypeOK, TypeOK', TimesAssumption, CallsInPlace, IdsUsedOnce, OnlyAnswersToRequests, CallsWait,
         NEW t \in Threads, Receive(t)
  PROVE  CallsWait' /\ Calls!Next
<1>1. PICK a \in resQueue[Caller] : a.msg.info = call[t].ids[call[t].pos]
  BY DEF Receive
<1>2. call[t].st = "recv" /\ AfterAnswer(t) /\ outcome' = [outcome EXCEPT ![Asking(t)] = "ok"]
      /\ UNCHANGED <<session, nextId, asked, handled, everDone>>
  BY DEF Receive
<1>3. a.msg.info # 0 /\ [session |-> a.msg.re, id |-> a.msg.info] \in everDone
  BY DEF OnlyAnswersToRequests
<1>4. PICK k : k = [session |-> a.msg.re, id |-> a.msg.info]
  OBVIOUS
<1>5. PICK b \in asked : b[1] = k
  BY <1>3, <1>4 DEF OnlyAnswersToRequests
<1>6. k \in Requests
  BY <1>3, <1>4 DEF TypeOK
<1>7. k.session = 1
  <2>1. session[Caller] = 1
    BY DEF CallsWait
  <2>2. IsPast(1, nextId[Caller], k.session, k.id)
    BY <1>5, <2>1 DEF IdsUsedOnce
  <2>3. k.session \in Sessions
    BY <1>6 DEF Requests
  <2>4. QED
    BY <2>2, <2>3 DEF IsPast, Sessions
<1>8. k = [session |-> 1, id |-> call[t].ids[call[t].pos]]
  BY <1>1, <1>4, <1>7
<1>9. PICK q \in Requests : /\ q = [session |-> 1, id |-> call[t].ids[call[t].pos]]
                            /\ outcome[q] = "none" /\ outcome' = [outcome EXCEPT ![q] = "ok"] /\ CallsWait'
  BY <1>1, <1>2, <1>3, DoneWaits
<1>10. q \in everDone
  BY <1>3, <1>4, <1>8, <1>9
<1>11. Calls!Answer(q)
  BY <1>2, <1>9, <1>10 DEF Calls!Answer
<1>12. QED
  BY <1>9, <1>11 DEF Calls!Next

LEMMA GiveUpCallWaits ==
  ASSUME TypeOK, TypeOK', TimesAssumption, CallsInPlace, CallsWait, NEW t \in Threads, GiveUpCall(t)
  PROVE  CallsWait' /\ Calls!Next
<1>1. call[t].st = "rtt" /\ AfterAnswer(t) /\ outcome' = [outcome EXCEPT ![Asking(t)] = "failed"]
      /\ UNCHANGED <<session, nextId, asked, handled, everDone>>
  BY DEF GiveUpCall, nodeVars
<1>2. call[t].ids[call[t].pos] # 0
  BY <1>1 DEF CallsInPlace, InPlace
<1>3. PICK q \in Requests : /\ outcome[q] = "none" /\ outcome' = [outcome EXCEPT ![q] = "failed"] /\ CallsWait'
  BY <1>1, <1>2, DoneWaits
<1>4. Calls!Fail(q)
  BY <1>1, <1>3 DEF Calls!Fail
<1>5. QED
  BY <1>3, <1>4 DEF Calls!Next

\* A server handles a request for the first time.
LEMMA ServeHandles ==
  ASSUME TypeOK, HandledOnce, NEW s \in Servers, Serve(s)
  PROVE  Calls!Next
<1>1. PICK r : r = Head(rcvQueue[s])
  OBVIOUS
<1>2. rcvQueue[s] # <<>> /\ rcvQueue[s] \in Seq(Letter) /\ r = rcvQueue[s][1] /\ 1 \in DOMAIN rcvQueue[s]
  BY <1>1, QueueFields DEF Serve
<1>3. PICK q : q = Request(r.msg)
  OBVIOUS
<1>4. q \in Requests
  BY <1>2, <1>3, QueueFields
<1>5. <<q, s>> \in asked /\ handled[s][q] = 0
  BY <1>2, <1>3 DEF HandledOnce
<1>6. /\ handled' = [handled EXCEPT ![s][q] = @ + 1]
      /\ everDone' = everDone \cup {q}
      /\ UNCHANGED <<asked, outcome>>
  BY <1>1, <1>3 DEF Serve, Request
<1>7. handled' = [handled EXCEPT ![s][q] = 1]
  BY <1>4, <1>5, <1>6 DEF TypeOK
<1>8. Calls!Handle(q, s)
  BY <1>5, <1>6, <1>7 DEF Calls!Handle
<1>9. QED
  BY <1>4, <1>8 DEF Calls!Next

\* What is not a step of a call is one of a server, or changes nothing for the calls.
LEMMA OtherSteps ==
  ASSUME TypeOK, TypeOK', HandledOnce, CallsWait, Caller \notin Crashers, [Next]_vars,
         \A t \in Threads : ~CallStep(t)
  PROVE  CallsWait' /\ [Calls!Next]_<<asked, handled, everDone, outcome>>
<1>1. nextId[Caller] \in Nat /\ Caller \in Nodes
  BY CallerIsNode DEF TypeOK
<1>2. ASSUME UNCHANGED <<session, nextId, call, asked, handled, everDone, outcome>>
      PROVE  CallsWait' /\ [Calls!Next]_<<asked, handled, everDone, outcome>>
  BY <1>1, <1>2, OthersWait
<1>3. CASE UNCHANGED vars
  BY <1>2, <1>3 DEF vars
<1>4. ASSUME NEW n \in Nodes, Push(n)
      PROVE  CallsWait' /\ [Calls!Next]_<<asked, handled, everDone, outcome>>
  BY <1>2, <1>4 DEF Push, ghosts
<1>5. ASSUME NEW n \in Nodes, Crash(n)
      PROVE  CallsWait' /\ [Calls!Next]_<<asked, handled, everDone, outcome>>
  <2>1. n \in Servers /\ n # Caller
    BY <1>5 DEF Crash, Nodes
  <2>2. session'[Caller] = session[Caller] /\ nextId'[Caller] = nextId[Caller]
    BY <1>1, <1>5, <2>1 DEF Crash, TypeOK
  <2>3. /\ handled' = [handled EXCEPT ![n] = [q \in Requests |-> 0]]
        /\ UNCHANGED <<call, asked, everDone, outcome>>
    BY <1>5, <2>1 DEF Crash
  <2>4. CallsWait'
    BY <1>1, <2>2, <2>3, OthersWait
  <2>5. Calls!Restart(n)
    BY <2>3 DEF Calls!Restart
  <2>6. QED
    BY <2>1, <2>4, <2>5 DEF Calls!Next
<1>6. ASSUME NEW n \in Nodes, NEW p \in net, ReceiveAck(n, p) \/ ReceiveAgain(n, p) \/ ReceiveNew(n, p)
      PROVE  CallsWait' /\ [Calls!Next]_<<asked, handled, everDone, outcome>>
  BY <1>2, <1>6 DEF ReceiveAck, ReceiveAgain, ReceiveNew, nodeVars, ghosts
<1>7. ASSUME NEW s \in Servers, Serve(s)
      PROVE  CallsWait' /\ [Calls!Next]_<<asked, handled, everDone, outcome>>
  <2>1. /\ nextId' = [nextId EXCEPT ![s] = @ + 1]
        /\ UNCHANGED <<session, call, outcome>>
    BY <1>7 DEF Serve, UDPsend, Used
  <2>2. nextId'[Caller] = nextId[Caller]
    BY <1>1, <2>1, CallerAssumption DEF TypeOK
  <2>3. CallsWait'
    BY <1>1, <2>1, <2>2, OthersWait
  <2>4. QED
    BY <1>7, <2>3, ServeHandles
<1>8. CASE Tick
  BY <1>2, <1>8 DEF Tick, ghosts
<1>9. QED
  BY <1>3, <1>4, <1>5, <1>6, <1>7, <1>8 DEF Next

LEMMA StepWaits ==
  ASSUME GMPInv, TypeOK', TimesAssumption, CallsWait, Caller \notin Crashers, [Next]_vars
  PROVE  CallsWait' /\ [Calls!Next]_<<asked, handled, everDone, outcome>>
<1> USE DEF GMPInv
<1>1. CASE \A t \in Threads : ~CallStep(t)
  BY <1>1, OtherSteps
<1>2. ASSUME NEW t \in Threads, CallStep(t)
      PROVE  CallsWait' /\ [Calls!Next]_<<asked, handled, everDone, outcome>>
  <2>1. CASE Begin(t)
    BY <2>1, BeginWaits
  <2>2. CASE Send(t)
    BY <2>2, SendWaits
  <2>3. CASE SendFails(t)
    BY <2>3, SendFailsWaits
  <2>4. CASE Skip(t)
    BY <2>4, SkipWaits
  <2>5. CASE Receive(t)
    BY <2>5, ReceiveWaits
  <2>6. CASE Probe(t) \/ ProbeEnds(t)
    BY <2>6, ProbeWaits
  <2>7. CASE GiveUpCall(t)
    BY <2>7, GiveUpCallWaits
  <2>8. QED
    BY <1>2, <2>1, <2>2, <2>3, <2>4, <2>5, <2>6, <2>7 DEF CallStep
<1>3. QED
  BY <1>1, <1>2

\* GMP implements remote calls between servers that may be started again and a caller that
\* is not: a request that is sent again and again is handled once, and what rpc returns is
\* the answer to its own request (gmp.cpp, rcvHandler, sndHandler, rpc, multi_rpc).
THEOREM GMPImplementsRemoteCalls ==
  ASSUME TimelyAssumption, Caller \notin Crashers
  PROVE  Spec => ImplementsRemoteCalls
<1>1. TimesAssumption
  BY TimesAssumption
<1>2. Init => GMPInv /\ CallsWait /\ Calls!Init
  <2>1. SUFFICES ASSUME Init PROVE GMPInv /\ CallsWait /\ Calls!Init
    OBVIOUS
  <2>2. GMPInv
    BY <1>1, <2>1, InitInv
  <2>3. CallsWait
    <3>1. \A t \in Threads : DOMAIN call[t].ids = {}
      BY <2>1 DEF Init, Idle
    <3>2. session[Caller] = 1 /\ \A q \in Requests : outcome[q] = "none"
      BY <2>1, CallerIsNode DEF Init
    <3>3. QED
      BY <3>1, <3>2 DEF CallsWait
  <2>4. Calls!Init
    BY <2>1 DEF Init, Calls!Init
  <2>5. QED
    BY <2>2, <2>3, <2>4
<1>3. GMPInv /\ CallsWait /\ [Next]_vars =>
        GMPInv' /\ CallsWait' /\ [Calls!Next]_<<asked, handled, everDone, outcome>>
  <2>1. SUFFICES ASSUME GMPInv, CallsWait, [Next]_vars
                 PROVE  GMPInv' /\ CallsWait' /\ [Calls!Next]_<<asked, handled, everDone, outcome>>
    OBVIOUS
  <2>2. GMPInv'
    BY <1>1, <2>1, NextInv
  <2>3. TypeOK'
    BY <2>2 DEF GMPInv
  <2>4. QED
    BY <1>1, <2>1, <2>2, <2>3, StepWaits
<1>4. QED
  BY <1>2, <1>3, PTL DEF Spec, ImplementsRemoteCalls, Calls!Spec, Calls!callVars

-----------------------------------------------------------------------------
(***************************************************************************)
(* Acknowledgements.                                                       *)
(***************************************************************************)
\* What record r of node n, of which nothing is left after a step, says.
Received(n, r) ==
  /\ r.msg.type = "data"
  /\ r.age < GiveUp
  /\ session'[n] = 1 /\ session'[r.to] = 1
  /\ \A r2 \in sndQueue'[n] : r2.msg # r.msg
  => \E h \in history[r.to] : h.from = n /\ h.session = r.msg.session /\ h.id = r.msg.id

LEMMA AckReceived ==
  ASSUME TypeOK, AcksAreTrue, NEW k \in Nodes, NEW p \in net, ReceiveAck(k, p),
         NEW n \in Nodes, NEW r \in sndQueue[n]
  PROVE  Received(n, r)
<1>1. SUFFICES ASSUME r.msg.type = "data", session'[n] = 1, session'[r.to] = 1,
                      \A r2 \in sndQueue'[n] : r2.msg # r.msg
               PROVE  \E h \in history[r.to] : h.from = n /\ h.session = r.msg.session /\ h.id = r.msg.id
  BY DEF Received
<1>2. r \notin sndQueue'[n]
  BY <1>1
<1>3. PICK b \in sndQueue[k] : Acks(p, b) /\ sndQueue' = [sndQueue EXCEPT ![k] = @ \ {b}]
  BY <1>2 DEF ReceiveAck
<1>4. k = n /\ b = r
  BY <1>2, <1>3 DEF TypeOK
<1>5. p.to = n /\ p.msg.type = "ack" /\ session' = session /\ p.msg.id = r.msg.id
  BY <1>3, <1>4 DEF ReceiveAck, Acks
<1>6. PICK q : q = [from |-> n, to |-> r.to, msg |-> r.msg]
  OBVIOUS
<1>7. q \in Carried
  BY <1>6, CarriedIs
<1>8. q.from = p.to /\ q.msg.id = p.msg.id /\ q.msg.type = "data" /\ session[p.to] = 1 /\ session[q.to] = 1
  BY <1>1, <1>5, <1>6
<1>9. q.to = p.from /\ \E h \in history[q.to] : Of(h, q)
  BY <1>5, <1>7, <1>8 DEF AcksAreTrue
<1>10. QED
  BY <1>6, <1>9 DEF Of

LEMMA StepReceived ==
  ASSUME GMPInv, GMPInv', TimesAssumption, Next, NEW n \in Nodes, NEW r \in sndQueue[n]
  PROVE  Received(n, r)
<1> USE DEF GMPInv
<1>1. ASSUME sndQueue[n] \subseteq sndQueue'[n] PROVE Received(n, r)
  BY <1>1 DEF Received
<1>2. ASSUME NEW t \in Threads, CallStep(t) PROVE Received(n, r)
  BY <1>1, <1>2 DEF CallStep, Begin, Send, SendFails, Skip, Receive, Probe, ProbeEnds, GiveUpCall, nodeVars
<1>3. ASSUME NEW k \in Nodes, Push(k) PROVE Received(n, r)
  BY <1>1, <1>3 DEF Push, TypeOK
<1>4. ASSUME NEW k \in Nodes, Crash(k) PROVE Received(n, r)
  <2>1. CASE k = n
    <3>1. session'[n] = session[n] + 1 /\ session[n] \in Sessions
      BY <1>4, <2>1 DEF Crash, TypeOK
    <3>2. session'[n] # 1
      BY <3>1 DEF Sessions
    <3>3. QED
      BY <3>2 DEF Received
  <2>2. CASE k # n
    BY <1>1, <1>4, <2>2 DEF Crash, TypeOK
  <2>3. QED
    BY <2>1, <2>2
<1>5. ASSUME NEW k \in Nodes, NEW p \in net, ReceiveAck(k, p) PROVE Received(n, r)
  BY <1>5, AckReceived
<1>6. ASSUME NEW k \in Nodes, NEW p \in net, ReceiveAgain(k, p) \/ ReceiveNew(k, p) PROVE Received(n, r)
  BY <1>1, <1>6 DEF ReceiveAgain, ReceiveNew, nodeVars
<1>7. ASSUME NEW s \in Servers, Serve(s) PROVE Received(n, r)
  BY <1>1, <1>7 DEF Serve
<1>8. CASE Tick
  <2>1. SUFFICES ASSUME r.age < GiveUp PROVE \E b \in sndQueue'[n] : b.msg = r.msg
    BY DEF Received
  <2>2. sndQueue'[n] = Older(sndQueue[n], GiveUp)
    BY <1>8 DEF Tick
  <2>3. [r EXCEPT !.age = @ + 1] \in sndQueue'[n]
    BY <2>1, <2>2 DEF Older
  <2>4. r \in SndRecord
    BY DEF TypeOK
  <2>5. QED
    BY <2>1, <2>3, <2>4, Aged
<1>9. QED
  BY <1>2, <1>3, <1>4, <1>5, <1>6, <1>7, <1>8 DEF Next

\* A message is taken off the send queue, before its ten seconds are over, only when its
\* receiver has it, although an acknowledgement is matched by the id alone (rcvHandler).
THEOREM AckedMessagesWereReceived ==
  ASSUME TimelyAssumption
  PROVE  Spec => AckedWasReceived
<1>1. TimesAssumption
  BY TimesAssumption
<1>2. Init => GMPInv
  BY <1>1, InitInv
<1>3. GMPInv /\ [Next]_vars => GMPInv'
  BY <1>1, NextInv
<1>4. GMPInv /\ GMPInv' /\ [Next]_vars =>
        [\A n \in Nodes : \A r \in sndQueue[n] :
         /\ r.msg.type = "data"
         /\ r.age < GiveUp
         /\ session'[n] = 1 /\ session'[r.to] = 1
         /\ \A r2 \in sndQueue'[n] : r2.msg # r.msg
         => \E h \in history[r.to] : h.from = n /\ h.session = r.msg.session /\ h.id = r.msg.id]_vars
  BY <1>1, StepReceived DEF Received
<1>5. QED
  BY <1>2, <1>3, <1>4, PTL DEF Spec, AckedWasReceived
=============================================================================
