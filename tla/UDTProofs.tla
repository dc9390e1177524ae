------------------------------ MODULE UDTProofs ------------------------------
(***************************************************************************)
(* Theorems about the parts of UDT beside the stream (UDTTransferProofs),  *)
(* for any numbers of nodes, messages and packets, and about the data      *)
(* channels that sessions share over it, for any number of sessions that   *)
(* use recv only.                                                          *)
(***************************************************************************)
EXTENDS UDTMessages, UDTSetup, Channels, FiniteSetTheorems, SequenceTheorems, WellFoundedInduction, TLAPS

-----------------------------------------------------------------------------
(* A rendezvous. *)

LEMMA RendezvousStarts ==
  ASSUME MaxRest \in Nat, R!Init
  PROVE  R!RendezvousInv
<1>1. R!TypeOK
  BY DEF R!Init, R!TypeOK, R!Types
<1>2. \A s \in R!Sides : side[s].req = "0" /\ side[s].st = "connecting" /\ side[s].box = "none"
  BY DEF R!Init
<1> QED BY <1>1, <1>2 DEF R!Init, R!RendezvousInv, R!UpWhenHeard

\* A side that looks at what has come has heard of the other, and is connected if that is
\* a packet of one that has heard of it.
LEMMA LookKeeps ==
  ASSUME R!RendezvousInv, NEW s \in R!Sides, R!Look(s)
  PROVE  R!RendezvousInv'
<1>1. R!TypeOK /\ s \in R!Sides /\ wire' = wire
  BY DEF R!RendezvousInv, R!Look
<1>2. \A z \in R!Sides : R!Other(z) \in R!Sides
  BY DEF R!Sides, R!Other
<1> DEFINE h == side[s].heard \/ R!First(s)
           q == IF R!First(s) THEN "-1" ELSE side[s].req
           t == IF R!Complete(s) THEN "up" ELSE side[s].st
<1>3. side' = [side EXCEPT ![s].box = "none", ![s].heard = h, ![s].req = q, ![s].st = t]
  BY DEF R!Look
<1>4. h \in BOOLEAN /\ q \in {"0", "-1"} /\ t \in {"connecting", "up", "failed", "closed"}
  BY <1>1 DEF R!TypeOK, R!First
<1>5. /\ q = "-1" \/ t = "up" => h
      /\ side[s].heard => h
      /\ t = "up" => side[R!Other(s)].heard \/ side[s].st = "up"
  <2>1. side[s].req = "-1" \/ side[s].st = "up" => side[s].heard
    BY DEF R!RendezvousInv
  <2>2. side[s].box \notin {"none", "0"} => side[R!Other(s)].heard
    BY DEF R!RendezvousInv
  <2>3. side[s].box # "none" /\ side[s].req \in {"0", "-1"}
    BY <1>1 DEF R!Look, R!TypeOK
  <2>4. R!Complete(s) => (side[s].heard \/ R!First(s) \/ side[s].req = "-1") /\ side[s].box \notin {"none", "0"}
    BY <2>3 DEF R!Complete, R!First
  <2> QED BY <2>1, <2>2, <2>4
<1> HIDE DEF h, q, t
<1>6. R!TypeOK'
  <2>1. side[s] \in [st : {"connecting", "up", "failed", "closed"}, req : {"0", "-1"},
                     heard : BOOLEAN, box : R!Types \cup {"none"}, rest : 0 .. MaxRest]
    BY <1>1 DEF R!TypeOK
  <2>2. [side[s] EXCEPT !.box = "none", !.heard = h, !.req = q, !.st = t]
          \in [st : {"connecting", "up", "failed", "closed"}, req : {"0", "-1"},
               heard : BOOLEAN, box : R!Types \cup {"none"}, rest : 0 .. MaxRest]
    BY <1>4, <2>1
  <2>3. side' = [side EXCEPT ![s] = [side[s] EXCEPT !.box = "none", !.heard = h, !.req = q, !.st = t]]
    BY <1>1, <1>3 DEF R!TypeOK
  <2> QED BY <1>1, <2>2, <2>3 DEF R!TypeOK
<1>7. \A z \in R!Sides :
        /\ side'[z].heard = IF z = s THEN h ELSE side[z].heard
        /\ side'[z].req = IF z = s THEN q ELSE side[z].req
        /\ side'[z].st = IF z = s THEN t ELSE side[z].st
        /\ side'[z].box = IF z = s THEN "none" ELSE side[z].box
  BY <1>1, <1>3 DEF R!TypeOK
<1>8. \A z \in R!Sides : side[z].heard => side'[z].heard
  BY <1>5, <1>7
<1>9. \A p \in wire : p.to \in R!Sides
  BY <1>1 DEF R!TypeOK
<1>10. R!UpWhenHeard'
  BY <1>2, <1>5, <1>7, <1>8 DEF R!RendezvousInv, R!UpWhenHeard
<1> QED BY <1>1, <1>2, <1>5, <1>6, <1>7, <1>8, <1>9, <1>10 DEF R!RendezvousInv

\* The other steps leave what a side has heard as it is.
LEMMA RendezvousGoesOn ==
  ASSUME MaxRest \in Nat, R!RendezvousInv, [R!Next]_<<side, wire>>
  PROVE  R!RendezvousInv'
<1>1. R!TypeOK
  BY DEF R!RendezvousInv
<1>2. \A z \in R!Sides : R!Other(z) \in R!Sides /\ R!Other(R!Other(z)) = z
  BY DEF R!Sides, R!Other
<1>3. ASSUME R!TypeOK',
             \A z \in R!Sides :
               /\ side'[z].heard = side[z].heard /\ side'[z].req = side[z].req
               /\ side'[z].st = "up" => side[z].st = "up"
               /\ side'[z].box \notin {"none", "0"} => side[R!Other(z)].heard,
             \A p \in wire' : p.type # "0" => side[R!Other(p.to)].heard
      PROVE  R!RendezvousInv'
  <2>1. \A p \in wire' : p.to \in R!Sides
    BY <1>3 DEF R!TypeOK
  <2> QED BY <1>2, <1>3, <2>1 DEF R!RendezvousInv, R!UpWhenHeard
<1>4. ASSUME NEW s \in R!Sides, NEW type \in R!Types, wire' \subseteq wire \cup {[to |-> R!Other(s), type |-> type]},
             UNCHANGED side, type # "0" => side[s].heard
      PROVE  R!RendezvousInv'
  <2>1. R!TypeOK'
    BY <1>1, <1>2, <1>4 DEF R!TypeOK
  <2> QED BY <1>2, <1>3, <1>4, <2>1 DEF R!RendezvousInv
<1>5. ASSUME wire' \subseteq wire, UNCHANGED side PROVE R!RendezvousInv'
  <2>1. R!TypeOK'
    BY <1>1, <1>5 DEF R!TypeOK
  <2> QED BY <1>3, <1>5, <2>1 DEF R!RendezvousInv
<1>6. ASSUME NEW s \in R!Sides, R!SendRequest(s) \/ R!SendData(s) PROVE R!RendezvousInv'
  <2>1. PICK type \in R!Types :
          wire' = wire \cup {[to |-> R!Other(s), type |-> type]} /\ UNCHANGED side /\ (type # "0" => side[s].heard)
    BY <1>1, <1>6 DEF R!SendRequest, R!SendData, R!TypeOK, R!Types, R!RendezvousInv
  <2> QED BY <1>4, <2>1
<1>7. ASSUME NEW s \in R!Sides, R!Rest(s) PROVE R!RendezvousInv'
  <2>1. PICK n \in 0 .. MaxRest, t \in {"connecting", "failed"} :
          side' = [side EXCEPT ![s].rest = n, ![s].st = t] /\ wire' = wire
    <3>1. side[s].rest \in 0 .. MaxRest /\ side[s].st = "connecting"
      BY <1>1, <1>7 DEF R!Rest, R!TypeOK
    <3>2. (IF side[s].rest < MaxRest THEN side[s].rest + 1 ELSE side[s].rest) \in 0 .. MaxRest
      BY <3>1
    <3> QED BY <1>7, <3>1, <3>2 DEF R!Rest
  <2>2. R!TypeOK'
    <3>1. side[s] \in [st : {"connecting", "up", "failed", "closed"}, req : {"0", "-1"},
                      heard : BOOLEAN, box : R!Types \cup {"none"}, rest : 0 .. MaxRest]
      BY <1>1 DEF R!TypeOK
    <3>2. [side[s] EXCEPT !.rest = n, !.st = t]
            \in [st : {"connecting", "up", "failed", "closed"}, req : {"0", "-1"},
                 heard : BOOLEAN, box : R!Types \cup {"none"}, rest : 0 .. MaxRest]
      BY <3>1
    <3>3. side' = [side EXCEPT ![s] = [side[s] EXCEPT !.rest = n, !.st = t]]
      BY <1>1, <2>1 DEF R!TypeOK
    <3> QED BY <1>1, <2>1, <3>2, <3>3 DEF R!TypeOK
  <2>3. \A z \in R!Sides :
          /\ side'[z].heard = side[z].heard /\ side'[z].req = side[z].req
          /\ side'[z].st = "up" => side[z].st = "up"
          /\ side'[z].box = side[z].box
    BY <1>1, <2>1 DEF R!TypeOK
  <2> QED BY <1>3, <2>1, <2>2, <2>3 DEF R!RendezvousInv
<1>8. ASSUME NEW s \in R!Sides, R!Close(s) PROVE R!RendezvousInv'
  <2>1. side' = [side EXCEPT ![s].st = "closed"] /\ wire' = wire
    BY <1>8 DEF R!Close
  <2>2. R!TypeOK'
    BY <1>1, <2>1 DEF R!TypeOK
  <2>3. \A z \in R!Sides :
          /\ side'[z].heard = side[z].heard /\ side'[z].req = side[z].req
          /\ side'[z].st = "up" => side[z].st = "up"
          /\ side'[z].box = side[z].box
    BY <1>1, <2>1 DEF R!TypeOK
  <2> QED BY <1>3, <2>1, <2>2, <2>3 DEF R!RendezvousInv
<1>9. ASSUME NEW p \in wire, R!Store(p) PROVE R!RendezvousInv'
  <2>1. p.to \in R!Sides /\ p.type \in R!Types
    BY <1>1 DEF R!TypeOK
  <2>2. side' = [side EXCEPT ![p.to].box = p.type] /\ wire' = wire \ {p}
    BY <1>9 DEF R!Store
  <2>3. R!TypeOK'
    BY <1>1, <2>1, <2>2 DEF R!TypeOK
  <2>4. \A z \in R!Sides :
          /\ side'[z].heard = side[z].heard /\ side'[z].req = side[z].req /\ side'[z].st = side[z].st
          /\ side'[z].box = IF z = p.to THEN p.type ELSE side[z].box
    BY <1>1, <2>1, <2>2 DEF R!TypeOK
  <2>5. p.type # "0" => side[R!Other(p.to)].heard
    BY DEF R!RendezvousInv
  <2> QED BY <1>3, <2>2, <2>3, <2>4, <2>5 DEF R!RendezvousInv
<1>10. ASSUME NEW p \in wire, R!Answer(p) PROVE R!RendezvousInv'
  <2>1. p.to \in R!Sides /\ side[p.to].heard
    BY <1>1, <1>10 DEF R!TypeOK, R!Answer, R!RendezvousInv
  <2>2. wire' \subseteq wire \cup {[to |-> R!Other(p.to), type |-> "-2"]} /\ UNCHANGED side
    BY <1>10 DEF R!Answer
  <2> QED BY <1>4, <2>1, <2>2 DEF R!Types
<1>11. ASSUME NEW p \in wire, R!Lose(p) \/ R!Drop(p) PROVE R!RendezvousInv'
  BY <1>5, <1>11 DEF R!Lose, R!Drop
<1>12. CASE UNCHANGED <<side, wire>>
  BY <1>5, <1>12
<1> QED BY <1>6, <1>7, <1>8, <1>9, <1>10, <1>11, <1>12, LookKeeps DEF R!Next

\* However long the answers of the two sides take, and whoever was first: a side is connected only
\* when the other has heard of it.
THEOREM RendezvousMeansHeard ==
  ASSUME MaxRest \in Nat
  PROVE  R!Spec => []R!UpWhenHeard
<1>1. R!Init => R!RendezvousInv
  BY RendezvousStarts
<1>2. R!RendezvousInv /\ [R!Next]_<<side, wire>> => R!RendezvousInv'
  BY RendezvousGoesOn
<1>3. R!RendezvousInv => R!UpWhenHeard
  BY DEF R!RendezvousInv
<1> QED BY <1>1, <1>2, <1>3, PTL DEF R!Spec, R!vars

-----------------------------------------------------------------------------
(* Connecting. *)

\* The parameters: a client is not the server.
ConnectAssumption == "server" \notin Clients /\ MaxTry \in Nat /\ MaxSock \in Nat /\ Backlog \in Nat

LEMMA SameCardinality ==
  ASSUME NEW S
  PROVE  C!Cardinality(S) = Cardinality(S)
BY DEF C!Cardinality, Cardinality

LEMMA ConnectTyped ==
  ASSUME ConnectAssumption, C!TypeOK
  PROVE  /\ cl \in [Clients -> C!ClientRecord] /\ hs \subseteq C!Request \cup C!Answer
         /\ \A p \in hs : (p.to \in Clients => p \in C!Answer) /\ (p.to = "server" => p \in C!Request)
         /\ sk \in Seq(C!SocketRecord) /\ Len(sk) \in 0 .. MaxSock /\ DOMAIN sk = 1 .. Len(sk) /\ DOMAIN sk \subseteq C!Ids
         /\ \A i \in DOMAIN sk : sk[i] \in C!SocketRecord
<1>1. cl \in [Clients -> C!ClientRecord] /\ hs \subseteq C!Request \cup C!Answer /\ sk \in Seq(C!SocketRecord) /\ Len(sk) <= MaxSock
  BY DEF C!TypeOK
<1>2. \A p \in hs : (p.to \in Clients => p \in C!Answer) /\ (p.to = "server" => p \in C!Request)
  BY <1>1 DEF C!Request, C!Answer, ConnectAssumption
<1>3. Len(sk) \in 0 .. MaxSock /\ DOMAIN sk = 1 .. Len(sk)
  BY <1>1 DEF ConnectAssumption
<1>4. DOMAIN sk \subseteq C!Ids
  BY <1>3 DEF C!Ids, ConnectAssumption
<1> QED BY <1>1, <1>2, <1>3, <1>4

LEMMA ConnectStarts ==
  ASSUME ConnectAssumption, C!Init
  PROVE  C!ConnectionInv
<1>1. cl \in [Clients -> C!ClientRecord]
  BY DEF C!Init, C!ClientRecord, C!ClientStates, C!Tries, ConnectAssumption
<1>2. Cardinality(queued) <= Backlog /\ sk \in Seq(C!SocketRecord) /\ Len(sk) <= MaxSock /\ DOMAIN sk = {}
  BY FS_EmptySet DEF C!Init, ConnectAssumption
<1>3. C!TypeOK
  <2>1. queued = {} /\ accepted = {} /\ hs = {} /\ owned = {} /\ crashed = FALSE /\ acc = 0 /\ lst = "open"
    BY DEF C!Init
  <2>2. hs \subseteq (C!Request \cup C!Answer) /\ queued \subseteq C!Ids /\ accepted \subseteq C!Ids
        /\ queued \cap accepted = {} /\ owned \subseteq C!Ids
    BY <2>1
  <2>3. crashed \in BOOLEAN
    BY <2>1
  <2>4. lst \in {"open", "closed", "removed"} /\ acc \in 0 .. MaxSock
    BY <2>1 DEF ConnectAssumption
  <2> QED BY <1>1, <1>2, <2>2, <2>3, <2>4, SameCardinality DEF C!TypeOK
<1>4. C!SocketsFound /\ C!OneConnectionPerRequest /\ C!QueueOfLiveSockets
  BY <1>2 DEF C!Init, C!SocketsFound, C!OneConnectionPerRequest, C!QueueOfLiveSockets
<1>5. C!AnswersTrue /\ C!ConnectedAgree
  BY DEF C!Init, C!AnswersTrue, C!ConnectedAgree
<1> QED BY <1>3, <1>4, <1>5 DEF C!ConnectionInv

\* A step of the clients: what is new on the way is not for a client, what is new in a buffer
\* was on its way, and who is connected now has taken an answer to this request.
LEMMA ClientFrame ==
  ASSUME ConnectAssumption, C!ConnectionInv, UNCHANGED C!server,
         cl' \in [Clients -> C!ClientRecord], hs' \subseteq C!Request \cup C!Answer,
         \A p \in hs' : p \in hs \/ p.to \notin Clients,
         \A c \in Clients : cl'[c].box # <<>> =>
           cl'[c].box = cl[c].box \/ (cl'[c].box \in hs /\ cl'[c].box.to = c),
         \A c \in Clients : cl'[c].st = "up" =>
           \/ cl[c].st = "up" /\ cl'[c].sock = cl[c].sock /\ cl'[c].isn = cl[c].isn
           \/ /\ cl[c].box # <<>> /\ cl[c].box.type = "ok"
              /\ cl'[c].sock = cl[c].box.sock /\ cl'[c].isn = cl[c].box.isn
  PROVE  C!ConnectionInv'
<1>1. UNCHANGED <<lst, queued, accepted, sk, acc, owned, crashed>>
  BY DEF C!server
<1>2. C!TypeOK'
  BY <1>1 DEF C!ConnectionInv, C!TypeOK
<1>3. C!SocketsFound' /\ C!OneConnectionPerRequest'
  BY <1>1 DEF C!ConnectionInv, C!SocketsFound, C!OneConnectionPerRequest
<1>4. C!QueueOfLiveSockets'
  BY <1>1 DEF C!ConnectionInv, C!QueueOfLiveSockets, C!InTable
<1>5. \A p : C!Truthful(p)' <=> C!Truthful(p)
  BY <1>1 DEF C!Truthful
<1>6. C!AnswersTrue'
  <2>1. \A p \in hs' : p.to \in Clients => C!Truthful(p)'
    BY <1>5 DEF C!ConnectionInv, C!AnswersTrue
  <2>2. ASSUME NEW c \in Clients, cl'[c].box # <<>>
        PROVE  /\ cl'[c].box.to = c
               /\ cl'[c].box.type = "ok" =>
                    /\ cl'[c].box.sock \in DOMAIN sk' /\ sk'[cl'[c].box.sock].peer = cl'[c].box.to
                    /\ sk'[cl'[c].box.sock].isn = cl'[c].box.isn
    <3>1. PICK p : p = cl'[c].box
      OBVIOUS
    <3>2. p.to = c /\ C!Truthful(p)
      BY <2>2, <3>1 DEF C!ConnectionInv, C!AnswersTrue
    <3>3. p.type = "ok" => p.sock \in DOMAIN sk' /\ sk'[p.sock].peer = p.to /\ sk'[p.sock].isn = p.isn
      BY <1>1, <3>2 DEF C!Truthful
    <3> QED BY <3>1, <3>2, <3>3
  <2> QED BY <2>1, <2>2 DEF C!AnswersTrue, C!Truthful
<1>7. C!ConnectedAgree'
  <2>1. ASSUME NEW c \in Clients, cl'[c].st = "up"
        PROVE  cl'[c].sock \in DOMAIN sk /\ sk[cl'[c].sock].peer = c /\ sk[cl'[c].sock].isn = cl'[c].isn
    <3>1. CASE cl[c].st = "up" /\ cl'[c].sock = cl[c].sock /\ cl'[c].isn = cl[c].isn
      BY <3>1 DEF C!ConnectionInv, C!ConnectedAgree
    <3>2. CASE /\ cl[c].box # <<>> /\ cl[c].box.type = "ok"
               /\ cl'[c].sock = cl[c].box.sock /\ cl'[c].isn = cl[c].box.isn
      BY <3>2 DEF C!ConnectionInv, C!AnswersTrue, C!Truthful
    <3> QED BY <2>1, <3>1, <3>2
  <2> QED BY <1>1, <2>1 DEF C!ConnectedAgree
<1> QED BY <1>2, <1>3, <1>4, <1>6, <1>7 DEF C!ConnectionInv

\* A step of one client alone.
LEMMA ClientStepKeeps ==
  ASSUME ConnectAssumption, C!ConnectionInv, NEW c \in Clients,
         C!Connect(c) \/ C!SendRequest(c) \/ C!TakeAnswer(c) \/ C!ConnectTimeout(c) \/ C!ClientEnds(c)
  PROVE  C!ConnectionInv'
<1>1. C!TypeOK
  BY DEF C!ConnectionInv
<1>2. cl \in [Clients -> C!ClientRecord] /\ hs \subseteq C!Request \cup C!Answer
  BY <1>1, ConnectTyped
<1>3. ASSUME NEW r \in C!ClientRecord, cl' = [cl EXCEPT ![c] = r], UNCHANGED hs, UNCHANGED C!server,
             r.box # <<>> => r.box = cl[c].box,
             r.st = "up" => /\ cl[c].box # <<>> /\ cl[c].box.type = "ok"
                            /\ r.sock = cl[c].box.sock /\ r.isn = cl[c].box.isn
      PROVE  C!ConnectionInv'
  <2>1. \A d \in Clients : cl'[d] = IF d = c THEN r ELSE cl[d]
    BY <1>2, <1>3
  <2>2. cl' \in [Clients -> C!ClientRecord] /\ hs' \subseteq C!Request \cup C!Answer
    BY <1>2, <1>3
  <2> QED BY <1>3, <2>1, <2>2, ClientFrame
<1>4. CASE C!Connect(c)
  <2> DEFINE r == [cl[c] EXCEPT !.st = "asking", !.isn = @ + 1]
  <2>1. cl' = [cl EXCEPT ![c] = r]
    BY <1>2, <1>4 DEF C!Connect, C!ClientRecord
  <2>2. r \in C!ClientRecord /\ r.st = "asking" /\ r.box = cl[c].box
    BY <1>2, <1>4 DEF C!Connect, C!ClientRecord, C!ClientStates, C!Tries, ConnectAssumption
  <2> HIDE DEF r
  <2> QED BY <1>3, <1>4, <2>1, <2>2 DEF C!Connect
<1>5. CASE C!SendRequest(c)
  <2> DEFINE q == [to |-> "server", from |-> c, isn |-> cl[c].isn, cookie |-> cl[c].st = "connecting"]
  <2>1. hs' = hs \cup {q} /\ cl' = cl /\ UNCHANGED C!server
    BY <1>5 DEF C!SendRequest
  <2>2. q \in C!Request /\ q.to \notin Clients
    BY <1>2 DEF C!Request, C!ClientRecord, ConnectAssumption
  <2> HIDE DEF q
  <2>3. hs' \subseteq C!Request \cup C!Answer
    BY <1>2, <2>1, <2>2
  <2>4. cl' \in [Clients -> C!ClientRecord]
    BY <1>2, <2>1
  <2> QED BY <2>1, <2>2, <2>3, <2>4, ClientFrame
<1>6. CASE C!TakeAnswer(c)
  <2>1. PICK p \in C!Answer : p = cl[c].box
    BY <1>2, <1>6 DEF C!TakeAnswer, C!ClientRecord
  <2>2. PICK st, sock : /\ st = (IF p.type = "cookie" THEN "connecting"
                                 ELSE IF C!Matches(c, p) THEN "up" ELSE "idle")
                        /\ sock = (IF C!Matches(c, p) THEN p.sock ELSE cl[c].sock)
    OBVIOUS
  <2> DEFINE r == [cl[c] EXCEPT !.box = <<>>, !.st = st, !.sock = sock]
  <2>3. cl' = [cl EXCEPT ![c] = r] /\ UNCHANGED hs /\ UNCHANGED C!server /\ cl[c].box # <<>>
    BY <1>2, <1>6, <2>1, <2>2 DEF C!TakeAnswer, C!ClientRecord
  <2>4. st \in C!ClientStates /\ sock \in 0 .. MaxSock
    BY <1>2, <2>2 DEF C!ClientRecord, C!ClientStates, C!Answer
  <2>5. r \in C!ClientRecord /\ r.box = <<>> /\ r.st = st /\ r.sock = sock /\ r.isn = cl[c].isn
    BY <1>2, <2>4 DEF C!ClientRecord
  <2>6. st = "up" => p.type = "ok" /\ sock = p.sock /\ cl[c].isn = p.isn
    BY <2>2 DEF C!Matches
  <2> HIDE DEF r
  <2> QED BY <1>3, <2>1, <2>3, <2>5, <2>6
<1>7. CASE C!ConnectTimeout(c) \/ C!ClientEnds(c)
  <2>1. PICK st \in {"idle", "closed"} : cl' = [cl EXCEPT ![c].st = st] /\ UNCHANGED hs /\ UNCHANGED C!server
    BY <1>7 DEF C!ConnectTimeout, C!ClientEnds
  <2> DEFINE r == [cl[c] EXCEPT !.st = st]
  <2>2. cl' = [cl EXCEPT ![c] = r]
    BY <2>1
  <2>3. r \in C!ClientRecord /\ r.st = st /\ r.box = cl[c].box
    BY <1>2 DEF C!ClientRecord, C!ClientStates
  <2> HIDE DEF r
  <2> QED BY <1>3, <2>1, <2>2, <2>3
<1> QED BY <1>4, <1>5, <1>6, <1>7

\* A handshake comes to a client, or is lost.
LEMMA ArriveKeeps ==
  ASSUME ConnectAssumption, C!ConnectionInv, NEW p \in hs, C!Arrive(p) \/ C!LoseHandshake(p)
  PROVE  C!ConnectionInv'
<1>1. C!TypeOK
  BY DEF C!ConnectionInv
<1>2. /\ cl \in [Clients -> C!ClientRecord] /\ hs \subseteq C!Request \cup C!Answer
      /\ (p.to \in Clients => p \in C!Answer)
  BY <1>1, ConnectTyped
<1>3. hs' = hs \ {p} /\ UNCHANGED C!server
  BY DEF C!Arrive, C!LoseHandshake
<1>4. CASE cl' = cl
  BY <1>2, <1>3, <1>4, ClientFrame
<1>5. CASE p.to \in Clients /\ cl' = [cl EXCEPT ![p.to].box = p]
  <2>1. PICK c \in Clients : c = p.to
    BY <1>5
  <2> DEFINE r == [cl[c] EXCEPT !.box = p]
  <2>2. cl' = [cl EXCEPT ![c] = r]
    BY <1>5, <2>1
  <2>3. r \in C!ClientRecord /\ r.box = p /\ r.st = cl[c].st /\ r.sock = cl[c].sock /\ r.isn = cl[c].isn
    BY <1>2, <2>1 DEF C!ClientRecord
  <2> HIDE DEF r
  <2>4. \A d \in Clients : cl'[d] = IF d = c THEN r ELSE cl[d]
    BY <1>2, <2>2
  <2>5. cl' \in [Clients -> C!ClientRecord] /\ hs' \subseteq C!Request \cup C!Answer
    BY <1>2, <1>3, <2>2, <2>3
  <2> QED BY <1>3, <2>1, <2>3, <2>4, <2>5, ClientFrame
<1> QED BY <1>4, <1>5 DEF C!Arrive, C!LoseHandshake

\* A step of the server: what it answers is true of the sockets that there are now, and those
\* that there were keep their peer and request.
LEMMA ServerFrame ==
  ASSUME ConnectAssumption, C!ConnectionInv, cl' = cl,
         \A q \in hs' : \/ q \in hs
                        \/ /\ q \in C!Answer
                           /\ q.type = "ok" => /\ q.sock \in DOMAIN sk' /\ sk'[q.sock].peer = q.to
                                               /\ sk'[q.sock].isn = q.isn,
         sk' \in Seq(C!SocketRecord), Len(sk') <= MaxSock,
         \A i \in DOMAIN sk : i \in DOMAIN sk' /\ sk'[i].peer = sk[i].peer /\ sk'[i].isn = sk[i].isn,
         queued' \subseteq C!Ids, accepted' \subseteq C!Ids, queued' \cap accepted' = {},
         Cardinality(queued') <= Backlog, lst' \in {"open", "closed", "removed"},
         acc' \in 0 .. MaxSock, owned' \subseteq C!Ids, crashed' \in BOOLEAN,
         C!SocketsFound', C!OneConnectionPerRequest', C!QueueOfLiveSockets'
  PROVE  C!ConnectionInv'
<1>1. C!TypeOK /\ C!AnswersTrue /\ C!ConnectedAgree
  BY DEF C!ConnectionInv
<1>2. hs' \subseteq C!Request \cup C!Answer
  BY <1>1, ConnectTyped
<1>3. cl' \in [Clients -> C!ClientRecord]
  BY <1>1 DEF C!TypeOK
<1>4. C!TypeOK'
  BY <1>2, <1>3, SameCardinality DEF C!TypeOK
<1>5. C!AnswersTrue'
  <2>1. ASSUME NEW q \in hs', q.to \in Clients, q.type = "ok"
        PROVE  q.sock \in DOMAIN sk' /\ sk'[q.sock].peer = q.to /\ sk'[q.sock].isn = q.isn
    BY <1>1, <2>1 DEF C!AnswersTrue, C!Truthful
  <2>2. ASSUME NEW c \in Clients, cl[c].box # <<>>
        PROVE  /\ cl[c].box.to = c
               /\ cl[c].box.type = "ok" =>
                    /\ cl[c].box.sock \in DOMAIN sk' /\ sk'[cl[c].box.sock].peer = cl[c].box.to
                    /\ sk'[cl[c].box.sock].isn = cl[c].box.isn
    BY <1>1, <2>2 DEF C!AnswersTrue, C!Truthful
  <2> QED BY <2>1, <2>2 DEF C!AnswersTrue, C!Truthful
<1>6. C!ConnectedAgree'
  BY <1>1 DEF C!ConnectedAgree
<1> QED BY <1>4, <1>5, <1>6 DEF C!ConnectionInv

\* The queue is finite.
LEMMA QueueFinite ==
  ASSUME ConnectAssumption, C!TypeOK
  PROVE  /\ IsFiniteSet(queued) /\ Cardinality(queued) \in Nat
         /\ \A S \in SUBSET queued : IsFiniteSet(S) /\ Cardinality(S) \in Nat /\ Cardinality(S) <= Cardinality(queued)
<1>1. IsFiniteSet(C!Ids)
  BY FS_Interval DEF C!Ids, ConnectAssumption
<1>2. IsFiniteSet(queued)
  BY <1>1, FS_Subset DEF C!TypeOK
<1> QED BY <1>2, FS_Subset, FS_CardinalityType

\* A set of numbers has a least one, and what is queued a largest one.
LEMMA LeastNumber ==
  ASSUME NEW T \in SUBSET Nat, T # {}
  PROVE  \E k \in T : \A m \in T : ~(m < k)
<1>1. PICK k \in T : \A m \in T : <<m, k>> \notin OpToRel(<, Nat)
  <2>1. \E x \in T : \A y \in T : ~(<<y, x>> \in OpToRel(<, Nat))
    BY NatLessThanWellFounded, WFMin
  <2> QED BY <2>1
<1> QED BY <1>1 DEF OpToRel

LEMMA NewestIsQueued ==
  ASSUME ConnectAssumption, C!TypeOK, queued # {}
  PROVE  C!Max(queued) \in queued
<1> DEFINE D == {n \in Nat : MaxSock - n \in queued}
<1>1. PICK q \in queued : TRUE
  OBVIOUS
<1>2. queued \subseteq 1 .. MaxSock
  BY DEF C!TypeOK, C!Ids
<1>3. MaxSock - q \in D
  BY <1>2 DEF ConnectAssumption
<1>4. PICK n \in D : \A k \in D : ~(k < n)
  BY <1>3, LeastNumber
<1>5. \A k \in D : n <= k
  BY <1>4
<1>6. MaxSock - n \in queued /\ \A y \in queued : MaxSock - n >= y
  <2>1. ASSUME NEW y \in queued PROVE MaxSock - n >= y
    <3>1. MaxSock - y \in D
      BY <1>2 DEF ConnectAssumption
    <3> QED BY <1>2, <1>5, <3>1 DEF ConnectAssumption
  <2> QED BY <2>1
<1> QED BY <1>6 DEF C!Max

\* A step that creates no socket: sockets wither, and the request keeps the one it has.
LEMMA WitherKeeps ==
  ASSUME ConnectAssumption, C!ConnectionInv, cl' = cl,
         \A q \in hs' : q \in hs \/ (q \in C!Answer /\ q.type # "ok"),
         sk' \in Seq(C!SocketRecord), Len(sk') = Len(sk),
         \A i \in DOMAIN sk : /\ sk'[i].peer = sk[i].peer /\ sk'[i].isn = sk[i].isn
                              /\ sk'[i].at = "open" => sk[i].at = "open"
                              /\ ~sk'[i].broken => ~sk[i].broken,
         queued' \subseteq queued, accepted' \subseteq C!Ids, queued' \cap accepted' = {},
         lst' \in {"open", "closed", "removed"},
         acc' \in 0 .. MaxSock, owned' \subseteq C!Ids, crashed' \in BOOLEAN,
         C!SocketsFound', C!QueueOfLiveSockets'
  PROVE  C!ConnectionInv'
<1>1. C!TypeOK /\ C!OneConnectionPerRequest
  BY DEF C!ConnectionInv
<1>2. DOMAIN sk' = DOMAIN sk /\ Len(sk') <= MaxSock
  BY <1>1 DEF C!TypeOK
<1>3. C!OneConnectionPerRequest'
  BY <1>1, <1>2 DEF C!OneConnectionPerRequest
<1>4. queued' \subseteq C!Ids /\ Cardinality(queued') <= Backlog
  <2>1. Cardinality(queued') \in Nat /\ Cardinality(queued') <= Cardinality(queued) /\ Cardinality(queued) \in Nat
    BY <1>1, QueueFinite
  <2>2. Cardinality(queued) <= Backlog /\ queued \subseteq C!Ids
    BY <1>1, SameCardinality DEF C!TypeOK
  <2> QED BY <2>1, <2>2 DEF ConnectAssumption
<1> QED BY <1>2, <1>3, <1>4, ServerFrame

\* The cookie, and the answer to a request that comes again.
LEMMA AnswerKeeps ==
  ASSUME ConnectAssumption, C!ConnectionInv, NEW p \in hs, C!GiveCookie(p) \/ C!Repeated(p)
  PROVE  C!ConnectionInv'
<1>1. C!TypeOK /\ C!SocketsFound /\ C!OneConnectionPerRequest /\ C!QueueOfLiveSockets
  BY DEF C!ConnectionInv
<1>2. cl' = cl /\ UNCHANGED <<lst, queued, accepted, sk, acc, owned, crashed>>
  BY DEF C!GiveCookie, C!Repeated, C!server
<1>3. p \in C!Request /\ p.from \in Clients /\ p.isn \in C!Tries
  <2>1. p.to = "server"
    BY DEF C!GiveCookie, C!Repeated
  <2>2. p \in C!Request
    BY <1>1, <2>1, ConnectTyped
  <2> QED BY <2>2 DEF C!Request
<1>4. \A t \in {"cookie", "ok", "refused"}, i \in 0 .. MaxSock :
        /\ C!Reply(p, t, i) \in C!Answer /\ C!Reply(p, t, i).type = t /\ C!Reply(p, t, i).sock = i
        /\ C!Reply(p, t, i).to = p.from /\ C!Reply(p, t, i).isn = p.isn
  BY <1>3 DEF C!Reply, C!Answer
<1>5. \A q \in hs' : \/ q \in hs
                     \/ /\ q \in C!Answer
                        /\ q.type = "ok" => /\ q.sock \in DOMAIN sk' /\ sk'[q.sock].peer = q.to
                                            /\ sk'[q.sock].isn = q.isn
  <2>1. CASE C!GiveCookie(p)
    <3>1. hs' \subseteq hs \cup {C!Reply(p, "cookie", 0)} /\ 0 \in 0 .. MaxSock
      BY <2>1 DEF C!GiveCookie, ConnectAssumption
    <3> QED BY <1>4, <3>1
  <2>2. CASE C!Repeated(p)
    <3>1. PICK i \in C!Locate(p) : hs' \subseteq hs \cup {C!Reply(p, "ok", i)}
      BY <2>2 DEF C!Repeated
    <3>2. i \in DOMAIN sk /\ sk[i].peer = p.from /\ sk[i].isn = p.isn
      BY <1>1, <3>1 DEF C!Locate, C!SocketsFound
    <3>3. i \in 0 .. MaxSock
      BY <1>1, <3>2, ConnectTyped DEF C!Ids, ConnectAssumption
    <3> QED BY <1>2, <1>4, <3>1, <3>2, <3>3
  <2> QED BY <2>1, <2>2
<1>6. C!SocketsFound' /\ C!OneConnectionPerRequest'
  BY <1>1, <1>2 DEF C!SocketsFound, C!OneConnectionPerRequest
<1>7. C!QueueOfLiveSockets'
  BY <1>1, <1>2 DEF C!QueueOfLiveSockets, C!InTable
<1>8. /\ sk \in Seq(C!SocketRecord) /\ Len(sk) <= MaxSock /\ queued \subseteq C!Ids /\ accepted \subseteq C!Ids
      /\ queued \cap accepted = {} /\ Cardinality(queued) <= Backlog
  BY <1>1, SameCardinality DEF C!TypeOK
<1>9. lst \in {"open", "closed", "removed"} /\ acc \in 0 .. MaxSock /\ owned \subseteq C!Ids /\ crashed \in BOOLEAN
  BY <1>1 DEF C!TypeOK
<1> QED BY <1>2, <1>5, <1>6, <1>7, <1>8, <1>9, ServerFrame

\* What was set up for the request before is dead, and there is a new socket, or none.
LEMMA NewConnectionKeeps ==
  ASSUME ConnectAssumption, C!ConnectionInv, NEW p \in hs, C!NewConnection(p)
  PROVE  C!ConnectionInv'
<1>1. C!TypeOK /\ C!SocketsFound /\ C!OneConnectionPerRequest /\ C!QueueOfLiveSockets
  BY DEF C!ConnectionInv
<1>2. p \in C!Request /\ p.from \in Clients /\ p.isn \in C!Tries
  <2>1. p.to = "server"
    BY DEF C!NewConnection
  <2>2. p \in C!Request
    BY <1>1, <2>1, ConnectTyped
  <2> QED BY <2>2 DEF C!Request
<1>3. PICK old : old = C!Locate(p)
  OBVIOUS
<1>4. PICK kept : kept = [i \in DOMAIN sk |-> IF i \in old THEN [sk[i] EXCEPT !.at = "dead"] ELSE sk[i]]
  OBVIOUS
<1>5. old \subseteq queued \cup accepted /\ queued \cup accepted \cup owned \cup ({acc} \ {0}) \subseteq DOMAIN sk
  BY <1>1, <1>3 DEF C!Locate, C!SocketsFound
<1>6. /\ kept \in Seq(C!SocketRecord) /\ Len(kept) = Len(sk) /\ DOMAIN kept = DOMAIN sk
      /\ \A i \in DOMAIN sk : /\ kept[i].peer = sk[i].peer /\ kept[i].isn = sk[i].isn
                              /\ kept[i].broken = sk[i].broken
                              /\ i \in old => kept[i].at = "dead"
                              /\ i \notin old => kept[i] = sk[i]
  <2>1. sk \in Seq(C!SocketRecord) /\ DOMAIN sk = 1 .. Len(sk) /\ Len(sk) \in Nat
        /\ \A i \in DOMAIN sk : sk[i] \in C!SocketRecord
    BY <1>1, ConnectTyped
  <2>2. \A i \in DOMAIN sk : [sk[i] EXCEPT !.at = "dead"] \in C!SocketRecord
    BY <2>1 DEF C!SocketRecord, C!Places
  <2>3. kept \in [1 .. Len(sk) -> C!SocketRecord]
    BY <1>4, <2>1, <2>2
  <2>4. kept \in Seq(C!SocketRecord) /\ Len(kept) = Len(sk)
    BY <2>1, <2>3
  <2>5. \A i \in DOMAIN sk : LET k == [sk[i] EXCEPT !.at = "dead"] IN
          k.peer = sk[i].peer /\ k.isn = sk[i].isn /\ k.broken = sk[i].broken /\ k.at = "dead"
    BY <2>1 DEF C!SocketRecord
  <2> QED BY <1>4, <2>1, <2>3, <2>4, <2>5
<1>7. /\ cl' = cl /\ lst = "open" /\ UNCHANGED <<lst, acc, owned, crashed>> /\ accepted' = accepted \ old
      /\ \A i \in old : sk[i].broken
  BY <1>3 DEF C!NewConnection
<1>8. /\ queued \subseteq C!Ids /\ accepted \subseteq C!Ids /\ queued \cap accepted = {}
      /\ Cardinality(queued) <= Backlog /\ lst \in {"open", "closed", "removed"}
      /\ acc \in 0 .. MaxSock /\ owned \subseteq C!Ids
  BY <1>1, SameCardinality DEF C!TypeOK
<1>9. crashed' \in BOOLEAN
  BY <1>1, <1>7 DEF C!TypeOK
<1>10. Len(sk) \in 0 .. MaxSock /\ DOMAIN sk = 1 .. Len(sk) /\ DOMAIN sk \subseteq C!Ids
       /\ \A i \in DOMAIN sk : sk[i] \in C!SocketRecord
  BY <1>1, ConnectTyped
<1>11. CASE C!Full(queued \ old)
  <2>1. /\ hs' = (hs \ {p}) \cup {C!Reply(p, "refused", 0)} /\ queued' = queued \ old /\ sk' = kept
    BY <1>3, <1>4, <1>11, Zenon DEF C!NewConnection
  <2>2. C!Reply(p, "refused", 0) \in C!Answer /\ C!Reply(p, "refused", 0).type # "ok"
    BY <1>2 DEF C!Reply, C!Answer, ConnectAssumption
  <2>3. \A q \in hs' : q \in hs \/ (q \in C!Answer /\ q.type # "ok")
    BY <2>1, <2>2
  <2>4. C!SocketsFound'
    BY <1>1, <1>5, <1>6, <1>7, <2>1 DEF C!SocketsFound
  <2>5. C!QueueOfLiveSockets'
    BY <1>1, <1>5, <1>6, <1>7, <2>1 DEF C!QueueOfLiveSockets, C!InTable
  <2>6. queued' \subseteq queued /\ accepted' \subseteq C!Ids /\ queued' \cap accepted' = {}
    BY <1>7, <1>8, <2>1
  <2> QED BY <1>6, <1>7, <1>8, <1>9, <2>1, <2>3, <2>4, <2>5, <2>6, WitherKeeps
<1>12. CASE ~C!Full(queued \ old)
  <2> DEFINE new == Len(sk) + 1
             s == [peer |-> p.from, isn |-> p.isn, at |-> "open", broken |-> FALSE]
  <2>1. /\ new <= MaxSock /\ hs' = (hs \ {p}) \cup {C!Reply(p, "ok", new)}
        /\ queued' = (queued \ old) \cup {new} /\ sk' = Append(kept, s)
    BY <1>3, <1>4, <1>12, Zenon DEF C!NewConnection
  <2>2. new \in 1 .. MaxSock /\ new \notin DOMAIN sk
    BY <1>10, <2>1 DEF ConnectAssumption
  <2>3. s \in C!SocketRecord
    BY <1>2 DEF C!SocketRecord, C!Places
  <2>4. /\ sk' \in Seq(C!SocketRecord) /\ Len(sk') = new /\ DOMAIN sk' = DOMAIN sk \cup {new} /\ sk'[new] = s
        /\ \A i \in DOMAIN sk : sk'[i] = kept[i]
    BY <1>6, <1>10, <2>1, <2>2, <2>3
  <2>5. C!Reply(p, "ok", new) \in C!Answer /\ C!Reply(p, "ok", new).sock = new
        /\ C!Reply(p, "ok", new).to = s.peer /\ C!Reply(p, "ok", new).isn = s.isn
    BY <1>2, <2>2 DEF C!Reply, C!Answer
  <2>6. s.peer = p.from /\ s.isn = p.isn /\ s.at = "open"
    OBVIOUS
  <2> HIDE DEF s, new
  <2>7. \A q \in hs' : \/ q \in hs
                       \/ /\ q \in C!Answer
                          /\ q.type = "ok" => /\ q.sock \in DOMAIN sk' /\ sk'[q.sock].peer = q.to
                                              /\ sk'[q.sock].isn = q.isn
    BY <2>1, <2>4, <2>5
  <2>8. queued' \subseteq C!Ids /\ accepted' \subseteq C!Ids /\ queued' \cap accepted' = {}
    BY <1>5, <1>7, <1>8, <2>1, <2>2 DEF C!Ids
  <2>9. Cardinality(queued') <= Backlog
    <3>1. IsFiniteSet(queued \ old) /\ Cardinality(queued \ old) \in Nat /\ new \notin queued \ old
      BY <1>1, <1>5, <2>2, QueueFinite
    <3>2. Cardinality(queued') = Cardinality(queued \ old) + 1
      BY <2>1, <3>1, FS_AddElement
    <3>3. ~(Cardinality(queued \ old) >= Backlog)
      BY <1>12, SameCardinality DEF C!Full
    <3> QED BY <3>1, <3>2, <3>3 DEF ConnectAssumption
  <2>10. C!SocketsFound'
    <3>1. queued' \cup accepted' \cup owned \cup ({acc} \ {0}) \subseteq DOMAIN sk'
      BY <1>5, <1>7, <2>1, <2>4
    <3>2. queued' \cap (owned \cup {acc}) = {}
      <4>1. new # 0 /\ new \notin owned /\ new # acc
        BY <1>5, <2>2
      <4> QED BY <1>1, <2>1, <4>1 DEF C!SocketsFound
    <3>3. ASSUME NEW i \in DOMAIN sk', sk'[i].at = "open", ~sk'[i].broken
          PROVE  i \in queued' \cup accepted'
      <4>1. CASE i = new
        BY <2>1, <4>1
      <4>2. CASE i \in DOMAIN sk
        BY <1>1, <1>6, <1>7, <2>1, <2>4, <3>3, <4>2 DEF C!SocketsFound
      <4> QED BY <2>4, <4>1, <4>2
    <3> QED BY <1>7, <3>1, <3>2, <3>3 DEF C!SocketsFound
  <2>11. C!QueueOfLiveSockets'
    <3>1. ASSUME NEW i \in queued' \cup accepted' PROVE sk'[i].at \in {"open", "dead"}
      <4>1. CASE i = new
        BY <2>4, <2>6, <4>1
      <4>2. CASE i \in (queued \cup accepted) \ old
        BY <1>1, <1>5, <1>6, <1>7, <2>4, <4>2 DEF C!QueueOfLiveSockets, C!InTable
      <4> QED BY <1>7, <2>1, <4>1, <4>2
    <3> QED BY <3>1 DEF C!QueueOfLiveSockets, C!InTable
  <2>12. C!OneConnectionPerRequest'
    <3>1. ASSUME NEW i \in DOMAIN sk, sk'[i].at = "open", ~sk'[i].broken
          PROVE  sk[i].at = "open" /\ ~sk[i].broken /\ sk'[i] = sk[i] /\ i \notin old
      BY <1>6, <2>4, <3>1
    <3>2. ASSUME NEW i \in DOMAIN sk, sk'[i].at = "open", ~sk'[i].broken,
                 sk'[i].peer = p.from, sk'[i].isn = p.isn
          PROVE  FALSE
      <4>1. i \in queued \cup accepted
        BY <1>1, <1>7, <3>1, <3>2 DEF C!SocketsFound
      <4>2. i \in old
        BY <1>3, <3>1, <3>2, <4>1 DEF C!Locate, C!InTable
      <4> QED BY <3>1, <3>2, <4>2
    <3>3. ASSUME NEW i \in DOMAIN sk', NEW j \in DOMAIN sk',
                 sk'[i].peer = sk'[j].peer, sk'[i].isn = sk'[j].isn, sk'[i].at = "open", sk'[j].at = "open",
                 ~sk'[i].broken, ~sk'[j].broken
          PROVE  i = j
      <4>1. CASE i \in DOMAIN sk /\ j \in DOMAIN sk
        BY <1>1, <3>1, <3>3, <4>1 DEF C!OneConnectionPerRequest
      <4>2. CASE i = new \/ j = new
        BY <2>4, <2>6, <3>2, <3>3, <4>2
      <4> QED BY <2>4, <4>1, <4>2
    <3> QED BY <3>3 DEF C!OneConnectionPerRequest
  <2>13. \A i \in DOMAIN sk : i \in DOMAIN sk' /\ sk'[i].peer = sk[i].peer /\ sk'[i].isn = sk[i].isn
    BY <1>6, <2>4
  <2>14. Len(sk') <= MaxSock
    BY <2>1, <2>4
  <2> QED BY <1>7, <1>8, <1>9, <2>4, <2>7, <2>8, <2>9, <2>10, <2>11, <2>12, <2>13, <2>14, ServerFrame
<1> QED BY <1>11, <1>12

\* accept takes the newest of the queue, and looks at it later.
LEMMA AcceptKeeps ==
  ASSUME ConnectAssumption, C!ConnectionInv, C!AcceptTake \/ C!AcceptReturn \/ C!CloseListener
  PROVE  C!ConnectionInv'
<1>1. C!TypeOK /\ C!SocketsFound /\ C!OneConnectionPerRequest /\ C!QueueOfLiveSockets
  BY DEF C!ConnectionInv
<1>2. cl' = cl /\ hs' = hs /\ sk' = sk
  BY DEF C!AcceptTake, C!AcceptReturn, C!CloseListener
<1>3. /\ queued \subseteq C!Ids /\ accepted \subseteq C!Ids /\ queued \cap accepted = {}
      /\ lst \in {"open", "closed", "removed"} /\ acc \in 0 .. MaxSock /\ owned \subseteq C!Ids
      /\ sk \in Seq(C!SocketRecord)
  BY <1>1 DEF C!TypeOK
<1>4. crashed \in BOOLEAN
  BY <1>1 DEF C!TypeOK
<1>5. queued \cup accepted \cup owned \cup ({acc} \ {0}) \subseteq DOMAIN sk /\ queued \cap (owned \cup {acc}) = {}
  BY <1>1 DEF C!SocketsFound
<1>6. CASE C!AcceptTake
  <2>1. PICK m \in queued : /\ queued' = queued \ {m} /\ accepted' = accepted \cup {m} /\ acc' = m
                            /\ UNCHANGED <<lst, owned, crashed>>
    BY <1>1, <1>6, NewestIsQueued DEF C!AcceptTake
  <2>2. acc' \in 0 .. MaxSock /\ accepted' \subseteq C!Ids /\ queued' \cap accepted' = {} /\ queued' \subseteq queued
    BY <1>3, <2>1 DEF C!Ids, ConnectAssumption
  <2>3. C!SocketsFound'
    BY <1>1, <1>2, <1>5, <2>1 DEF C!SocketsFound
  <2>4. C!QueueOfLiveSockets'
    BY <1>1, <1>2, <2>1 DEF C!QueueOfLiveSockets, C!InTable
  <2>5. crashed' \in BOOLEAN
    BY <1>4, <2>1
  <2> QED BY <1>2, <1>3, <2>1, <2>2, <2>3, <2>4, <2>5, WitherKeeps
<1>7. CASE C!AcceptReturn
  <2>1. /\ acc' = 0 /\ UNCHANGED <<lst, queued, accepted>> /\ owned \subseteq owned' /\ owned' \subseteq owned \cup {acc}
        /\ acc # 0
    BY <1>7 DEF C!AcceptReturn
  <2>2. crashed' \in BOOLEAN
    BY <1>4, <1>7 DEF C!AcceptReturn
  <2>3. acc' \in 0 .. MaxSock /\ owned' \subseteq C!Ids
    BY <1>3, <2>1 DEF C!Ids, ConnectAssumption
  <2>4. C!SocketsFound'
    <3>1. queued \cap (owned' \cup {0}) = {}
      BY <1>3, <1>5, <2>1 DEF C!Ids
    <3> QED BY <1>1, <1>2, <1>5, <2>1, <3>1 DEF C!SocketsFound
  <2>5. C!QueueOfLiveSockets'
    BY <1>1, <1>2, <2>1 DEF C!QueueOfLiveSockets, C!InTable
  <2> QED BY <1>2, <1>3, <2>1, <2>2, <2>3, <2>4, <2>5, WitherKeeps
<1>8. CASE C!CloseListener
  <2>1. lst' = "closed" /\ UNCHANGED <<queued, accepted, acc, owned, crashed>>
    BY <1>8 DEF C!CloseListener
  <2>2. C!SocketsFound' /\ C!QueueOfLiveSockets'
    BY <1>1, <1>2, <1>5, <2>1 DEF C!SocketsFound, C!QueueOfLiveSockets
  <2>3. crashed' \in BOOLEAN
    BY <1>4, <2>1
  <2> QED BY <1>2, <1>3, <2>1, <2>2, <2>3, WitherKeeps
<1> QED BY <1>6, <1>7, <1>8

\* A socket is closed by the program, or breaks.
LEMMA CloseOrBreakKeeps ==
  ASSUME ConnectAssumption, C!ConnectionInv, NEW i \in DOMAIN sk, C!CloseSocket(i) \/ C!Break(i)
  PROVE  C!ConnectionInv'
<1>1. C!TypeOK /\ C!SocketsFound /\ C!OneConnectionPerRequest /\ C!QueueOfLiveSockets
  BY DEF C!ConnectionInv
<1>2. /\ queued \subseteq C!Ids /\ accepted \subseteq C!Ids /\ queued \cap accepted = {}
      /\ lst \in {"open", "closed", "removed"} /\ acc \in 0 .. MaxSock /\ owned \subseteq C!Ids
      /\ sk \in Seq(C!SocketRecord) /\ sk[i] \in C!SocketRecord
  BY <1>1, ConnectTyped DEF C!TypeOK
<1>3. crashed \in BOOLEAN
  BY <1>1 DEF C!TypeOK
<1>4. UNCHANGED <<cl, hs, lst, queued, acc, owned, crashed>>
  BY DEF C!CloseSocket, C!Break
<1>5. queued \cup accepted \cup owned \cup ({acc} \ {0}) \subseteq DOMAIN sk /\ queued \cap (owned \cup {acc}) = {}
  BY <1>1 DEF C!SocketsFound
<1>6. ASSUME NEW r \in C!SocketRecord, sk' = [sk EXCEPT ![i] = r],
             r.peer = sk[i].peer, r.isn = sk[i].isn, r.at = "open" => sk[i].at = "open",
             ~r.broken => ~sk[i].broken, accepted' \subseteq accepted,
             C!SocketsFound', C!QueueOfLiveSockets'
      PROVE  C!ConnectionInv'
  <2>1. sk' \in Seq(C!SocketRecord) /\ Len(sk') = Len(sk) /\ \A j \in DOMAIN sk : sk'[j] = IF j = i THEN r ELSE sk[j]
    BY <1>2, <1>6
  <2>2. accepted' \subseteq C!Ids /\ queued' \cap accepted' = {}
    BY <1>2, <1>4, <1>6
  <2>3. crashed' \in BOOLEAN
    BY <1>3, <1>4
  <2> QED BY <1>2, <1>4, <1>6, <2>1, <2>2, <2>3, WitherKeeps
<1>7. CASE C!CloseSocket(i)
  <2> DEFINE r == [sk[i] EXCEPT !.at = "closed"]
  <2>1. sk' = [sk EXCEPT ![i] = r] /\ i \in owned
        /\ accepted' = IF lst = "open" THEN accepted \ {i} ELSE accepted
    BY <1>7 DEF C!CloseSocket
  <2>2. /\ r \in C!SocketRecord /\ r.at = "closed" /\ r.peer = sk[i].peer /\ r.isn = sk[i].isn
        /\ r.broken = sk[i].broken
    BY <1>2 DEF C!SocketRecord, C!Places
  <2> HIDE DEF r
  <2>3. DOMAIN sk' = DOMAIN sk /\ \A j \in DOMAIN sk : sk'[j] = IF j = i THEN r ELSE sk[j]
    BY <1>2, <2>1
  <2>4. C!SocketsFound'
    BY <1>1, <1>4, <1>5, <2>1, <2>2, <2>3 DEF C!SocketsFound
  <2>5. C!QueueOfLiveSockets'
    BY <1>1, <1>4, <1>5, <2>1, <2>3 DEF C!QueueOfLiveSockets, C!InTable
  <2> QED BY <1>6, <2>1, <2>2, <2>4, <2>5
<1>8. CASE C!Break(i)
  <2> DEFINE r == [sk[i] EXCEPT !.broken = TRUE]
  <2>1. sk' = [sk EXCEPT ![i] = r] /\ accepted' = accepted
    BY <1>8 DEF C!Break
  <2>2. /\ r \in C!SocketRecord /\ r.at = sk[i].at /\ r.peer = sk[i].peer /\ r.isn = sk[i].isn /\ r.broken
    BY <1>2 DEF C!SocketRecord
  <2> HIDE DEF r
  <2>3. DOMAIN sk' = DOMAIN sk /\ \A j \in DOMAIN sk : sk'[j] = IF j = i THEN r ELSE sk[j]
    BY <1>2, <2>1
  <2>4. C!SocketsFound'
    BY <1>1, <1>4, <1>5, <2>1, <2>2, <2>3 DEF C!SocketsFound
  <2>5. C!QueueOfLiveSockets'
    BY <1>1, <1>4, <2>1, <2>2, <2>3 DEF C!QueueOfLiveSockets, C!InTable
  <2> QED BY <1>6, <2>1, <2>2, <2>4, <2>5
<1> QED BY <1>7, <1>8

\* The collector closes what broke and destroys what was closed; a listener that was closed
\* gives up its queue.
LEMMA CollectKeeps ==
  ASSUME ConnectAssumption, C!ConnectionInv, NEW waiting, NEW old \in SUBSET C!Closed,
         NEW listener \in BOOLEAN, C!Collect(waiting, old, listener)
  PROVE  C!ConnectionInv'
<1>1. C!TypeOK /\ C!SocketsFound /\ C!OneConnectionPerRequest /\ C!QueueOfLiveSockets
  BY DEF C!ConnectionInv
<1>2. /\ queued \subseteq C!Ids /\ accepted \subseteq C!Ids /\ queued \cap accepted = {}
      /\ lst \in {"open", "closed", "removed"} /\ acc \in 0 .. MaxSock /\ owned \subseteq C!Ids
      /\ sk \in Seq(C!SocketRecord) /\ Len(sk) \in Nat /\ DOMAIN sk = 1 .. Len(sk)
      /\ \A i \in DOMAIN sk : sk[i] \in C!SocketRecord
  BY <1>1, ConnectTyped DEF C!TypeOK
<1>3. queued \cup accepted \cup owned \cup ({acc} \ {0}) \subseteq DOMAIN sk /\ queued \cap (owned \cup {acc}) = {}
  BY <1>1 DEF C!SocketsFound
<1>4. PICK gone : gone = C!Broken \ waiting
  OBVIOUS
<1>5. PICK lives : lives = {i \in IF listener THEN queued ELSE {} : C!InTable(i) /\ i \notin gone}
  OBVIOUS
<1>6. /\ UNCHANGED <<cl, hs, acc, owned>> /\ (listener => lst = "closed")
      /\ queued' = (IF listener THEN {} ELSE C!Leave(gone, queued))
      /\ accepted' = (IF listener THEN {} ELSE C!Leave(gone, accepted))
      /\ lst' = (IF listener THEN "removed" ELSE lst)
  BY <1>4 DEF C!Collect
<1>7. crashed' \in BOOLEAN
  BY DEF C!Collect
<1>8. sk' = [i \in DOMAIN sk |->
               IF i \in gone \cup lives THEN [sk[i] EXCEPT !.at = "closed"]
               ELSE IF i \in old THEN [sk[i] EXCEPT !.at = "removed"] ELSE sk[i]]
  BY <1>4, <1>5, Zenon DEF C!Collect
<1>9. ASSUME NEW i \in DOMAIN sk, NEW a \in {"closed", "removed"}, NEW k, k = [sk[i] EXCEPT !.at = a]
      PROVE  /\ k \in C!SocketRecord /\ k.peer = sk[i].peer /\ k.isn = sk[i].isn
             /\ k.broken = sk[i].broken /\ k.at = a
  BY <1>2, <1>9 DEF C!SocketRecord, C!Places
<1>10. /\ DOMAIN sk' = DOMAIN sk
       /\ \A i \in DOMAIN sk : /\ sk'[i] \in C!SocketRecord /\ sk'[i].peer = sk[i].peer /\ sk'[i].isn = sk[i].isn
                               /\ sk'[i].broken = sk[i].broken
                               /\ sk'[i] = sk[i] \/ (sk'[i].at # "open" /\ i \in gone \cup lives \cup old)
  <2>1. DOMAIN sk' = DOMAIN sk
    BY <1>8
  <2>2. ASSUME NEW i \in DOMAIN sk
        PROVE  /\ sk'[i] \in C!SocketRecord /\ sk'[i].peer = sk[i].peer /\ sk'[i].isn = sk[i].isn
               /\ sk'[i].broken = sk[i].broken
               /\ sk'[i] = sk[i] \/ (sk'[i].at # "open" /\ i \in gone \cup lives \cup old)
    <3>1. CASE i \notin gone \cup lives \cup old
      BY <1>2, <1>8, <3>1
    <3>2. CASE i \in gone \cup lives \cup old
      <4>1. PICK a \in {"closed", "removed"} : sk'[i] = [sk[i] EXCEPT !.at = a]
        BY <1>8, <3>2
      <4> QED BY <1>9, <3>2, <4>1
    <3> QED BY <3>1, <3>2
  <2> QED BY <2>1, <2>2
<1>11. sk' \in Seq(C!SocketRecord) /\ Len(sk') = Len(sk)
  <2>1. sk' \in [1 .. Len(sk) -> C!SocketRecord]
    BY <1>2, <1>8, <1>10
  <2> QED BY <1>2, <2>1
<1>12. queued' \subseteq queued /\ accepted' \subseteq accepted
  BY <1>6 DEF C!Leave
<1>13. lst' \in {"open", "closed", "removed"} /\ accepted' \subseteq C!Ids /\ queued' \cap accepted' = {}
  BY <1>2, <1>6, <1>12
<1>14. ASSUME lst' = "open"
       PROVE  /\ lst = "open" /\ queued' = queued \ gone /\ accepted' = accepted \ gone /\ lives = {}
              /\ \A i \in gone : sk[i].broken
              /\ \A i \in old : sk[i].at = "closed"
  BY <1>4, <1>5, <1>6, <1>14 DEF C!Leave, C!Broken, C!Closed
<1>15. C!SocketsFound'
  <2>1. queued' \cup accepted' \cup owned \cup ({acc} \ {0}) \subseteq DOMAIN sk' /\ queued' \cap (owned \cup {acc}) = {}
    BY <1>3, <1>10, <1>12
  <2>2. ASSUME lst' = "open", NEW i \in DOMAIN sk', sk'[i].at = "open", ~sk'[i].broken
        PROVE  i \in queued' \cup accepted'
    BY <1>1, <1>10, <1>14, <2>2 DEF C!SocketsFound
  <2> QED BY <1>6, <2>1, <2>2 DEF C!SocketsFound
<1>16. C!QueueOfLiveSockets'
  <2>1. ASSUME lst' = "open", NEW i \in queued' \cup accepted' PROVE sk'[i].at \in {"open", "dead"}
    <3>1. i \in queued \cup accepted /\ i \notin gone \cup lives /\ sk[i].at \in {"open", "dead"} /\ i \in DOMAIN sk
      BY <1>1, <1>3, <1>14, <2>1 DEF C!QueueOfLiveSockets, C!InTable
    <3>2. i \notin old
      BY <1>14, <2>1, <3>1
    <3> QED BY <1>10, <3>1, <3>2
  <2> QED BY <2>1 DEF C!QueueOfLiveSockets, C!InTable
<1>17. \A i \in DOMAIN sk : (sk'[i].at = "open" => sk[i].at = "open") /\ (~sk'[i].broken => ~sk[i].broken)
  BY <1>10
<1> QED BY <1>2, <1>6, <1>7, <1>10, <1>11, <1>12, <1>13, <1>15, <1>16, <1>17, WitherKeeps

LEMMA ConnectGoesOn ==
  ASSUME ConnectAssumption, C!ConnectionInv, [C!Next]_C!vars
  PROVE  C!ConnectionInv'
<1>1. ASSUME NEW c \in Clients,
             C!Connect(c) \/ C!SendRequest(c) \/ C!TakeAnswer(c) \/ C!ConnectTimeout(c) \/ C!ClientEnds(c)
      PROVE  C!ConnectionInv'
  BY <1>1, ClientStepKeeps
<1>2. ASSUME NEW p \in hs,
             C!Arrive(p) \/ C!LoseHandshake(p) \/ C!GiveCookie(p) \/ C!Repeated(p) \/ C!NewConnection(p)
      PROVE  C!ConnectionInv'
  BY <1>2, ArriveKeeps, AnswerKeeps, NewConnectionKeeps
<1>3. ASSUME NEW i \in DOMAIN sk, C!CloseSocket(i) \/ C!Break(i) PROVE C!ConnectionInv'
  BY <1>3, CloseOrBreakKeeps
<1>4. CASE C!CollectSome
  BY <1>4, CollectKeeps DEF C!CollectSome
<1>5. CASE UNCHANGED C!vars
  <2>1. C!TypeOK
    BY DEF C!ConnectionInv
  <2>2. cl' = cl /\ hs' = hs /\ UNCHANGED C!server
    BY <1>5 DEF C!vars, C!server
  <2>3. cl \in [Clients -> C!ClientRecord] /\ hs \subseteq C!Request \cup C!Answer
    BY <2>1, ConnectTyped
  <2> QED BY <2>2, <2>3, ClientFrame
<1> QED BY <1>1, <1>2, <1>3, <1>4, <1>5, AcceptKeeps DEF C!Next

\* However many clients ask, and however often their requests and the answers come: a client that
\* is connected has the socket that was made for this request of its, no request has two live
\* connections, and an open listener keeps only sockets that are there.
THEOREM ConnectionsAgree ==
  ASSUME ConnectAssumption
  PROVE  C!Spec => [](C!ConnectedAgree /\ C!OneConnectionPerRequest /\ C!QueueOfLiveSockets)
<1>1. C!Init => C!ConnectionInv
  BY ConnectStarts
<1>2. C!ConnectionInv /\ [C!Next]_C!vars => C!ConnectionInv'
  BY ConnectGoesOn
<1>3. C!ConnectionInv => C!ConnectedAgree /\ C!OneConnectionPerRequest /\ C!QueueOfLiveSockets
  BY DEF C!ConnectionInv
<1> QED BY <1>1, <1>2, <1>3, PTL DEF C!Spec

\* However UDT sets up connections (connect and listen, or a rendezvous), whatever handshakes
\* are lost, repeated or late: the ends of a connection know of each other.
THEOREM EndsAlwaysAgree ==
  ASSUME ConnectAssumption, MaxRest \in Nat
  PROVE  R!Spec /\ C!Spec => []EndsAgree
<1>1. R!Init => R!RendezvousInv
  BY RendezvousStarts
<1>2. R!RendezvousInv /\ [R!Next]_<<side, wire>> => R!RendezvousInv'
  BY RendezvousGoesOn
<1>3. C!Init => C!ConnectionInv
  BY ConnectStarts
<1>4. C!ConnectionInv /\ [C!Next]_(C!vars) => C!ConnectionInv'
  BY ConnectGoesOn
<1> QED BY <1>1, <1>2, <1>3, <1>4, PTL DEF EndsAgree, R!Spec, R!vars, C!Spec

-----------------------------------------------------------------------------
(* Messages. *)

\* The parameters: a message has a block at least.
AMessage == [len : Nat \ {0}, inorder : BOOLEAN, ttl : BOOLEAN]
MessagesAssumption == Msgs \in Seq(AMessage) /\ Size \in Nat \ {0}

\* Going around the buffer: the place that is b after a, and how far it is from s to i.
Turn(a, b) == (a + b) % Size
Distance(i, s) == (i - s + Size) % Size

LEMMA Around ==
  ASSUME MessagesAssumption, NEW a \in Places, NEW b \in Nat, b <= Size
  PROVE  Turn(a, b) = (IF a + b < Size THEN a + b ELSE a + b - Size) /\ Turn(a, b) \in Places
<1>1. Size \in Nat \ {0} /\ a \in 0 .. Size - 1
  BY DEF MessagesAssumption, Places
<1>2. CASE a + b < Size
  BY <1>1, <1>2 DEF Places, Turn
<1>3. CASE a + b >= Size /\ a + b < 2 * Size
  BY <1>1, <1>3 DEF Places, Turn
<1> QED BY <1>1, <1>2, <1>3

LEMMA Back ==
  ASSUME MessagesAssumption, NEW a \in Places, NEW b \in Places
  PROVE  /\ Distance(a, b) = (IF a >= b THEN a - b ELSE a - b + Size)
         /\ Distance(a, b) \in Places
<1>1. Size \in Nat \ {0} /\ a \in 0 .. Size - 1 /\ b \in 0 .. Size - 1
  BY DEF MessagesAssumption, Places
<1>2. CASE a < b
  BY <1>1, <1>2 DEF Places, Distance
<1>3. CASE a >= b
  BY <1>1, <1>3 DEF Places, Distance
<1> QED BY <1>1, <1>2, <1>3

LEMMA IsPlace ==
  ASSUME MessagesAssumption
  PROVE  Size \in Nat \ {0} /\ Places \subseteq Nat /\ (\A i \in Places : i < Size) /\ (\A i \in Nat : i < Size => i \in Places)
BY DEF MessagesAssumption, Places

\* The fields of a buffer, and its places seen from its beginning.
LEMMA BufferFields ==
  ASSUME MessagesAssumption, NEW r \in Buffers
  PROVE  /\ r.unit \in [Places -> Units] /\ r.start \in Places /\ r.ackpos \in Places
         /\ r.max \in Int /\ r.ack \in Nat /\ r.curr \in Int /\ r.lost \in SUBSET Nat
         /\ DataSize(r) = Distance(r.ackpos, r.start) /\ DataSize(r) \in Places
         /\ \A k \in Places : At(r, k) = r.unit[Turn(r.start, k)] /\ Turn(r.start, k) \in Places /\ At(r, k) \in Units
<1>1. /\ r.unit \in [Places -> Units] /\ r.start \in Places /\ r.ackpos \in Places
      /\ r.max \in Int /\ r.ack \in Nat /\ r.curr \in Int /\ r.lost \in SUBSET Nat
  BY DEF Buffers
<1>2. DataSize(r) = Distance(r.ackpos, r.start)
  BY DEF DataSize, Distance
<1>3. DataSize(r) \in Places
  BY <1>1, <1>2, Back
<1>4. \A k \in Places : Turn(r.start, k) \in Places
  BY <1>1, Around, IsPlace
<1>5. \A k : At(r, k) = r.unit[Turn(r.start, k)]
  BY DEF At, Turn
<1> QED BY <1>1, <1>2, <1>3, <1>4, <1>5

\* Where a place is, seen from the beginning, and from elsewhere.
LEMMA PlaceFrom ==
  ASSUME MessagesAssumption, NEW s \in Places, NEW k \in Places
  PROVE  /\ Distance(Turn(s, k), s) = k /\ Turn(s, Distance(k, s)) = k
         /\ \A n \in Places :
              /\ n + k < Size => Turn(Turn(s, n), k) = Turn(s, n + k)
              /\ n + k >= Size => Turn(Turn(s, n), k) = Turn(s, n + k - Size)
<1>1. Size \in Nat \ {0} /\ s \in Nat /\ k \in Nat /\ s < Size /\ k < Size
  BY IsPlace
<1>2. Distance(Turn(s, k), s) = k
  BY <1>1, Around, Back, IsPlace
<1>3. Turn(s, Distance(k, s)) = k
  BY <1>1, Around, Back, IsPlace
<1>4. ASSUME NEW n \in Places
      PROVE  /\ n + k < Size => Turn(Turn(s, n), k) = Turn(s, n + k)
             /\ n + k >= Size => Turn(Turn(s, n), k) = Turn(s, n + k - Size)
  <2>1. n \in Nat /\ n < Size
    BY IsPlace
  <2>2. Turn(s, n) \in Places /\ Turn(s, n) = IF s + n < Size THEN s + n ELSE s + n - Size
    BY <1>1, <2>1, Around
  <2>3. Turn(Turn(s, n), k) = IF Turn(s, n) + k < Size THEN Turn(s, n) + k ELSE Turn(s, n) + k - Size
    BY <1>1, <2>2, Around
  <2>4. CASE n + k < Size
    <3>1. Turn(s, n + k) = IF s + (n + k) < Size THEN s + (n + k) ELSE s + (n + k) - Size
      BY <1>1, <2>1, <2>4, Around
    <3> QED BY <1>1, <2>1, <2>2, <2>3, <2>4, <3>1
  <2>5. CASE n + k >= Size
    <3>1. n + k - Size \in Nat /\ n + k - Size <= Size
      BY <1>1, <2>1, <2>5
    <3>2. Turn(s, n + k - Size) = IF s + (n + k - Size) < Size THEN s + (n + k - Size) ELSE s + (n + k - Size) - Size
      BY <3>1, Around
    <3> QED BY <1>1, <2>1, <2>2, <2>3, <2>5, <3>2
  <2> QED BY <1>1, <2>1, <2>4, <2>5
<1> QED BY <1>2, <1>3, <1>4

LEMMA BlockIs ==
  ASSUME NEW m, NEW k
  PROVE  /\ Block(m, k).msg = m /\ Block(m, k).inorder = Msgs[m].inorder
         /\ Block(m, k).head <=> k = 1
         /\ Block(m, k).tail <=> k = Msgs[m].len
BY DEF Block

LEMMA BlockFields ==
  ASSUME MessagesAssumption, NEW s \in Senders, NEW i \in DOMAIN s.blocks
  PROVE  /\ s.blocks \in Seq(ABlock) /\ DOMAIN s.blocks = 1 .. Len(s.blocks) /\ Len(s.blocks) \in Nat
         /\ s.blocks[i] \in ABlock /\ s.blocks[i].msg \in DOMAIN Msgs
         /\ Msgs[s.blocks[i].msg].len \in Nat \ {0}
<1>1. s.blocks \in Seq(ABlock)
  BY DEF Senders
<1>2. s.blocks[i] \in ABlock
  BY <1>1
<1>3. s.blocks[i].msg \in DOMAIN Msgs
  BY <1>2 DEF ABlock
<1>4. ASSUME NEW m \in DOMAIN Msgs PROVE Msgs[m].len \in Nat \ {0}
  <2>1. Msgs[m] \in AMessage
    BY DEF MessagesAssumption
  <2> QED BY <2>1 DEF AMessage
<1> QED BY <1>1, <1>2, <1>3, <1>4

\* The block of number n belongs to message m, whose blocks have the numbers from h on.
Spans(s, n, m, h) ==
  /\ n < h + Msgs[m].len /\ h + Msgs[m].len <= Len(s.blocks)
  /\ \A x \in h .. h + Msgs[m].len - 1 : s.blocks[x + 1] = Block(m, x - h + 1)
  /\ \A x \in 0 .. Len(s.blocks) - 1 : MessageOf(s, x) = m <=> x \in h .. h + Msgs[m].len - 1

LEMMA Run ==
  ASSUME MessagesAssumption, NEW s \in Senders, MessagesInARow(s), NEW n \in 0 .. Len(s.blocks) - 1,
         NEW m, m = MessageOf(s, n)
  PROVE  /\ m \in DOMAIN Msgs /\ Msgs[m].len \in Nat \ {0}
         /\ \E h \in 0 .. n : Spans(s, n, m, h)
<1> DEFINE L == Len(s.blocks)
<1>1. L \in Nat /\ DOMAIN s.blocks = 1 .. L
  BY DEF Senders
<1>2. n \in Nat /\ n + 1 \in DOMAIN s.blocks /\ n < L
  BY <1>1
<1>3. m = s.blocks[n + 1].msg /\ m \in DOMAIN Msgs /\ Msgs[m].len \in Nat \ {0}
  BY <1>2, BlockFields DEF MessageOf
<1>4. PICK h \in 0 .. n : /\ n + 1 <= h + Msgs[m].len /\ h + Msgs[m].len <= L
                          /\ \A k \in 1 .. Msgs[m].len : s.blocks[h + k] = Block(m, k)
  <2>1. \E h \in 0 .. (n + 1) - 1 : /\ n + 1 <= h + Msgs[m].len /\ h + Msgs[m].len <= L
                                    /\ \A k \in 1 .. Msgs[m].len : s.blocks[h + k] = Block(m, k)
    BY <1>2, <1>3 DEF MessagesInARow
  <2> QED BY <1>2, <2>1
<1>5. ASSUME NEW x \in h .. h + Msgs[m].len - 1
      PROVE  s.blocks[x + 1] = Block(m, x - h + 1) /\ MessageOf(s, x) = m
  <2>1. x - h + 1 \in 1 .. Msgs[m].len /\ h + (x - h + 1) = x + 1
    <3>1. h \in Nat /\ Msgs[m].len \in Nat
      BY <1>3
    <3> QED BY <3>1
  <2>2. s.blocks[x + 1] = Block(m, x - h + 1)
    BY <1>4, <2>1
  <2> QED BY <2>2 DEF MessageOf, Block
<1>6. ASSUME NEW x \in 0 .. L - 1, MessageOf(s, x) = m
      PROVE  x \in h .. h + Msgs[m].len - 1
  <2>1. x \in Nat /\ x + 1 \in DOMAIN s.blocks /\ m = s.blocks[x + 1].msg
    BY <1>1, <1>6 DEF MessageOf
  <2>2. \E g \in 0 .. (x + 1) - 1 : /\ x + 1 <= g + Msgs[m].len /\ g + Msgs[m].len <= L
                                    /\ \A k \in 1 .. Msgs[m].len : s.blocks[g + k] = Block(m, k)
    BY <2>1 DEF MessagesInARow
  <2>3. PICK g \in 0 .. x : /\ x + 1 <= g + Msgs[m].len /\ g + Msgs[m].len <= L
                            /\ \A k \in 1 .. Msgs[m].len : s.blocks[g + k] = Block(m, k)
    BY <2>1, <2>2
  <2>4. s.blocks[g + 1] = Block(m, 1) /\ s.blocks[h + 1] = Block(m, 1)
    BY <1>3, <1>4, <2>3
  <2>5. g + 1 \in DOMAIN s.blocks /\ h + 1 \in DOMAIN s.blocks
    BY <1>1, <1>2, <1>3, <1>4, <2>1, <2>3
  <2>6. /\ s.blocks[g + 1].head /\ s.blocks[h + 1].head
        /\ s.blocks[g + 1].msg = s.blocks[h + 1].msg
    BY <2>4, BlockIs
  <2>7. g + 1 = h + 1
    BY <2>5, <2>6 DEF MessagesInARow
  <2> QED BY <1>2, <1>3, <1>4, <2>1, <2>3, <2>7
<1>7. Spans(s, n, m, h)
  <2>1. n < h + Msgs[m].len /\ h + Msgs[m].len <= Len(s.blocks)
    BY <1>2, <1>3, <1>4
  <2>2. \A x \in 0 .. Len(s.blocks) - 1 : MessageOf(s, x) = m <=> x \in h .. h + Msgs[m].len - 1
    BY <1>5, <1>6
  <2> QED BY <1>5, <2>1, <2>2 DEF Spans
<1> QED BY <1>3, <1>7

\* The least and the greatest of a set of numbers.
LEMMA LeastIs ==
  ASSUME NEW S \in SUBSET Nat, S # {}
  PROVE  Min(S) \in S /\ \A y \in S : Min(S) <= y
<1>1. PICK k \in S : \A y \in S : ~(y < k)
  BY LeastNumber
<1>2. k \in S /\ \A y \in S : k <= y
  BY <1>1
<1> QED BY <1>2 DEF Min

LEMMA GreatestIs ==
  ASSUME NEW t \in Nat, NEW S \in SUBSET (0 .. t), S # {}
  PROVE  Max(S) \in S /\ \A y \in S : y <= Max(S)
<1> DEFINE D == {n \in Nat : t - n \in S}
<1>1. PICK q \in S : TRUE
  OBVIOUS
<1>2. t - q \in D
  BY <1>1
<1>3. PICK n \in D : \A k \in D : ~(k < n)
  BY <1>2, LeastNumber
<1>4. n \in Nat /\ t - n \in S /\ \A k \in D : n <= k
  BY <1>3
<1>5. ASSUME NEW y \in S PROVE t - n >= y
  <2>1. y \in 0 .. t /\ t - (t - y) = y /\ t - y \in Nat
    OBVIOUS
  <2>2. t - y \in D
    BY <2>1
  <2>3. n <= t - y
    BY <1>4, <2>2
  <2> QED BY <1>4, <2>1, <2>3
<1> QED BY <1>4, <1>5 DEF Max

\* What the places are after the first n were freed.
LEMMA FreedView ==
  ASSUME MessagesAssumption, NEW r \in Buffers, NEW n \in Places, n <= DataSize(r), NEW q, q = Freed(r, n)
  PROVE  /\ q \in Buffers /\ DataSize(q) = DataSize(r) - n
         /\ q.ack = r.ack /\ q.max = r.max /\ q.curr = r.curr /\ q.lost = r.lost
         /\ \A k \in Places : At(q, k) = IF k + n < Size THEN At(r, k + n) ELSE Free
<1>1. /\ r.unit \in [Places -> Units] /\ r.start \in Places /\ r.ackpos \in Places
      /\ r.max \in Int /\ r.ack \in Nat /\ r.curr \in Int /\ r.lost \in SUBSET Nat
      /\ DataSize(r) = Distance(r.ackpos, r.start) /\ DataSize(r) \in Places
      /\ \A k \in Places : At(r, k) = r.unit[Turn(r.start, k)] /\ Turn(r.start, k) \in Places /\ At(r, k) \in Units
  BY BufferFields
<1> DEFINE u == [i \in Places |-> IF Distance(i, r.start) < n THEN Free ELSE r.unit[i]]
<1>2. q = [r EXCEPT !.unit = u, !.start = Turn(r.start, n)]
  BY DEF Freed, Turn, Distance
<1>3. u \in [Places -> Units]
  BY <1>1 DEF Units
<1>4. Turn(r.start, n) \in Places
  BY <1>1
<1>5. /\ q.unit = u /\ q.start = Turn(r.start, n) /\ q.ackpos = r.ackpos
      /\ q.ack = r.ack /\ q.max = r.max /\ q.curr = r.curr /\ q.lost = r.lost
  BY <1>2 DEF Buffers
<1>6. \A i \in Places : q.unit[i] = IF Distance(i, r.start) < n THEN Free ELSE r.unit[i]
  BY <1>5
<1> HIDE DEF u
<1>7. q \in Buffers
  BY <1>1, <1>2, <1>3, <1>4 DEF Buffers
<1>8. n \in Nat /\ n < Size /\ r.start \in Nat /\ r.start < Size /\ r.ackpos \in Nat /\ r.ackpos < Size /\ Size \in Nat
  BY <1>1, IsPlace
<1>9. DataSize(q) = DataSize(r) - n
  <2>1. DataSize(q) = Distance(r.ackpos, Turn(r.start, n))
    BY <1>5, <1>7, BufferFields
  <2>2. Distance(r.ackpos, r.start) = IF r.ackpos >= r.start THEN r.ackpos - r.start ELSE r.ackpos - r.start + Size
    BY <1>1, Back
  <2>3. Turn(r.start, n) = IF r.start + n < Size THEN r.start + n ELSE r.start + n - Size
    BY <1>1, <1>8, Around
  <2>4. Distance(r.ackpos, Turn(r.start, n)) =
          IF r.ackpos >= Turn(r.start, n) THEN r.ackpos - Turn(r.start, n) ELSE r.ackpos - Turn(r.start, n) + Size
    BY <1>1, <1>4, Back
  <2> QED BY <1>1, <1>8, <2>1, <2>2, <2>3, <2>4
<1>10. ASSUME NEW k \in Places PROVE At(q, k) = IF k + n < Size THEN At(r, k + n) ELSE Free
  <2>1. At(q, k) = q.unit[Turn(Turn(r.start, n), k)] /\ k \in Nat /\ k < Size
    BY <1>5, <1>7, BufferFields, IsPlace
  <2>2. CASE k + n < Size
    <3>1. n + k \in Places /\ Turn(Turn(r.start, n), k) = Turn(r.start, n + k)
      BY <1>1, <1>8, <2>1, <2>2, IsPlace, PlaceFrom
    <3>2. Distance(Turn(r.start, n + k), r.start) = n + k /\ Turn(r.start, n + k) \in Places
      BY <1>1, <3>1, PlaceFrom
    <3>3. At(q, k) = r.unit[Turn(r.start, n + k)]
      <4>1. ~(n + k < n)
        BY <1>8, <2>1
      <4>2. q.unit[Turn(r.start, n + k)] = r.unit[Turn(r.start, n + k)]
        BY <1>6, <3>2, <4>1
      <4> QED BY <2>1, <3>1, <4>2
    <3>4. k + n = n + k
      BY <1>8, <2>1
    <3> QED BY <1>1, <2>2, <3>1, <3>3, <3>4
  <2>3. CASE ~(k + n < Size)
    <3>1. n + k - Size \in Places /\ Turn(Turn(r.start, n), k) = Turn(r.start, n + k - Size) /\ n + k - Size < n
      BY <1>1, <1>8, <2>1, <2>3, IsPlace, PlaceFrom
    <3>2. Distance(Turn(r.start, n + k - Size), r.start) = n + k - Size /\ Turn(r.start, n + k - Size) \in Places
      BY <1>1, <3>1, PlaceFrom
    <3> QED BY <1>6, <2>1, <2>3, <3>1, <3>2
  <2> QED BY <2>2, <2>3
<1> QED BY <1>5, <1>7, <1>9, <1>10

\* The facts of a buffer, and what is acknowledged is there.
LEMMA Contents ==
  ASSUME MessagesAssumption, NEW s \in Senders, NEW r \in Buffers, NEW g, BufferTrue(s, r, g)
  PROVE  /\ DataSize(r) \in Nat /\ DataSize(r) < Size /\ Base(r) \in Nat /\ r.ack = Base(r) + DataSize(r)
         /\ r.ack \in Nat /\ r.curr \in Int /\ r.max \in Int /\ Len(s.blocks) \in Nat /\ s.curr \in Int
         /\ r.curr < Len(s.blocks) /\ Size \in Nat
         /\ \A k \in Places : At(r, k) # Free =>
              /\ At(r, k) \in [flag : {1, 2}, blk : ABlock]
              /\ Base(r) + k \in 0 .. Len(s.blocks) - 1
              /\ At(r, k).blk = s.blocks[Base(r) + k + 1]
              /\ At(r, k).flag = 2 <=> MessageOf(s, Base(r) + k) \in ReadOf(g)
         /\ \A k \in Places : Unread(r, k) <=> At(r, k) # Free /\ MessageOf(s, Base(r) + k) \notin ReadOf(g)
         /\ \A k \in Places : k < DataSize(r) => At(r, k) # Free
<1>1. /\ r.max \in Int /\ r.ack \in Nat /\ r.curr \in Int /\ DataSize(r) \in Nat /\ DataSize(r) < Size
      /\ \A k \in Places : At(r, k) \in Units /\ k \in Nat /\ k < Size
      /\ Size \in Nat
  BY BufferFields, IsPlace
<1>2. s.curr \in Int /\ Len(s.blocks) \in Nat
  BY DEF Senders
<1>3. Base(r) \in Nat /\ r.ack = Base(r) + DataSize(r)
  BY <1>1 DEF BufferTrue, Base
<1>4. r.curr < Len(s.blocks)
  BY <1>1, <1>2 DEF BufferTrue
<1>5. ASSUME NEW k \in Places, At(r, k) # Free
      PROVE  /\ At(r, k) \in [flag : {1, 2}, blk : ABlock]
             /\ Base(r) + k \in 0 .. Len(s.blocks) - 1
             /\ At(r, k).blk = s.blocks[Base(r) + k + 1]
             /\ At(r, k).flag = 2 <=> MessageOf(s, Base(r) + k) \in ReadOf(g)
  <2>1. At(r, k) \in [flag : {1, 2}, blk : ABlock]
    BY <1>1, <1>5 DEF Units
  <2>2. Base(r) + k <= r.curr
    BY <1>5 DEF BufferTrue
  <2>3. Base(r) + k \in 0 .. Len(s.blocks) - 1
    BY <1>1, <1>2, <1>3, <1>4, <2>2
  <2>4. /\ At(r, k).blk = s.blocks[Base(r) + k + 1]
        /\ At(r, k).flag = 2 <=> MessageOf(s, Base(r) + k) \in ReadOf(g)
    BY <1>5 DEF BufferTrue
  <2> QED BY <2>1, <2>3, <2>4
<1>6. ASSUME NEW k \in Places
      PROVE  Unread(r, k) <=> At(r, k) # Free /\ MessageOf(s, Base(r) + k) \notin ReadOf(g)
  <2>1. Free.flag = 0
    BY DEF Free
  <2> QED BY <1>5, <2>1 DEF Unread
<1>7. ASSUME NEW k \in Places, k < DataSize(r) PROVE At(r, k) # Free
  <2>1. r.ack <= r.curr + 1 /\ r.lost \subseteq r.ack .. r.curr
    BY DEF BufferTrue
  <2>2. Base(r) + k < r.ack /\ Base(r) + k <= r.curr
    BY <1>1, <1>3, <1>7, <2>1
  <2>3. Base(r) + k \notin r.lost
    BY <1>1, <1>3, <2>1, <2>2
  <2> QED BY <2>2, <2>3 DEF BufferTrue
<1> QED BY <1>1, <1>2, <1>3, <1>4, <1>5, <1>6, <1>7

\* What was read can be freed.
LEMMA FreeingKeeps ==
  ASSUME MessagesAssumption, NEW s \in Senders, NEW r \in Buffers, NEW g, BufferTrue(s, r, g),
         NEW n \in Places, n <= DataSize(r), \A k \in Places : k < n => At(r, k).flag = 2,
         NEW q, q = Freed(r, n)
  PROVE  q \in Buffers /\ BufferTrue(s, q, g) /\ Base(q) = Base(r) + n /\ DataSize(q) = DataSize(r) - n
<1>1. /\ q \in Buffers /\ DataSize(q) = DataSize(r) - n
      /\ q.ack = r.ack /\ q.max = r.max /\ q.curr = r.curr /\ q.lost = r.lost
      /\ \A k \in Places : At(q, k) = IF k + n < Size THEN At(r, k + n) ELSE Free
  BY FreedView
<1>2. /\ DataSize(r) \in Nat /\ DataSize(r) < Size /\ Base(r) \in Nat /\ r.ack = Base(r) + DataSize(r)
      /\ r.ack \in Nat /\ r.curr \in Int /\ r.max \in Int /\ Len(s.blocks) \in Nat /\ s.curr \in Int
      /\ r.curr < Len(s.blocks) /\ Size \in Nat
      /\ \A k \in Places : At(r, k) # Free => (At(r, k).flag = 2 <=> MessageOf(s, Base(r) + k) \in ReadOf(g))
      /\ \A k \in Places : k < DataSize(r) => At(r, k) # Free
  BY Contents
<1>3. /\ Places \subseteq Nat /\ (\A i \in Places : i < Size) /\ (\A i \in Nat : i < Size => i \in Places)
      /\ n \in Nat
  BY IsPlace
<1>4. Base(q) = Base(r) + n
  BY <1>1, <1>2, <1>3 DEF Base
<1>5. /\ Base(q) \in Nat /\ q.ack <= q.curr + 1
      /\ q.curr <= s.curr /\ s.curr < Len(s.blocks) /\ q.curr + 1 < Base(q) + Size
      /\ q.max >= -1 /\ DataSize(q) + q.max < Size
      /\ q.lost \subseteq q.ack .. q.curr
  <2>1. /\ r.ack <= r.curr + 1 /\ r.curr <= s.curr /\ s.curr < Len(s.blocks) /\ r.curr + 1 < Base(r) + Size
        /\ r.max >= -1 /\ DataSize(r) + r.max < Size
    BY DEF BufferTrue
  <2>2. r.lost \subseteq r.ack .. r.curr
    BY DEF BufferTrue
  <2>3. q.lost \subseteq q.ack .. q.curr
    BY <1>1, <2>2
  <2>4. Base(q) \in Nat /\ q.curr + 1 < Base(q) + Size /\ DataSize(q) + q.max < Size
    <3>1. DataSize(q) = DataSize(r) - n /\ q.max = r.max /\ q.curr = r.curr
      BY <1>1
    <3>2. DataSize(r) \in Nat /\ Base(r) \in Nat /\ r.curr \in Int /\ r.max \in Int /\ Size \in Nat /\ n \in Nat
      BY <1>2, <1>3
    <3>3. r.curr + 1 < Base(r) + Size /\ DataSize(r) + r.max < Size
      BY <2>1
    <3>4. Base(q) \in Nat /\ r.curr + 1 < Base(q) + Size
      BY <1>4, <3>2, <3>3
    <3>5. (DataSize(r) - n) + r.max < Size
      BY <3>2, <3>3
    <3> QED BY <3>1, <3>4, <3>5
  <2> QED BY <1>1, <2>1, <2>3, <2>4
<1>6. ASSUME NEW k \in Places, k + n < Size
      PROVE  k + n \in Places /\ Base(q) + k = Base(r) + (k + n) /\ At(q, k) = At(r, k + n)
  BY <1>1, <1>2, <1>3, <1>4, <1>6
<1>7. ASSUME NEW k \in Places, ~(k + n < Size)
      PROVE  At(q, k) = Free /\ q.curr < Base(q) + k
  BY <1>1, <1>2, <1>3, <1>4, <1>7 DEF BufferTrue
<1>8. ASSUME NEW k \in Places, At(q, k) # Free
      PROVE  /\ Base(q) + k <= q.curr /\ At(q, k).blk = s.blocks[Base(q) + k + 1]
             /\ At(q, k).flag = 2 <=> MessageOf(s, Base(q) + k) \in ReadOf(g)
  <2>1. k + n < Size
    BY <1>7, <1>8
  <2> QED BY <1>1, <1>6, <1>8, <2>1 DEF BufferTrue
<1>9. ASSUME NEW k \in Places, Base(q) + k <= q.curr
      PROVE  At(q, k) = Free <=> Base(q) + k \in q.lost
  <2>1. k + n < Size
    <3>1. Base(q) \in Nat /\ k \in Nat /\ q.curr \in Int
      BY <1>1, <1>2, <1>3, <1>4
    <3> QED BY <1>7, <1>9, <3>1
  <2> QED BY <1>1, <1>6, <1>9, <2>1 DEF BufferTrue
<1>10. ASSUME NEW x \in 0 .. Base(q) - 1 PROVE MessageOf(s, x) \in ReadOf(g)
  <2>1. CASE x < Base(r)
    BY <1>2, <2>1 DEF BufferTrue
  <2>2. CASE x >= Base(r)
    <3>1. PICK k \in Nat : k = x - Base(r) /\ k < n /\ x = Base(r) + k
      BY <1>2, <1>3, <1>4, <2>2
    <3>2. k \in Places /\ k < DataSize(r)
      BY <1>2, <1>3, <3>1
    <3> QED BY <1>2, <3>1, <3>2
  <2> QED BY <1>2, <2>1, <2>2
<1>11. ASSUME NEW x \in 0 .. Len(s.blocks) - 1, MessageOf(s, x) \in ReadOf(g), ~(x < Base(q))
       PROVE  x - Base(q) \in Places /\ At(q, x - Base(q)) # Free
  <2>4. x \in Nat /\ Base(q) \in Nat /\ Base(r) \in Nat /\ n \in Nat
    BY <1>2, <1>3, <1>4
  <2>5. ~(x < Base(r))
    BY <1>4, <1>11, <2>4
  <2>1. x - Base(r) \in Places /\ At(r, x - Base(r)) # Free
    BY <1>11, <2>5 DEF BufferTrue
  <2>2. PICK k \in Nat : k = x - Base(q) /\ k + n = x - Base(r)
    <3>1. x - Base(q) \in Nat /\ (x - Base(q)) + n = x - Base(r)
      BY <1>4, <1>11, <2>4
    <3> QED BY <3>1
  <2>3. k \in Places /\ k + n < Size
    BY <1>2, <1>3, <2>1, <2>2
  <2> QED BY <1>6, <2>1, <2>2, <2>3
<1>12. \A m \in ReadOf(g) : \E i \in DOMAIN s.blocks : s.blocks[i].msg = m
  BY DEF BufferTrue
<1> QED BY <1>1, <1>4, <1>5, <1>8, <1>9, <1>10, <1>11, <1>12 DEF BufferTrue

\* The first unread block of what is acknowledged is the first of a message, of which all is
\* there as far as it is acknowledged.
LEMMA FirstUnread ==
  ASSUME MessagesAssumption, NEW s \in Senders, MessagesInARow(s), NEW r \in Buffers, NEW g, BufferTrue(s, r, g),
         NEW k \in Places, k < DataSize(r), Unread(r, k), \A j \in Places : j < k => ~Unread(r, j),
         NEW m, m = MessageOf(s, Base(r) + k)
  PROVE  /\ WholeFrom(r, k) /\ m \notin ReadOf(g) /\ m \in DOMAIN Msgs /\ Msgs[m].len \in Nat \ {0}
         /\ Base(r) + k + Msgs[m].len <= Len(s.blocks)
         /\ \A x \in Base(r) + k .. Base(r) + k + Msgs[m].len - 1 :
              s.blocks[x + 1] = Block(m, x - (Base(r) + k) + 1)
         /\ \A x \in 0 .. Len(s.blocks) - 1 :
              MessageOf(s, x) = m <=> x \in Base(r) + k .. Base(r) + k + Msgs[m].len - 1
<1>1. /\ DataSize(r) \in Nat /\ DataSize(r) < Size /\ Base(r) \in Nat /\ Len(s.blocks) \in Nat /\ Size \in Nat
      /\ \A j \in Places : At(r, j) # Free => /\ Base(r) + j \in 0 .. Len(s.blocks) - 1
                                              /\ At(r, j).blk = s.blocks[Base(r) + j + 1]
      /\ \A j \in Places : Unread(r, j) <=> At(r, j) # Free /\ MessageOf(s, Base(r) + j) \notin ReadOf(g)
      /\ \A j \in Places : j < DataSize(r) => At(r, j) # Free
  BY Contents
<1>2. Places \subseteq Nat /\ (\A i \in Nat : i < Size => i \in Places) /\ k \in Nat
  BY IsPlace
<1> DEFINE n == Base(r) + k
<1>3. n \in 0 .. Len(s.blocks) - 1 /\ m \notin ReadOf(g) /\ m = MessageOf(s, n)
  BY <1>1
<1>4. m \in DOMAIN Msgs /\ Msgs[m].len \in Nat \ {0}
  BY <1>3, Run
<1>5a. PICK h \in 0 .. n : Spans(s, n, m, h)
  BY <1>3, Run
<1>5. /\ n < h + Msgs[m].len /\ h + Msgs[m].len <= Len(s.blocks)
      /\ \A x \in h .. h + Msgs[m].len - 1 : s.blocks[x + 1] = Block(m, x - h + 1)
      /\ \A x \in 0 .. Len(s.blocks) - 1 : MessageOf(s, x) = m <=> x \in h .. h + Msgs[m].len - 1
  BY <1>5a DEF Spans
<1>6. h = n
  <2>1. SUFFICES ASSUME h < n PROVE FALSE
    BY <1>3, <1>5
  <2>2. n - 1 \in 0 .. Len(s.blocks) - 1 /\ MessageOf(s, n - 1) = m
    <3>1. n \in Nat /\ h \in Nat
      BY <1>1, <1>2
    <3>2. n - 1 \in 0 .. Len(s.blocks) - 1 /\ n - 1 \in h .. h + Msgs[m].len - 1
      <4>1. Len(s.blocks) \in Nat /\ Msgs[m].len \in Nat /\ n \in 0 .. Len(s.blocks) - 1 /\ n < h + Msgs[m].len
        BY <1>1, <1>3, <1>4, <1>5
      <4> QED BY <2>1, <3>1, <4>1
    <3> QED BY <1>5, <3>2
  <2>3. CASE k = 0
    <3>1. n - 1 \in 0 .. Base(r) - 1
      BY <1>1, <1>2, <2>2, <2>3
    <3> QED BY <1>3, <2>2, <3>1 DEF BufferTrue
  <2>4. CASE k # 0
    <3>1. k - 1 \in Places /\ k - 1 < k /\ k - 1 < DataSize(r) /\ Base(r) + (k - 1) = n - 1
      BY <1>1, <1>2, <2>4
    <3> QED BY <1>1, <1>3, <2>2, <3>1
  <2> QED BY <2>3, <2>4
<1>7. /\ n + Msgs[m].len <= Len(s.blocks)
      /\ \A x \in n .. n + Msgs[m].len - 1 : s.blocks[x + 1] = Block(m, x - n + 1)
      /\ \A x \in 0 .. Len(s.blocks) - 1 : MessageOf(s, x) = m <=> x \in n .. n + Msgs[m].len - 1
  BY <1>5, <1>6
<1>8. ASSUME NEW j \in Nat, k <= j, j < DataSize(r), j < k + Msgs[m].len
      PROVE  Unread(r, j) /\ At(r, j).blk = Block(m, j - k + 1)
  <2>1. j \in Places /\ At(r, j) # Free /\ Base(r) + j \in 0 .. Len(s.blocks) - 1
    BY <1>1, <1>2, <1>8
  <2>2. Base(r) + j \in n .. n + Msgs[m].len - 1 /\ Base(r) + j - n + 1 = j - k + 1
    <3>1. Base(r) \in Nat /\ k \in Nat /\ Msgs[m].len \in Nat
      BY <1>1, <1>2, <1>4
    <3> QED BY <1>8, <3>1
  <2>3. MessageOf(s, Base(r) + j) = m /\ s.blocks[Base(r) + j + 1] = Block(m, j - k + 1)
    <3>1. PICK x : x = Base(r) + j
      OBVIOUS
    <3>2. MessageOf(s, x) = m /\ s.blocks[x + 1] = Block(m, x - n + 1)
      BY <1>7, <2>1, <2>2, <3>1
    <3>3. x - n + 1 = j - k + 1
      BY <1>1, <1>2, <3>1
    <3> QED BY <3>1, <3>2, <3>3
  <2> QED BY <1>1, <1>3, <2>1, <2>3
<1>9. At(r, k).blk = Block(m, 1)
  BY <1>2, <1>4, <1>8
<1>10. At(r, k).blk.head
  BY <1>9, BlockIs
<1>11. ASSUME NEW j \in k .. DataSize(r) - 1, ~Unread(r, j)
       PROVE  \E t \in k .. j - 1 : (\A i \in k .. t : Unread(r, i)) /\ At(r, t).blk.tail
  <2>1. j \in Nat /\ k <= j /\ j < DataSize(r)
    BY <1>1, <1>2
  <2>9. j >= k + Msgs[m].len
    BY <1>2, <1>4, <1>8, <1>11, <2>1
  <2> DEFINE t == k + Msgs[m].len - 1
  <2>2. t \in k .. j - 1 /\ t \in Nat /\ t < DataSize(r) /\ t - k + 1 = Msgs[m].len
    <3>1. k \in Nat /\ j \in Nat /\ DataSize(r) \in Nat /\ k <= j /\ j < DataSize(r)
      BY <1>1, <1>2, <2>1
    <3> QED BY <1>4, <2>9, <3>1
  <2>3. ASSUME NEW i \in k .. t PROVE Unread(r, i)
    <3>1. i \in Nat /\ k <= i /\ i < DataSize(r) /\ i < k + Msgs[m].len
      <4>1. k \in Nat /\ DataSize(r) \in Nat
        BY <1>1, <1>2
      <4> QED BY <1>4, <2>2, <4>1
    <3> QED BY <1>8, <3>1
  <2>4. At(r, t).blk = Block(m, Msgs[m].len)
    <3>1. k <= t /\ t < k + Msgs[m].len
      BY <1>2, <1>4
    <3> QED BY <1>8, <2>2, <3>1
  <2>5. At(r, t).blk.tail
    BY <2>4, BlockIs
  <2> QED BY <2>2, <2>3, <2>5
<1>12. WholeFrom(r, k)
  BY <1>10, <1>11 DEF WholeFrom
<1> QED BY <1>3, <1>4, <1>7, <1>12

\* What recvmsg skips was read, and then the buffer begins with an unread block, or nothing
\* of it is acknowledged.
LEMMA SkippingKeeps ==
  ASSUME MessagesAssumption, NEW s \in Senders, MessagesInARow(s), NEW r \in Buffers, NEW g, BufferTrue(s, r, g),
         NEW q, q = Freed(r, Skipped(r))
  PROVE  q \in Buffers /\ BufferTrue(s, q, g) /\ (DataSize(q) = 0 \/ Unread(q, 0))
<1>1. /\ DataSize(r) \in Nat /\ DataSize(r) < Size /\ Size \in Nat
      /\ \A j \in Places : At(r, j) # Free => At(r, j) \in [flag : {1, 2}, blk : ABlock]
      /\ \A j \in Places : j < DataSize(r) => At(r, j) # Free
  BY Contents
<1>2. Places \subseteq Nat /\ (\A i \in Nat : i < Size => i \in Places) /\ \A i \in Places : i < Size
  BY IsPlace
<1> DEFINE S == {k \in 0 .. DataSize(r) : k = DataSize(r) \/ WholeFrom(r, k)}
           n == Skipped(r)
<1>3. n = Min(S)
  BY DEF Skipped
<1>4. S \in SUBSET Nat /\ S # {}
  BY <1>1
<1>5. n \in S /\ \A y \in S : n <= y
  BY <1>3, <1>4, LeastIs
<1>6. n \in Nat /\ n <= DataSize(r) /\ (n = DataSize(r) \/ WholeFrom(r, n)) /\ n \in Places
  BY <1>1, <1>2, <1>5
<1> HIDE DEF n
<1>7. ASSUME NEW k \in Places, k < n PROVE At(r, k).flag = 2
  <2>1. SUFFICES ASSUME Unread(r, k) PROVE FALSE
    <3>1. k < DataSize(r) /\ At(r, k) \in [flag : {1, 2}, blk : ABlock]
      BY <1>1, <1>2, <1>6, <1>7
    <3> QED BY <2>1, <3>1 DEF Unread
  <2> DEFINE U == {j \in Places : j < n /\ Unread(r, j)}
  <2>2. U \in SUBSET Nat /\ k \in U
    BY <1>2, <1>7, <2>1
  <2>3. PICK j \in U : \A i \in U : ~(i < j)
    BY <2>2, LeastNumber
  <2>4. j \in Places /\ j < n /\ Unread(r, j) /\ j < DataSize(r) /\ j \in Nat
    BY <1>1, <1>2, <1>6, <2>3
  <2>5. \A i \in Places : i < j => ~Unread(r, i)
    BY <1>2, <1>6, <2>3, <2>4
  <2>6. WholeFrom(r, j)
    BY <2>4, <2>5, FirstUnread
  <2>7. j \in S
    BY <1>1, <2>4, <2>6
  <2> QED BY <1>5, <1>6, <2>4, <2>7
<1>8. q \in Buffers /\ BufferTrue(s, q, g) /\ DataSize(q) = DataSize(r) - n
  BY <1>6, <1>7, FreeingKeeps DEF n
<1>9. ASSUME DataSize(q) # 0 PROVE Unread(q, 0)
  <2>1. n # DataSize(r) /\ WholeFrom(r, n) /\ 0 + n = n /\ n < Size
    BY <1>1, <1>2, <1>6, <1>8, <1>9
  <2>2. At(q, 0) = At(r, n)
    <3>1. 0 \in Places
      BY <1>1, <1>2
    <3>2. At(q, 0) = IF 0 + n < Size THEN At(r, 0 + n) ELSE Free
      BY <1>6, <3>1, FreedView DEF n
    <3> QED BY <2>1, <3>2
  <2>3. Unread(r, n)
    BY <2>1 DEF WholeFrom
  <2> QED BY <2>2, <2>3 DEF Unread
<1> QED BY <1>8, <1>9

\* What is read is one message, none of it read before.
LEMMA ReadsAMessage ==
  ASSUME MessagesAssumption, NEW s \in Senders, MessagesInARow(s), NEW r \in Buffers, NEW g, BufferTrue(s, r, g),
         NEW t \in Tails(r), NEW h, h = Max(Heads(r, t)), NEW m, m = MessageOf(s, Base(r) + h)
  PROVE  /\ t \in Nat /\ t \in Places /\ h \in 0 .. t
         /\ m \in DOMAIN Msgs /\ Msgs[m].len \in Nat \ {0} /\ t = h + Msgs[m].len - 1
         /\ m \notin ReadOf(g) /\ At(r, t).blk = Block(m, Msgs[m].len)
         /\ Base(r) + t < Len(s.blocks)
         /\ \A k \in h .. t : k \in Places /\ Unread(r, k) /\ At(r, k).blk = Block(m, k - h + 1)
         /\ \A x \in 0 .. Len(s.blocks) - 1 : MessageOf(s, x) = m <=> x \in Base(r) + h .. Base(r) + t
<1>1. /\ DataSize(r) \in Nat /\ DataSize(r) < Size /\ Base(r) \in Nat /\ Len(s.blocks) \in Nat /\ Size \in Nat
      /\ r.max \in Int
  BY Contents
<1>2. /\ \A j \in Places : At(r, j) # Free => /\ Base(r) + j \in 0 .. Len(s.blocks) - 1
                                              /\ At(r, j).blk = s.blocks[Base(r) + j + 1]
      /\ \A j \in Places : Unread(r, j) <=> At(r, j) # Free /\ MessageOf(s, Base(r) + j) \notin ReadOf(g)
  BY Contents
<1>3. Places \subseteq Nat /\ (\A i \in Nat : i < Size => i \in Places)
  BY IsPlace
<1>4. DataSize(r) + r.max < Size
  BY DEF BufferTrue
<1>5. t \in Nat /\ t < Size /\ t \in Places /\ Unread(r, t) /\ At(r, t).blk.tail /\ Heads(r, t) # {}
  BY <1>1, <1>3, <1>4 DEF Tails
<1>6. Heads(r, t) \subseteq 0 .. t
  BY DEF Heads
<1>7. h \in Heads(r, t) /\ \A y \in Heads(r, t) : y <= h
  BY <1>5, <1>6, GreatestIs
<1>8. h \in 0 .. t /\ At(r, h).blk.head /\ \A k \in h .. t : Unread(r, k)
  BY <1>7 DEF Heads
<1>9. \A k \in h .. t : k \in Places /\ k \in Nat
  BY <1>1, <1>3, <1>5, <1>8
<1>10. h \in Places /\ t \in h .. t /\ h \in h .. t /\ h \in Nat
  BY <1>5, <1>8, <1>9
<1> DEFINE b == Base(r) + h
           e == Base(r) + t
<1>11. b \in 0 .. Len(s.blocks) - 1 /\ At(r, h).blk = s.blocks[b + 1] /\ m \notin ReadOf(g) /\ m = MessageOf(s, b)
  BY <1>2, <1>8, <1>10
<1>12. e \in 0 .. Len(s.blocks) - 1 /\ At(r, t).blk = s.blocks[e + 1]
  BY <1>2, <1>5
<1>13. m \in DOMAIN Msgs /\ Msgs[m].len \in Nat \ {0}
  BY <1>11, Run
<1>14a. PICK z \in 0 .. b : Spans(s, b, m, z)
  BY <1>11, Run
<1>14. /\ b < z + Msgs[m].len /\ z + Msgs[m].len <= Len(s.blocks)
       /\ \A x \in z .. z + Msgs[m].len - 1 : s.blocks[x + 1] = Block(m, x - z + 1)
       /\ \A x \in 0 .. Len(s.blocks) - 1 : MessageOf(s, x) = m <=> x \in z .. z + Msgs[m].len - 1
  BY <1>14a DEF Spans
<1>15. b \in Nat /\ e \in Nat /\ z \in Nat /\ b <= e
  BY <1>1, <1>5, <1>8, <1>10
<1>16. z = b
  <2>1. b \in z .. z + Msgs[m].len - 1
    BY <1>13, <1>14, <1>15
  <2>2. s.blocks[b + 1] = Block(m, b - z + 1)
    BY <1>14, <2>1
  <2>3. b - z + 1 = 1
    BY <1>8, <1>11, <2>2, BlockIs
  <2> QED BY <1>15, <2>3
<1>17. PICK p : p = MessageOf(s, e)
  OBVIOUS
<1>18. p \in DOMAIN Msgs /\ Msgs[p].len \in Nat \ {0}
  BY <1>12, <1>17, Run
<1>19a. PICK y \in 0 .. e : Spans(s, e, p, y)
  BY <1>12, <1>17, Run
<1>19. /\ e < y + Msgs[p].len /\ y + Msgs[p].len <= Len(s.blocks)
       /\ \A x \in y .. y + Msgs[p].len - 1 : s.blocks[x + 1] = Block(p, x - y + 1)
       /\ \A x \in 0 .. Len(s.blocks) - 1 : MessageOf(s, x) = p <=> x \in y .. y + Msgs[p].len - 1
  BY <1>19a DEF Spans
<1>20. y \in Nat /\ e - y + 1 = Msgs[p].len
  <2>1. y \in Nat /\ e \in y .. y + Msgs[p].len - 1
    BY <1>15, <1>18, <1>19
  <2>2. s.blocks[e + 1] = Block(p, e - y + 1)
    BY <1>19, <2>1
  <2> QED BY <1>5, <1>12, <2>1, <2>2, BlockIs
<1>21. y = b
  <2>1. CASE y < b
    <3>1. b \in y .. y + Msgs[p].len - 1
      BY <1>15, <1>18, <1>20, <2>1
    <3>2. MessageOf(s, b) = p
      BY <1>11, <1>19, <3>1
    <3>3. p = m
      BY <1>11, <3>2
    <3>4. y \in 0 .. Len(s.blocks) - 1 /\ y \in y .. y + Msgs[p].len - 1
      <4>1. y \in Nat /\ b \in 0 .. Len(s.blocks) - 1 /\ Msgs[p].len \in Nat \ {0} /\ Len(s.blocks) \in Nat
        BY <1>1, <1>11, <1>18, <1>20
      <4> QED BY <2>1, <4>1
    <3>5. MessageOf(s, y) = m
      BY <1>19, <3>3, <3>4
    <3>6. y \in z .. z + Msgs[m].len - 1
      BY <1>14, <3>4, <3>5
    <3> QED BY <1>15, <1>16, <1>20, <2>1, <3>6
  <2>2. CASE y >= b
    <3>1. PICK k \in Nat : k = y - Base(r) /\ h <= k /\ k <= t /\ y = Base(r) + k
      <4>1. y - Base(r) \in Nat /\ h <= y - Base(r) /\ y - Base(r) <= t
        <5>1. y \in Nat /\ Base(r) \in Nat /\ h \in Nat /\ t \in Nat /\ y <= e
          BY <1>1, <1>5, <1>10, <1>15, <1>19a, <1>20
        <5> QED BY <2>2, <5>1
      <4> QED BY <1>1, <1>20, <4>1
    <3>2. k \in h .. t /\ k \in 0 .. t
      BY <1>5, <1>10, <3>1
    <3>3. At(r, k).blk = s.blocks[y + 1] /\ Unread(r, k)
      BY <1>2, <1>8, <1>9, <3>1, <3>2
    <3>4. y \in y .. y + Msgs[p].len - 1 /\ y - y + 1 = 1
      BY <1>18, <1>20
    <3>5. s.blocks[y + 1] = Block(p, 1)
      BY <1>19, <3>4
    <3>6. At(r, k).blk.head /\ At(r, k).flag = 1
      BY <3>3, <3>5, BlockIs DEF Unread
    <3>7. \A i \in k .. t : Unread(r, i)
      BY <1>5, <1>8, <1>10, <3>1
    <3>8. k \in Heads(r, t)
      BY <3>2, <3>6, <3>7 DEF Heads
    <3> QED BY <1>1, <1>7, <1>10, <3>1, <3>8
  <2> QED BY <1>15, <1>20, <2>1, <2>2
<1>22. p = m
  <2>1. b \in y .. y + Msgs[p].len - 1
    BY <1>15, <1>18, <1>21
  <2> QED BY <1>11, <1>19, <2>1
<1>23. t = h + Msgs[m].len - 1 /\ e = b + Msgs[m].len - 1
  <2>1. e - b + 1 = Msgs[m].len
    BY <1>20, <1>21, <1>22
  <2>2. Msgs[m].len \in Nat /\ Base(r) \in Nat /\ h \in Nat /\ t \in Nat
    BY <1>1, <1>5, <1>10, <1>13
  <2> QED BY <2>1, <2>2
<1>24. At(r, t).blk = Block(m, Msgs[m].len)
  <2>1. e \in z .. z + Msgs[m].len - 1 /\ e - z + 1 = Msgs[m].len
    BY <1>13, <1>15, <1>16, <1>23
  <2> QED BY <1>12, <1>14, <2>1
<1>25. ASSUME NEW k \in h .. t PROVE At(r, k).blk = Block(m, k - h + 1)
  <2>1. PICK x \in Nat : x = Base(r) + k
    BY <1>1, <1>9
  <2>2. x \in z .. z + Msgs[m].len - 1 /\ x - z + 1 = k - h + 1
    <3>1. Msgs[m].len \in Nat /\ Base(r) \in Nat /\ h \in Nat /\ t \in Nat /\ k \in Nat /\ h <= k /\ k <= t
      BY <1>1, <1>5, <1>9, <1>10, <1>13
    <3> QED BY <1>16, <1>23, <2>1, <3>1
  <2>3. At(r, k).blk = s.blocks[x + 1]
    BY <1>2, <1>8, <1>9, <2>1
  <2> QED BY <1>14, <2>2, <2>3
<1>26. \A x \in 0 .. Len(s.blocks) - 1 : MessageOf(s, x) = m <=> x \in b .. e
  <2>1. z .. z + Msgs[m].len - 1 = b .. e
    BY <1>16, <1>23
  <2> QED BY <1>14, <2>1
<1>27. e < Len(s.blocks)
  BY <1>1, <1>12
<1> QED BY <1>5, <1>8, <1>9, <1>11, <1>13, <1>23, <1>24, <1>25, <1>26, <1>27

LEMMA BlocksTyped ==
  ASSUME MessagesAssumption, NEW m \in DOMAIN Msgs
  PROVE  /\ BlocksOf(m) \in Seq(ABlock) /\ Len(BlocksOf(m)) = Msgs[m].len /\ Msgs[m].len \in Nat \ {0}
         /\ \A k \in 1 .. Msgs[m].len : BlocksOf(m)[k] = Block(m, k)
         /\ \A n \in DOMAIN Msgs : BlocksOf(n) = BlocksOf(m) => n = m
<1>1. ASSUME NEW n \in DOMAIN Msgs PROVE Msgs[n].len \in Nat \ {0} /\ Msgs[n].inorder \in BOOLEAN
  <2>1. Msgs[n] \in AMessage
    BY DEF MessagesAssumption
  <2> QED BY <2>1 DEF AMessage
<1>2. ASSUME NEW k PROVE Block(m, k) \in ABlock
  <2>1. m \in DOMAIN Msgs /\ Msgs[m].inorder \in BOOLEAN
    BY <1>1
  <2> QED BY <2>1 DEF Block, ABlock
<1>3. Msgs[m].len \in Nat \ {0}
  BY <1>1
<1>4. BlocksOf(m) = [k \in 1 .. Msgs[m].len |-> Block(m, k)]
  BY DEF BlocksOf
<1>5. BlocksOf(m) \in Seq(ABlock) /\ Len(BlocksOf(m)) = Msgs[m].len
  BY <1>2, <1>3, <1>4
<1>6. ASSUME NEW n \in DOMAIN Msgs, BlocksOf(n) = BlocksOf(m) PROVE n = m
  <2>1. BlocksOf(n)[1] = Block(n, 1) /\ BlocksOf(m)[1] = Block(m, 1)
    BY <1>1 DEF BlocksOf
  <2> QED BY <1>6, <2>1, BlockIs
<1> QED BY <1>3, <1>4, <1>5, <1>6

LEMMA ReadOne ==
  ASSUME MessagesAssumption, NEW g \in Seq(Seq(ABlock)), NEW m \in DOMAIN Msgs
  PROVE  ReadOf(Append(g, BlocksOf(m))) = ReadOf(g) \cup {m}
<1>1. PICK b \in Seq(ABlock) : b = BlocksOf(m)
  BY BlocksTyped
<1>2. PICK q : q = Append(g, b)
  OBVIOUS
<1>3. /\ DOMAIN g = 1 .. Len(g) /\ Len(g) \in Nat /\ DOMAIN q = 1 .. Len(g) + 1
      /\ q[Len(g) + 1] = b /\ \A i \in 1 .. Len(g) : q[i] = g[i]
  BY <1>2
<1>4. ASSUME NEW n \in ReadOf(q) PROVE n \in ReadOf(g) \cup {m}
  <2>1. PICK i \in DOMAIN q : n \in DOMAIN Msgs /\ q[i] = BlocksOf(n)
    BY <1>4 DEF ReadOf
  <2>2. CASE i \in 1 .. Len(g)
    BY <1>3, <2>1, <2>2 DEF ReadOf
  <2>3. CASE i = Len(g) + 1
    BY <1>1, <1>3, <2>1, <2>3, BlocksTyped
  <2> QED BY <1>3, <2>2, <2>3
<1>5. ASSUME NEW n \in ReadOf(g) PROVE n \in ReadOf(q)
  <2>1. PICK i \in DOMAIN g : n \in DOMAIN Msgs /\ g[i] = BlocksOf(n)
    BY <1>5 DEF ReadOf
  <2>2. i \in DOMAIN q /\ q[i] = BlocksOf(n)
    BY <1>3, <2>1
  <2> QED BY <2>1, <2>2 DEF ReadOf
<1>6. m \in ReadOf(q)
  <2>1. Len(g) + 1 \in DOMAIN q /\ q[Len(g) + 1] = BlocksOf(m)
    BY <1>1, <1>3
  <2> QED BY <2>1 DEF ReadOf
<1>7. ReadOf(q) = ReadOf(g) \cup {m}
  BY <1>4, <1>5, <1>6
<1> QED BY <1>1, <1>2, <1>7

\* Reading one more whole message.
LEMMA OnceMore ==
  ASSUME MessagesAssumption, WholeMessagesOnce, got \in Seq(Seq(ABlock)), NEW m \in DOMAIN Msgs,
         m \notin ReadOf(got), got' = Append(got, BlocksOf(m)),
         Msgs[m].inorder => \A n \in 1 .. m - 1 : n \in ReadOf(got)
  PROVE  WholeMessagesOnce' /\ got' \in Seq(Seq(ABlock))
<1>1. PICK b \in Seq(ABlock) : b = BlocksOf(m)
  BY BlocksTyped
<1>2. PICK l \in Nat : l = Len(got)
  OBVIOUS
<1>3. /\ DOMAIN got = 1 .. l /\ DOMAIN got' = 1 .. l + 1
      /\ got'[l + 1] = b /\ \A i \in 1 .. l : got'[i] = got[i]
      /\ got' \in Seq(Seq(ABlock))
  BY <1>1, <1>2
<1>4. b[1].inorder = Msgs[m].inorder /\ b[1].msg = m
  <2>1. b[1] = Block(m, 1)
    BY <1>1, BlocksTyped
  <2> QED BY <2>1, BlockIs
<1>5. \A i \in 1 .. l : got[i] # b
  BY <1>1, <1>3 DEF ReadOf
<1>6. \A i \in DOMAIN got' : \E n \in DOMAIN Msgs : got'[i] = BlocksOf(n)
  BY <1>1, <1>2, <1>3 DEF WholeMessagesOnce
<1>7. \A i, j \in DOMAIN got' : i # j => got'[i] # got'[j]
  BY <1>2, <1>3, <1>5 DEF WholeMessagesOnce
<1>8. ASSUME NEW i \in DOMAIN got', got'[i][1].inorder, NEW n \in 1 .. got'[i][1].msg
      PROVE  \E j \in 1 .. i : got'[j] = BlocksOf(n)
  <2>1. CASE i \in 1 .. l
    <3>1. got[i][1].inorder /\ n \in 1 .. got[i][1].msg
      BY <1>3, <1>8, <2>1
    <3>2. PICK j \in 1 .. i : got[j] = BlocksOf(n)
      BY <1>3, <2>1, <3>1 DEF WholeMessagesOnce
    <3>3. j \in 1 .. l
      BY <1>2, <2>1
    <3> QED BY <1>3, <3>2, <3>3
  <2>2. CASE i = l + 1
    <3>1. n \in 1 .. m /\ Msgs[m].inorder
      BY <1>3, <1>4, <1>8, <2>2
    <3>2. CASE n = m
      BY <1>1, <1>2, <1>3, <2>2, <3>2
    <3>3. CASE n # m
      <4>1. m \in Nat
        BY DEF MessagesAssumption
      <4>2. n \in 1 .. m - 1
        BY <3>1, <3>3, <4>1
      <4>3. n \in ReadOf(got)
        BY <3>1, <4>2
      <4>4. PICK j \in DOMAIN got : got[j] = BlocksOf(n)
        BY <4>3 DEF ReadOf
      <4>5. j \in 1 .. l /\ j \in 1 .. i
        BY <1>2, <1>3, <2>2, <4>4
      <4> QED BY <1>3, <4>4, <4>5
    <3> QED BY <3>2, <3>3
  <2> QED BY <1>2, <1>3, <2>1, <2>2
<1> QED BY <1>3, <1>6, <1>7, <1>8 DEF WholeMessagesOnce

\* The blocks of a message, from place h to place t, marked as read.
Marking(r, h, t) ==
  [r EXCEPT !.unit = [i \in Places |-> IF Distance(i, r.start) \in h .. t THEN [r.unit[i] EXCEPT !.flag = 2] ELSE r.unit[i]]]

LEMMA MarkingView ==
  ASSUME MessagesAssumption, NEW r \in Buffers, NEW t \in Places, NEW h \in 0 .. t,
         \A k \in h .. t : At(r, k) \in [flag : {1, 2}, blk : ABlock]
  PROVE  LET q == Marking(r, h, t) IN
         /\ q \in Buffers /\ DataSize(q) = DataSize(r) /\ Base(q) = Base(r)
         /\ q.ack = r.ack /\ q.max = r.max /\ q.curr = r.curr /\ q.lost = r.lost
         /\ \A k \in Places : k \notin h .. t => At(q, k) = At(r, k)
         /\ \A k \in h .. t : k \in Places /\ At(q, k).flag = 2 /\ At(q, k).blk = At(r, k).blk
<1>1. /\ r.unit \in [Places -> Units] /\ r.start \in Places /\ r.ackpos \in Places
      /\ r.max \in Int /\ r.ack \in Nat /\ r.curr \in Int /\ r.lost \in SUBSET Nat
      /\ DataSize(r) = Distance(r.ackpos, r.start)
      /\ \A k \in Places : At(r, k) = r.unit[Turn(r.start, k)] /\ Turn(r.start, k) \in Places
  BY BufferFields
<1>2. \A k \in Places : Distance(Turn(r.start, k), r.start) = k /\ Turn(r.start, Distance(k, r.start)) = k
  BY <1>1, PlaceFrom
<1>3. \A k \in h .. t : k \in Places
  BY IsPlace
<1> DEFINE u == [i \in Places |-> IF Distance(i, r.start) \in h .. t THEN [r.unit[i] EXCEPT !.flag = 2] ELSE r.unit[i]]
<1> DEFINE q == Marking(r, h, t)
<1>4. q = [r EXCEPT !.unit = u]
  BY DEF Marking
<1> HIDE DEF q
<1>5. ASSUME NEW v \in [flag : {1, 2}, blk : ABlock]
      PROVE  [v EXCEPT !.flag = 2] \in Units /\ [v EXCEPT !.flag = 2].flag = 2 /\ [v EXCEPT !.flag = 2].blk = v.blk
  BY DEF Units
<1>6. ASSUME NEW i \in Places, Distance(i, r.start) \in h .. t
      PROVE  r.unit[i] \in [flag : {1, 2}, blk : ABlock]
  <2>1. r.unit[i] = At(r, Distance(i, r.start))
    BY <1>1, <1>2, <1>3, <1>6
  <2> QED BY <1>6, <2>1
<1>7. u \in [Places -> Units]
  <2>1. ASSUME NEW i \in Places PROVE u[i] \in Units
    BY <1>1, <1>5, <1>6
  <2> QED BY <2>1
<1>8. /\ q.unit = u /\ q.start = r.start /\ q.ackpos = r.ackpos
      /\ q.ack = r.ack /\ q.max = r.max /\ q.curr = r.curr /\ q.lost = r.lost
  BY <1>4 DEF Buffers
<1>9. \A i \in Places : u[i] = IF Distance(i, r.start) \in h .. t THEN [r.unit[i] EXCEPT !.flag = 2] ELSE r.unit[i]
  OBVIOUS
<1> HIDE DEF u
<1>10. q \in Buffers
  BY <1>1, <1>4, <1>7 DEF Buffers
<1>11. DataSize(q) = DataSize(r) /\ Base(q) = Base(r)
  <2>1. DataSize(q) = Distance(q.ackpos, q.start)
    BY <1>10, BufferFields
  <2> QED BY <1>1, <1>8, <2>1 DEF Base
<1>12. \A k \in Places : At(q, k) = u[Turn(r.start, k)]
  BY <1>8, <1>10, BufferFields
<1>13. \A k \in Places : k \notin h .. t => At(q, k) = At(r, k)
  BY <1>1, <1>2, <1>9, <1>12
<1>14. ASSUME NEW k \in h .. t PROVE k \in Places /\ At(q, k).flag = 2 /\ At(q, k).blk = At(r, k).blk
  <2>1. k \in Places /\ Turn(r.start, k) \in Places /\ Distance(Turn(r.start, k), r.start) = k
    BY <1>1, <1>2, <1>3
  <2>2. At(q, k) = [r.unit[Turn(r.start, k)] EXCEPT !.flag = 2]
    BY <1>9, <1>12, <2>1
  <2>3. r.unit[Turn(r.start, k)] \in [flag : {1, 2}, blk : ABlock] /\ At(r, k) = r.unit[Turn(r.start, k)]
    BY <1>1, <1>6, <2>1
  <2> QED BY <1>5, <2>1, <2>2, <2>3
<1> QED BY <1>8, <1>10, <1>11, <1>13, <1>14 DEF q

LEMMA MarkingKeeps ==
  ASSUME MessagesAssumption, NEW s \in Senders, MessagesInARow(s), NEW r \in Buffers,
         NEW g \in Seq(Seq(ABlock)), BufferTrue(s, r, g),
         NEW t \in Tails(r), NEW h, h = Max(Heads(r, t)), NEW m, m = MessageOf(s, Base(r) + h)
  PROVE  Marking(r, h, t) \in Buffers /\ BufferTrue(s, Marking(r, h, t), Append(g, BlocksOf(m)))
<1> DEFINE q == Marking(r, h, t)
           f == Append(g, BlocksOf(m))
<1>1. /\ t \in Nat /\ t \in Places /\ h \in 0 .. t /\ m \in DOMAIN Msgs
      /\ \A k \in h .. t : k \in Places /\ Unread(r, k)
      /\ \A x \in 0 .. Len(s.blocks) - 1 : MessageOf(s, x) = m <=> x \in Base(r) + h .. Base(r) + t
  BY ReadsAMessage
<1>2. /\ Base(r) \in Nat /\ Len(s.blocks) \in Nat
      /\ \A k \in Places : At(r, k) # Free => /\ At(r, k) \in [flag : {1, 2}, blk : ABlock]
                                              /\ Base(r) + k \in 0 .. Len(s.blocks) - 1
  BY Contents
<1>3. \A k \in Places : Unread(r, k) => At(r, k) # Free
  BY Contents
<1>4. /\ q \in Buffers /\ DataSize(q) = DataSize(r) /\ Base(q) = Base(r)
      /\ q.ack = r.ack /\ q.max = r.max /\ q.curr = r.curr /\ q.lost = r.lost
      /\ \A k \in Places : k \notin h .. t => At(q, k) = At(r, k)
      /\ \A k \in h .. t : k \in Places /\ At(q, k).flag = 2 /\ At(q, k).blk = At(r, k).blk
  <2>1. \A k \in h .. t : At(r, k) \in [flag : {1, 2}, blk : ABlock]
    BY <1>1, <1>2, <1>3
  <2> QED BY <1>1, <2>1, MarkingView DEF q
<1>5. ReadOf(f) = ReadOf(g) \cup {m}
  BY <1>1, ReadOne DEF f
<1> HIDE DEF q, f
<1>6. \A k \in Places : At(q, k) = Free <=> At(r, k) = Free
  <2>1. Free.flag = 0
    BY DEF Free
  <2> QED BY <1>1, <1>3, <1>4, <2>1
<1>7. ASSUME NEW k \in Places, At(q, k) # Free
      PROVE  /\ Base(r) + k <= r.curr /\ At(q, k).blk = s.blocks[Base(r) + k + 1]
             /\ At(q, k).flag = 2 <=> MessageOf(s, Base(r) + k) \in ReadOf(f)
  <2>1. At(r, k) # Free /\ Base(r) + k \in 0 .. Len(s.blocks) - 1 /\ k \in Nat
    BY <1>2, <1>6, <1>7, IsPlace
  <2>2. /\ Base(r) + k <= r.curr /\ At(r, k).blk = s.blocks[Base(r) + k + 1]
        /\ At(r, k).flag = 2 <=> MessageOf(s, Base(r) + k) \in ReadOf(g)
    BY <2>1 DEF BufferTrue
  <2>3. MessageOf(s, Base(r) + k) = m <=> Base(r) + k \in Base(r) + h .. Base(r) + t
    BY <1>1, <2>1
  <2>4. MessageOf(s, Base(r) + k) = m <=> k \in h .. t
    BY <1>1, <1>2, <2>1, <2>3
  <2> QED BY <1>4, <1>5, <2>2, <2>4
<1>8. \A k \in Places : Base(r) + k <= r.curr => (At(q, k) = Free <=> Base(r) + k \in r.lost)
  BY <1>6 DEF BufferTrue
<1>9. \A x \in 0 .. Base(r) - 1 : MessageOf(s, x) \in ReadOf(f)
  BY <1>5 DEF BufferTrue
<1>10. ASSUME NEW x \in 0 .. Len(s.blocks) - 1, MessageOf(s, x) \in ReadOf(f), ~(x < Base(r))
       PROVE  x - Base(r) \in Places /\ At(q, x - Base(r)) # Free
  <2>1. CASE MessageOf(s, x) \in ReadOf(g)
    BY <1>6, <1>10, <2>1 DEF BufferTrue
  <2>2. CASE MessageOf(s, x) = m
    <3>1. x \in Base(r) + h .. Base(r) + t
      BY <1>1, <2>2
    <3>2. x - Base(r) \in h .. t
      BY <1>1, <1>2, <3>1
    <3> QED BY <1>1, <1>3, <1>6, <3>2
  <2> QED BY <1>5, <1>10, <2>1, <2>2
<1>11. \A n \in ReadOf(f) : \E i \in DOMAIN s.blocks : s.blocks[i].msg = n
  <2>1. Base(r) + h \in 0 .. Len(s.blocks) - 1
    BY <1>1, <1>2, <1>3
  <2>2. Base(r) + h + 1 \in DOMAIN s.blocks /\ s.blocks[Base(r) + h + 1].msg = m
    BY <1>2, <2>1 DEF MessageOf, Senders
  <2> QED BY <1>5, <2>2 DEF BufferTrue
<1>12. /\ Base(r) \in Nat /\ r.ack <= r.curr + 1
       /\ r.curr <= s.curr /\ s.curr < Len(s.blocks) /\ r.curr + 1 < Base(r) + Size
       /\ r.max >= -1 /\ DataSize(r) + r.max < Size /\ r.lost \subseteq r.ack .. r.curr
  BY DEF BufferTrue
<1>13. BufferTrue(s, q, f)
  BY <1>4, <1>7, <1>8, <1>9, <1>10, <1>11, <1>12 DEF BufferTrue
<1> QED BY <1>4, <1>13 DEF q, f

\* What is freed as it is read could have been marked before.
LEMMA MarkedIsFreed ==
  ASSUME MessagesAssumption, NEW r \in Buffers, NEW t \in Nat
  PROVE  Freed(Marking(r, 0, t), t + 1) = Freed(r, t + 1)
<1>1. r.unit \in [Places -> Units] /\ r.start \in Places
  BY BufferFields
<1>2. \A i \in Places : Distance(i, r.start) \in Nat
  BY <1>1, Back, IsPlace
<1> DEFINE u == [i \in Places |-> IF Distance(i, r.start) \in 0 .. t THEN [r.unit[i] EXCEPT !.flag = 2] ELSE r.unit[i]]
           v == [i \in Places |-> IF Distance(i, r.start) < t + 1 THEN Free ELSE u[i]]
           w == [i \in Places |-> IF Distance(i, r.start) < t + 1 THEN Free ELSE r.unit[i]]
<1>3. v = w
  <2>1. ASSUME NEW i \in Places, ~(Distance(i, r.start) < t + 1) PROVE u[i] = r.unit[i]
    BY <1>2, <2>1
  <2> HIDE DEF u
  <2> QED BY <2>1
<1>4. PICK q : q = [r EXCEPT !.unit = u]
  OBVIOUS
<1>5. q = Marking(r, 0, t) /\ q.unit = u /\ q.start = r.start
  BY <1>4 DEF Marking, Buffers
<1> HIDE DEF u
<1>6. Freed(q, t + 1) = [q EXCEPT !.unit = v, !.start = Turn(r.start, t + 1)]
  BY <1>5 DEF Freed, Distance, Turn
<1>7. Freed(r, t + 1) = [r EXCEPT !.unit = w, !.start = Turn(r.start, t + 1)]
  BY DEF Freed, Distance, Turn
<1> HIDE DEF v, w
<1>8. [q EXCEPT !.unit = v, !.start = Turn(r.start, t + 1)] = [r EXCEPT !.unit = v, !.start = Turn(r.start, t + 1)]
  BY <1>4 DEF Buffers
<1> QED BY <1>3, <1>5, <1>6, <1>7, <1>8

\* A message that ends in what is acknowledged is the first one.
LEMMA FirstIsRead ==
  ASSUME MessagesAssumption, NEW s \in Senders, MessagesInARow(s), NEW r \in Buffers,
         NEW g, BufferTrue(s, r, g), DataSize(r) = 0 \/ Unread(r, 0),
         NEW t \in Tails(r), t = Min(Tails(r)), t < DataSize(r), NEW h, h = Max(Heads(r, t))
  PROVE  h = 0
<1> DEFINE m == MessageOf(s, Base(r) + h)
<1>1. /\ t \in Nat /\ t \in Places /\ h \in 0 .. t /\ Base(r) + t < Len(s.blocks)
      /\ \A x \in 0 .. Len(s.blocks) - 1 : MessageOf(s, x) = m <=> x \in Base(r) + h .. Base(r) + t
  BY ReadsAMessage
<1> HIDE DEF m
<1>2. /\ DataSize(r) \in Nat /\ DataSize(r) < Size /\ Base(r) \in Nat /\ Len(s.blocks) \in Nat /\ Size \in Nat
      /\ r.max \in Int
      /\ \A j \in Places : At(r, j) # Free => /\ Base(r) + j \in 0 .. Len(s.blocks) - 1
                                              /\ At(r, j).blk = s.blocks[Base(r) + j + 1]
      /\ \A j \in Places : Unread(r, j) <=> At(r, j) # Free /\ MessageOf(s, Base(r) + j) \notin ReadOf(g)
      /\ \A j \in Places : j < DataSize(r) => At(r, j) # Free
  BY Contents
<1>3. Places \subseteq Nat /\ (\A i \in Nat : i < Size => i \in Places) /\ 0 \in Places
  BY <1>2, IsPlace
<1>4. PICK n : n = MessageOf(s, Base(r) + 0)
  OBVIOUS
<1>5. Unread(r, 0) /\ 0 < DataSize(r) /\ \A j \in Places : j < 0 => ~Unread(r, j)
  BY <1>1, <1>2, <1>3
<1>6. /\ n \notin ReadOf(g) /\ n \in DOMAIN Msgs /\ Msgs[n].len \in Nat \ {0} /\ WholeFrom(r, 0)
      /\ Base(r) + 0 + Msgs[n].len <= Len(s.blocks)
      /\ \A x \in Base(r) + 0 .. Base(r) + 0 + Msgs[n].len - 1 :
           s.blocks[x + 1] = Block(n, x - (Base(r) + 0) + 1)
      /\ \A x \in 0 .. Len(s.blocks) - 1 :
           MessageOf(s, x) = n <=> x \in Base(r) + 0 .. Base(r) + 0 + Msgs[n].len - 1
  BY <1>3, <1>4, <1>5, FirstUnread
<1>7. PICK l \in Nat : l = Msgs[n].len - 1
  BY <1>6
<1>8. /\ \A x \in Base(r) .. Base(r) + l : s.blocks[x + 1] = Block(n, x - Base(r) + 1)
      /\ \A x \in 0 .. Len(s.blocks) - 1 : MessageOf(s, x) = n <=> x \in Base(r) .. Base(r) + l
      /\ Base(r) + l < Len(s.blocks)
  <2>1. Base(r) + 0 = Base(r) /\ Base(r) + 0 + Msgs[n].len - 1 = Base(r) + l
    BY <1>2, <1>6, <1>7
  <2>2. \A x \in Base(r) + 0 .. Base(r) + 0 + Msgs[n].len - 1 : s.blocks[x + 1] = Block(n, x - (Base(r) + 0) + 1)
    BY <1>6
  <2>3. \A x \in 0 .. Len(s.blocks) - 1 :
          MessageOf(s, x) = n <=> x \in Base(r) + 0 .. Base(r) + 0 + Msgs[n].len - 1
    BY <1>6
  <2>4. Base(r) + l < Len(s.blocks)
    BY <1>2, <1>6, <1>7
  <2> QED BY <2>1, <2>2, <2>3, <2>4
<1>9. t <= l
  <2>1. SUFFICES ASSUME l < t PROVE FALSE
    BY <1>1, <1>7
  <2>2. ASSUME NEW k \in 0 .. l PROVE k \in Places /\ Unread(r, k) /\ At(r, k).blk = Block(n, k + 1)
    <3>1. k \in Nat /\ k < DataSize(r) /\ k \in Places
      BY <1>1, <1>2, <1>3, <2>1
    <3>2. PICK x \in Nat : x = Base(r) + k
      BY <1>2, <3>1
    <3>3. x \in Base(r) .. Base(r) + l /\ x - Base(r) + 1 = k + 1 /\ x \in 0 .. Len(s.blocks) - 1
      BY <1>2, <1>8, <3>1, <3>2
    <3>4. MessageOf(s, x) = n /\ s.blocks[x + 1] = Block(n, k + 1)
      BY <1>8, <3>3
    <3> QED BY <1>2, <1>6, <3>1, <3>2, <3>4
  <2>3. l + 1 = Msgs[n].len /\ l \in 0 .. l /\ 0 \in 0 .. l
    BY <1>6, <1>7
  <2>4. At(r, l).blk.tail /\ At(r, 0).blk.head
    <3>1. At(r, l).blk = Block(n, Msgs[n].len) /\ At(r, 0).blk = Block(n, 0 + 1)
      BY <2>2, <2>3
    <3> QED BY <3>1, BlockIs
  <2>5. 0 \in Heads(r, l)
    <3>1. At(r, 0).flag = 1
      BY <1>5 DEF Unread
    <3> QED BY <2>2, <2>3, <2>4, <3>1 DEF Heads
  <2>6. l \in 0 .. DataSize(r) + r.max /\ l < DataSize(r)
    <3>1. r.max >= -1
      BY DEF BufferTrue
    <3>2. r.max \in Int /\ DataSize(r) \in Nat /\ l \in Nat /\ l < DataSize(r)
      BY <1>1, <1>2, <2>1
    <3> QED BY <3>1, <3>2
  <2>7. l \in Tails(r)
    BY <2>2, <2>3, <2>4, <2>5, <2>6 DEF Tails, InTurn
  <2>8. Tails(r) \in SUBSET Nat
    BY <1>2 DEF Tails
  <2>9. t <= l
    BY <2>7, <2>8, LeastIs
  <2> QED BY <1>1, <1>7, <2>1, <2>9
<1>10. n = m
  <2>1. Base(r) + t \in Base(r) .. Base(r) + l /\ Base(r) + t \in Base(r) + h .. Base(r) + t
        /\ Base(r) + t \in 0 .. Len(s.blocks) - 1
    <3>1. Base(r) \in Nat /\ t \in Nat /\ l \in Nat /\ h \in Nat /\ h <= t /\ t <= l /\ Len(s.blocks) \in Nat
          /\ Base(r) + t < Len(s.blocks)
      BY <1>1, <1>2, <1>7, <1>9
    <3> QED BY <3>1
  <2> QED BY <1>1, <1>8, <2>1
<1>11. Base(r) \in Base(r) + h .. Base(r) + t
  <2>1. Base(r) \in Base(r) .. Base(r) + l /\ Base(r) \in 0 .. Len(s.blocks) - 1
    <3>1. Base(r) \in Nat /\ l \in Nat /\ t \in Nat /\ Len(s.blocks) \in Nat /\ Base(r) + t < Len(s.blocks)
      BY <1>1, <1>2, <1>7
    <3> QED BY <3>1
  <2> QED BY <1>1, <1>8, <1>10, <2>1
<1> QED BY <1>1, <1>2, <1>11

\* A step of the receiver's buffer alone.
LEMMA ReceiverFrame ==
  ASSUME MessagesInv, snd' = snd, net' \subseteq net, rcv' \in Buffers, got' \in Seq(Seq(ABlock)),
         BufferTrue(snd, rcv', got'), WholeMessagesOnce'
  PROVE  MessagesInv'
<1>1. Typed' /\ PacketsTrue'
  BY DEF MessagesInv, Typed, PacketsTrue
<1>2. MessagesInARow(snd)' /\ BufferTrue(snd, rcv, got)'
  BY DEF MessagesInv
<1> QED BY <1>1, <1>2 DEF MessagesInv

LEMMA SameReads ==
  ASSUME WholeMessagesOnce, got' = got
  PROVE  WholeMessagesOnce'
BY DEF WholeMessagesOnce

\* The messages before the one at the beginning of the buffer were read.
LEMMA EarlierWereRead ==
  ASSUME MessagesAssumption, NEW s \in Senders, MessagesInARow(s), NEW r \in Buffers, NEW g, BufferTrue(s, r, g),
         NEW m, m = MessageOf(s, Base(r)), Base(r) < Len(s.blocks), NEW n \in 1 .. m - 1
  PROVE  n \in ReadOf(g)
<1>1. Base(r) \in Nat /\ Len(s.blocks) \in Nat
  BY Contents
<1>2. DOMAIN s.blocks = 1 .. Len(s.blocks) /\ s.blocks \in Seq(ABlock)
  BY DEF Senders
<1>3. Base(r) + 1 \in DOMAIN s.blocks /\ s.blocks[Base(r) + 1].msg = m
  BY <1>1, <1>2 DEF MessageOf
<1>4. m \in DOMAIN Msgs
  BY <1>3, BlockFields
<1>5. m \in Nat /\ n \in 1 .. m /\ n \in Nat /\ n < m
  BY <1>4 DEF MessagesAssumption
<1>6. PICK j \in DOMAIN s.blocks : s.blocks[j].msg = n
  BY <1>3, <1>5 DEF MessagesInARow
<1>7. j \in Nat /\ j - 1 \in Nat /\ (j - 1) + 1 = j /\ MessageOf(s, j - 1) = n
  BY <1>1, <1>2, <1>6 DEF MessageOf
<1>8. ~(Base(r) + 1 < j) /\ j # Base(r) + 1
  BY <1>3, <1>5, <1>6 DEF MessagesInARow
<1>9. j - 1 \in 0 .. Base(r) - 1
  BY <1>1, <1>7, <1>8
<1> QED BY <1>7, <1>9 DEF BufferTrue

LEMMA ReadingKeeps ==
  ASSUME MessagesAssumption, MessagesInv, recvmsg
  PROVE  MessagesInv'
<1>1. snd \in Senders /\ rcv \in Buffers /\ got \in Seq(Seq(ABlock)) /\ MessagesInARow(snd)
      /\ BufferTrue(snd, rcv, got) /\ WholeMessagesOnce
  BY DEF MessagesInv, Typed
<1>2. PICK r : r = Freed(rcv, Skipped(rcv))
  OBVIOUS
<1>3. ReadFirst(r) /\ snd' = snd /\ net' \subseteq net
  BY <1>2 DEF recvmsg
<1>4. r \in Buffers /\ BufferTrue(snd, r, got) /\ (DataSize(r) = 0 \/ Unread(r, 0))
  BY <1>1, <1>2, SkippingKeeps
<1>5. CASE Tails(r) = {}
  <2>1. rcv' = r /\ got' = got
    BY <1>3, <1>5 DEF ReadFirst
  <2>2. WholeMessagesOnce'
    BY <1>1, <2>1, SameReads
  <2> QED BY <1>1, <1>3, <1>4, <2>1, <2>2, ReceiverFrame
<1>6. CASE Tails(r) # {}
  <2>1. PICK t : t = Min(Tails(r))
    OBVIOUS
  <2>2. PICK h : h = Max(Heads(r, t))
    OBVIOUS
  <2>3. rcv' = Read(r, h, t) /\ got' = Append(got, [k \in 1 .. t - h + 1 |-> At(r, h + k - 1).blk])
    BY <1>3, <1>6, <2>1, <2>2 DEF ReadFirst
  <2>4. DataSize(r) \in Nat /\ DataSize(r) < Size /\ Base(r) \in Nat /\ r.max \in Int /\ Len(snd.blocks) \in Nat /\ Size \in Nat
    BY <1>1, <1>4, Contents
  <2>5. Tails(r) \in SUBSET Nat
    BY <2>4 DEF Tails
  <2>6. t \in Tails(r)
    BY <1>6, <2>1, <2>5, LeastIs
  <2>7. PICK m : m = MessageOf(snd, Base(r) + h)
    OBVIOUS
  <2>8. /\ t \in Nat /\ t \in Places /\ h \in 0 .. t
        /\ m \in DOMAIN Msgs /\ Msgs[m].len \in Nat \ {0} /\ t = h + Msgs[m].len - 1
        /\ m \notin ReadOf(got) /\ At(r, t).blk = Block(m, Msgs[m].len)
        /\ Base(r) + t < Len(snd.blocks)
        /\ \A k \in h .. t : k \in Places /\ Unread(r, k) /\ At(r, k).blk = Block(m, k - h + 1)
    BY <1>1, <1>4, <2>2, <2>6, <2>7, ReadsAMessage
  <2>9. [k \in 1 .. t - h + 1 |-> At(r, h + k - 1).blk] = BlocksOf(m)
    <3>1. t - h + 1 = Msgs[m].len
      BY <2>8
    <3>2. ASSUME NEW k \in 1 .. Msgs[m].len PROVE At(r, h + k - 1).blk = Block(m, k)
      <4>1. h + k - 1 \in h .. t /\ (h + k - 1) - h + 1 = k
        BY <2>8
      <4> QED BY <2>8, <4>1
    <3> QED BY <3>1, <3>2 DEF BlocksOf
  <2>10. got' = Append(got, BlocksOf(m))
    BY <2>3, <2>9
  <2>11. PICK q : q = Marking(r, h, t)
    OBVIOUS
  <2>12. q \in Buffers /\ BufferTrue(snd, q, got')
    BY <1>1, <1>4, <2>2, <2>6, <2>7, <2>10, <2>11, MarkingKeeps
  <2>13. t < DataSize(r) => h = 0
    BY <1>1, <1>4, <2>1, <2>2, <2>6, FirstIsRead
  <2>14. rcv' \in Buffers /\ BufferTrue(snd, rcv', got')
    <3>1. CASE ~(t < DataSize(r))
      <4>1. Read(r, h, t) = q
        BY <2>11, <3>1 DEF Read, Marking, Distance
      <4> QED BY <2>3, <2>12, <4>1
    <3>2. CASE t < DataSize(r)
      <4>1. h = 0
        BY <2>13, <3>2
      <4>2. rcv' = Freed(r, t + 1)
        BY <2>3, <3>2 DEF Read
      <4>3. rcv' = Freed(q, t + 1)
        BY <1>4, <2>8, <2>11, <4>1, <4>2, MarkedIsFreed
      <4>4. \A k \in h .. t : At(r, k) \in [flag : {1, 2}, blk : ABlock]
        BY <1>1, <1>4, <2>8, Contents
      <4>5. DataSize(q) = DataSize(r) /\ \A k \in h .. t : At(q, k).flag = 2
        <5>1. r \in Buffers /\ t \in Places /\ h \in 0 .. t
          BY <1>4, <2>8
        <5> QED BY <2>11, <4>4, <5>1, MarkingView
      <4>6. t + 1 \in Places /\ t + 1 <= DataSize(q)
        <5>1. t \in Nat /\ t < DataSize(r) /\ DataSize(r) \in Nat /\ DataSize(r) < Size /\ DataSize(q) = DataSize(r)
          BY <2>4, <2>8, <3>2, <4>5
        <5>2. t + 1 \in Nat /\ t + 1 < Size /\ t + 1 <= DataSize(q)
          BY <2>4, <5>1
        <5> QED BY <5>2, IsPlace
      <4>7. ASSUME NEW k \in Places, k < t + 1 PROVE At(q, k).flag = 2
        <5>1. k \in Nat /\ t \in Nat
          BY <2>8, IsPlace
        <5>2. k \in h .. t
          BY <4>1, <4>7, <5>1
        <5> QED BY <4>5, <5>2
      <4> QED BY <1>1, <2>12, <4>3, <4>6, <4>7, FreeingKeeps
    <3> QED BY <3>1, <3>2
  <2>15. ASSUME Msgs[m].inorder, NEW n \in 1 .. m - 1 PROVE n \in ReadOf(got)
    <3>1. InTurn(r, t) /\ At(r, t).blk.inorder
      BY <2>6, <2>8, <2>15, BlockIs DEF Tails
    <3>2. t < DataSize(r)
      BY <3>1 DEF InTurn
    <3>3. h = 0 /\ m = MessageOf(snd, Base(r)) /\ Base(r) < Len(snd.blocks)
      BY <2>4, <2>7, <2>8, <2>13, <3>2
    <3> QED BY <1>1, <1>4, <3>3, EarlierWereRead
  <2>16. WholeMessagesOnce' /\ got' \in Seq(Seq(ABlock))
    BY <1>1, <2>8, <2>10, <2>15, OnceMore
  <2> QED BY <1>1, <1>3, <2>14, <2>16, ReceiverFrame
<1> QED BY <1>5, <1>6

\* A step that leaves the blocks where they are.
LEMMA BufferFrame ==
  ASSUME MessagesAssumption, NEW s \in Senders, NEW r \in Buffers, NEW g, BufferTrue(s, r, g),
         NEW q \in Buffers, Base(q) = Base(r), \A k \in Places : At(q, k) = At(r, k),
         q.curr = r.curr, q.lost = r.lost, q.ack <= r.curr + 1, r.lost \subseteq q.ack .. r.curr,
         q.max >= -1, DataSize(q) + q.max < Size
  PROVE  BufferTrue(s, q, g)
<1>1. \A n \in 0 .. Len(s.blocks) - 1 : n - Base(r) \in Places => At(q, n - Base(r)) = At(r, n - Base(r))
  OBVIOUS
<1>2. /\ Base(q) \in Nat /\ q.ack <= q.curr + 1
      /\ q.curr <= s.curr /\ s.curr < Len(s.blocks) /\ q.curr + 1 < Base(q) + Size
      /\ q.lost \subseteq q.ack .. q.curr
  BY DEF BufferTrue
<1>3. \A k \in Places : At(q, k) # Free =>
        /\ Base(q) + k <= q.curr /\ At(q, k).blk = s.blocks[Base(q) + k + 1]
        /\ At(q, k).flag = 2 <=> MessageOf(s, Base(q) + k) \in ReadOf(g)
  BY DEF BufferTrue
<1>4. \A k \in Places : Base(q) + k <= q.curr => (At(q, k) = Free <=> Base(q) + k \in q.lost)
  BY DEF BufferTrue
<1>5. /\ \A n \in 0 .. Base(q) - 1 : MessageOf(s, n) \in ReadOf(g)
      /\ \A n \in 0 .. Len(s.blocks) - 1 : MessageOf(s, n) \in ReadOf(g) =>
           n < Base(q) \/ (n - Base(q) \in Places /\ At(q, n - Base(q)) # Free)
      /\ \A m \in ReadOf(g) : \E i \in DOMAIN s.blocks : s.blocks[i].msg = m
  BY <1>1 DEF BufferTrue
<1> QED BY <1>2, <1>3, <1>4, <1>5 DEF BufferTrue

\* The timer acknowledges what has come up to the first loss.
LEMMA AckTimerKeeps ==
  ASSUME MessagesAssumption, MessagesInv, AckTimer
  PROVE  MessagesInv'
<1>1. snd \in Senders /\ rcv \in Buffers /\ got \in Seq(Seq(ABlock))
      /\ BufferTrue(snd, rcv, got) /\ WholeMessagesOnce
  BY DEF MessagesInv, Typed
<1>2. PICK a : a = IF rcv.lost = {} THEN rcv.curr + 1 ELSE Min(rcv.lost)
  OBVIOUS
<1>3. PICK n : n = a - rcv.ack
  OBVIOUS
<1> DEFINE d == (rcv.ackpos + n) % Size
           x == IF rcv.max < n THEN 0 ELSE rcv.max - n
<1>4. n > 0 /\ rcv' = [rcv EXCEPT !.ack = a, !.ackpos = d, !.max = x] /\ UNCHANGED <<snd, net, got, cut>>
  BY <1>2, <1>3 DEF AckTimer
<1>5. /\ rcv.unit \in [Places -> Units] /\ rcv.start \in Places /\ rcv.ackpos \in Places
      /\ rcv.max \in Int /\ rcv.ack \in Nat /\ rcv.curr \in Int /\ rcv.lost \in SUBSET Nat
      /\ DataSize(rcv) = Distance(rcv.ackpos, rcv.start) /\ DataSize(rcv) \in Places
      /\ \A k \in Places : At(rcv, k) = rcv.unit[Turn(rcv.start, k)]
  BY <1>1, BufferFields
<1>6. Size \in Nat \ {0} /\ Places \subseteq Nat /\ (\A i \in Places : i < Size) /\ (\A i \in Nat : i < Size => i \in Places)
  BY IsPlace
<1>7. /\ DataSize(rcv) \in Nat /\ Base(rcv) \in Nat /\ rcv.ack = Base(rcv) + DataSize(rcv)
  BY <1>1, Contents
<1>8. /\ rcv.ack <= rcv.curr + 1 /\ rcv.curr + 1 < Base(rcv) + Size /\ rcv.max >= -1
      /\ DataSize(rcv) + rcv.max < Size /\ rcv.lost \subseteq rcv.ack .. rcv.curr
  BY <1>1 DEF BufferTrue
<1>9. a \in Nat /\ a <= rcv.curr + 1 /\ rcv.lost \subseteq a .. rcv.curr
  <2>1. CASE rcv.lost = {}
    BY <1>2, <1>5, <1>8, <2>1
  <2>2. CASE rcv.lost # {}
    <3>1. a \in rcv.lost /\ \A y \in rcv.lost : a <= y
      BY <1>2, <1>5, <2>2, LeastIs
    <3>2. a \in Nat /\ a <= rcv.curr
      BY <1>5, <1>8, <3>1
    <3> QED BY <1>5, <1>8, <3>1, <3>2
  <2> QED BY <2>1, <2>2
<1>10. n \in Nat /\ DataSize(rcv) + n < Size /\ n < Size
  BY <1>3, <1>4, <1>5, <1>6, <1>7, <1>8, <1>9
<1>11. d = Turn(rcv.ackpos, n) /\ d \in Places
  <2>1. d = Turn(rcv.ackpos, n)
    BY DEF Turn
  <2>2. Turn(rcv.ackpos, n) \in Places
    <3>1. n \in Nat /\ n <= Size /\ rcv.ackpos \in Places
      BY <1>5, <1>6, <1>10
    <3> QED BY <3>1, Around
  <2> QED BY <2>1, <2>2
<1>12. x \in Int /\ x >= -1 /\ DataSize(rcv) + n + x < Size
  BY <1>5, <1>6, <1>7, <1>8, <1>10
<1> HIDE DEF d, x
<1>13. rcv' \in Buffers
  BY <1>1, <1>4, <1>9, <1>11, <1>12 DEF Buffers
<1>14. /\ rcv'.unit = rcv.unit /\ rcv'.start = rcv.start /\ rcv'.ackpos = d
       /\ rcv'.max = x /\ rcv'.ack = a /\ rcv'.curr = rcv.curr /\ rcv'.lost = rcv.lost
  BY <1>1, <1>4 DEF Buffers
<1>15. PICK q \in Buffers : q = rcv'
  BY <1>13
<1>16. \A k \in Places : At(q, k) = At(rcv, k)
  BY <1>5, <1>14, <1>15, BufferFields
<1>17. DataSize(q) = DataSize(rcv) + n
  <2>1. DataSize(q) = Distance(d, rcv.start)
    BY <1>14, <1>15, BufferFields
  <2>2. rcv.ackpos = Turn(rcv.start, DataSize(rcv))
    BY <1>5, PlaceFrom
  <2>3. d = Turn(rcv.start, DataSize(rcv) + n)
    <3>1. n \in Places /\ DataSize(rcv) + n < Size
      BY <1>6, <1>10
    <3>2. Turn(Turn(rcv.start, DataSize(rcv)), n) = Turn(rcv.start, DataSize(rcv) + n)
      BY <1>5, <3>1, PlaceFrom
    <3> QED BY <1>11, <2>2, <3>2
  <2>4. DataSize(rcv) + n \in Places
    BY <1>6, <1>7, <1>10
  <2> QED BY <1>5, <2>1, <2>3, <2>4, PlaceFrom
<1>18. Base(q) = Base(rcv)
  BY <1>3, <1>5, <1>7, <1>9, <1>14, <1>15, <1>17 DEF Base
<1>19. BufferTrue(snd, q, got)
  <2>1. q.ack <= rcv.curr + 1 /\ rcv.lost \subseteq q.ack .. rcv.curr /\ q.curr = rcv.curr /\ q.lost = rcv.lost
    BY <1>9, <1>14, <1>15
  <2>2. q.max >= -1 /\ DataSize(q) + q.max < Size
    BY <1>12, <1>14, <1>15, <1>17
  <2> QED BY <1>1, <1>16, <1>18, <2>1, <2>2, BufferFrame
<1>20. BufferTrue(snd, rcv', got') /\ got' \in Seq(Seq(ABlock))
  BY <1>1, <1>4, <1>15, <1>19
<1>21. WholeMessagesOnce'
  BY <1>1, <1>4, SameReads
<1> QED BY <1>4, <1>13, <1>20, <1>21, ReceiverFrame

\* A packet comes: its block is put at its place, if there is room and nothing is there yet.
LEMMA ReceiveKeeps ==
  ASSUME MessagesAssumption, MessagesInv, NEW p \in net, ReceiveData(p)
  PROVE  MessagesInv'
<1>1. snd \in Senders /\ rcv \in Buffers /\ got \in Seq(Seq(ABlock))
      /\ BufferTrue(snd, rcv, got) /\ WholeMessagesOnce
  BY DEF MessagesInv, Typed
<1>2. p.seq \in Nat /\ p.blk \in ABlock /\ p.seq <= snd.curr /\ p.blk = snd.blocks[p.seq + 1]
  BY DEF MessagesInv, Typed, PacketsTrue
<1>3. PICK o : o = p.seq - rcv.ack
  OBVIOUS
<1>4. PICK pos : pos = (rcv.ackpos + o) % Size
  OBVIOUS
<1>5. PICK taken \in BOOLEAN : taken <=> o \in 0 .. Avail(rcv) - 1
  OBVIOUS
<1>6. PICK new \in BOOLEAN : new <=> taken /\ rcv.unit[pos] = Free
  OBVIOUS
<1>7. PICK x : x = IF taken /\ o > rcv.max THEN o ELSE rcv.max
  OBVIOUS
<1>8. PICK b : b = [flag |-> 1, blk |-> p.blk]
  OBVIOUS
<1>9. /\ rcv' = [rcv EXCEPT
           !.max = x,
           !.unit[pos] = IF new THEN b ELSE @,
           !.lost = IF new THEN (@ \cup (rcv.curr + 1 .. p.seq - 1)) \ {p.seq} ELSE @,
           !.curr = IF new /\ p.seq > @ THEN p.seq ELSE @]
      /\ net' = net \ {p} /\ UNCHANGED <<snd, got, cut>>
  BY <1>3, <1>4, <1>5, <1>6, <1>7, <1>8, Zenon DEF ReceiveData
<1>10. /\ rcv.unit \in [Places -> Units] /\ rcv.start \in Places /\ rcv.ackpos \in Places
       /\ rcv.max \in Int /\ rcv.ack \in Nat /\ rcv.curr \in Int /\ rcv.lost \in SUBSET Nat
       /\ DataSize(rcv) = Distance(rcv.ackpos, rcv.start) /\ DataSize(rcv) \in Places
       /\ \A k \in Places : At(rcv, k) = rcv.unit[Turn(rcv.start, k)] /\ Turn(rcv.start, k) \in Places
  BY <1>1, BufferFields
<1>11. Size \in Nat \ {0} /\ Places \subseteq Nat /\ (\A i \in Places : i < Size) /\ (\A i \in Nat : i < Size => i \in Places)
  BY IsPlace
<1>12. /\ DataSize(rcv) \in Nat /\ Base(rcv) \in Nat /\ rcv.ack = Base(rcv) + DataSize(rcv)
       /\ Len(snd.blocks) \in Nat /\ snd.curr \in Int
  BY <1>1, Contents
<1>13. /\ rcv.ack <= rcv.curr + 1 /\ rcv.curr + 1 < Base(rcv) + Size /\ rcv.max >= -1
       /\ DataSize(rcv) + rcv.max < Size /\ rcv.lost \subseteq rcv.ack .. rcv.curr
       /\ rcv.curr <= snd.curr /\ snd.curr < Len(snd.blocks)
  BY <1>1 DEF BufferTrue
<1>14. taken => o \in Nat /\ DataSize(rcv) + o + 1 < Size
  BY <1>5, <1>11, <1>12 DEF Avail
<1>15. x \in Int /\ x >= -1 /\ DataSize(rcv) + x < Size
  BY <1>7, <1>10, <1>11, <1>12, <1>13, <1>14
<1>16. WholeMessagesOnce'
  BY <1>1, <1>9, SameReads
<1>17. SUFFICES rcv' \in Buffers /\ BufferTrue(snd, rcv', got)
  <2>1. net' \subseteq net /\ snd' = snd /\ got' = got
    BY <1>9
  <2> QED BY <1>1, <1>16, <1>17, <2>1, ReceiverFrame
<1>18. CASE ~new
  <2>1. rcv' = [rcv EXCEPT !.max = x]
    <3>1. rcv' = [rcv EXCEPT !.max = x, !.unit = [rcv.unit EXCEPT ![pos] = rcv.unit[pos]], !.lost = rcv.lost, !.curr = rcv.curr]
      BY <1>9, <1>18
    <3>2. [rcv.unit EXCEPT ![pos] = rcv.unit[pos]] = rcv.unit
      BY <1>10
    <3> QED BY <1>1, <3>1, <3>2 DEF Buffers
  <2>2. rcv' \in Buffers
    BY <1>1, <1>15, <2>1 DEF Buffers
  <2>3. /\ rcv'.unit = rcv.unit /\ rcv'.start = rcv.start /\ rcv'.ackpos = rcv.ackpos
        /\ rcv'.max = x /\ rcv'.ack = rcv.ack /\ rcv'.curr = rcv.curr /\ rcv'.lost = rcv.lost
    BY <1>1, <2>1 DEF Buffers
  <2>4. PICK q \in Buffers : q = rcv'
    BY <2>2
  <2>5. DataSize(q) = DataSize(rcv) /\ Base(q) = Base(rcv) /\ \A k \in Places : At(q, k) = At(rcv, k)
    BY <2>3, <2>4 DEF DataSize, Base, At
  <2>6. BufferTrue(snd, q, got)
    BY <1>1, <1>13, <1>15, <2>3, <2>4, <2>5, BufferFrame
  <2> QED BY <2>2, <2>4, <2>6
<1>19. CASE new
  <2> DEFINE at == DataSize(rcv) + o
             lost == (rcv.lost \cup (rcv.curr + 1 .. p.seq - 1)) \ {p.seq}
             curr == IF p.seq > rcv.curr THEN p.seq ELSE rcv.curr
  <2>1. o \in Nat /\ at \in Nat /\ at + 1 < Size /\ at \in Places /\ p.seq = Base(rcv) + at /\ p.seq >= rcv.ack
    <3>1. /\ o \in Nat /\ DataSize(rcv) + o + 1 < Size /\ DataSize(rcv) \in Nat /\ Base(rcv) \in Nat
          /\ rcv.ack = Base(rcv) + DataSize(rcv) /\ p.seq \in Nat
      BY <1>2, <1>6, <1>12, <1>14, <1>19
    <3>2. at \in Nat /\ at + 1 < Size /\ at < Size
      BY <1>11, <3>1
    <3>3. p.seq = Base(rcv) + at /\ p.seq >= rcv.ack
      BY <1>3, <3>1
    <3> QED BY <1>11, <3>1, <3>2, <3>3
  <2>2. pos = Turn(rcv.start, at) /\ pos \in Places
    <3>1. rcv.ackpos = Turn(rcv.start, DataSize(rcv))
      BY <1>10, PlaceFrom
    <3>2. pos = Turn(rcv.ackpos, o)
      BY <1>4 DEF Turn
    <3>3. o \in Places
      BY <1>11, <1>12, <2>1
    <3>4. Turn(Turn(rcv.start, DataSize(rcv)), o) = Turn(rcv.start, at)
      <4>1. DataSize(rcv) + o < Size /\ at = DataSize(rcv) + o
        BY <1>11, <1>12, <2>1
      <4>2. Turn(Turn(rcv.start, DataSize(rcv)), o) = Turn(rcv.start, DataSize(rcv) + o)
        BY <1>10, <3>3, <4>1, PlaceFrom
      <4> QED BY <4>1, <4>2
    <3> QED BY <1>10, <2>1, <3>1, <3>2, <3>4
  <2>3. rcv' = [rcv EXCEPT !.max = x, !.unit = [rcv.unit EXCEPT ![pos] = b], !.lost = lost, !.curr = curr]
    BY <1>9, <1>19
  <2>4. b \in Units /\ b # Free /\ b.flag = 1 /\ b.blk = p.blk
    BY <1>2, <1>8 DEF Units, Free
  <2>9. rcv.curr \in Int /\ p.seq \in Nat /\ rcv.ack \in Nat /\ rcv.ack <= rcv.curr + 1 /\ rcv.lost \in SUBSET Nat
    BY <1>2, <1>10, <1>13
  <2>5. lost \in SUBSET Nat /\ curr \in Int
    BY <2>9
  <2>6. curr >= rcv.curr /\ p.seq <= curr /\ curr <= snd.curr /\ curr + 1 < Base(rcv) + Size
    <3>1. /\ p.seq <= snd.curr /\ rcv.curr <= snd.curr /\ rcv.curr + 1 < Base(rcv) + Size
          /\ Base(rcv) \in Nat /\ Size \in Nat
      BY <1>2, <1>11, <1>12, <1>13
    <3> QED BY <2>1, <2>9, <3>1
  <2>7. lost \subseteq rcv.ack .. curr
    <3>1. rcv.lost \subseteq rcv.ack .. rcv.curr /\ p.seq >= rcv.ack
      BY <1>13, <2>1
    <3> QED BY <2>9, <3>1
  <2>8. \A n \in Nat : n <= curr => (n \in lost <=> n # p.seq /\ (n \in rcv.lost \/ n > rcv.curr))
    BY <2>9
  <2> HIDE DEF lost, curr, at
  <2>10. rcv' \in Buffers
    BY <1>1, <1>10, <1>15, <2>2, <2>3, <2>4, <2>5 DEF Buffers
  <2>11. /\ rcv'.unit = [rcv.unit EXCEPT ![pos] = b] /\ rcv'.start = rcv.start /\ rcv'.ackpos = rcv.ackpos
         /\ rcv'.max = x /\ rcv'.ack = rcv.ack /\ rcv'.curr = curr /\ rcv'.lost = lost
    BY <1>1, <2>3 DEF Buffers
  <2>12. PICK q \in Buffers : q = rcv'
    BY <2>10
  <2>13. DataSize(q) = DataSize(rcv) /\ Base(q) = Base(rcv)
    BY <2>11, <2>12 DEF DataSize, Base
  <2>14. ASSUME NEW k \in Places PROVE At(q, k) = IF k = at THEN b ELSE At(rcv, k)
    <3>1. At(q, k) = q.unit[Turn(rcv.start, k)] /\ Turn(rcv.start, k) \in Places
      BY <1>10, <2>11, <2>12, BufferFields
    <3>2. Turn(rcv.start, k) = Turn(rcv.start, at) => k = at
      <4>1. Distance(Turn(rcv.start, k), rcv.start) = k /\ Distance(Turn(rcv.start, at), rcv.start) = at
        BY <1>10, <2>1, PlaceFrom
      <4> QED BY <4>1
    <3> QED BY <1>10, <2>2, <2>11, <2>12, <3>1, <3>2
  <2>15. MessageOf(snd, p.seq) \notin ReadOf(got)
    <3>1. SUFFICES ASSUME MessageOf(snd, p.seq) \in ReadOf(got) PROVE FALSE
      OBVIOUS
    <3>2. p.seq \in 0 .. Len(snd.blocks) - 1 /\ ~(p.seq < Base(rcv)) /\ p.seq - Base(rcv) = at
      <4>1. /\ p.seq \in Nat /\ p.seq <= snd.curr /\ snd.curr \in Int /\ snd.curr < Len(snd.blocks)
            /\ Len(snd.blocks) \in Nat /\ Base(rcv) \in Nat
        BY <1>2, <1>12, <1>13
      <4> QED BY <2>1, <4>1
    <3>3. At(rcv, at) # Free
      BY <1>1, <3>1, <3>2 DEF BufferTrue
    <3> QED BY <1>6, <1>10, <1>19, <2>1, <2>2, <3>3
  <2>16. ASSUME NEW k \in Places, At(q, k) # Free
         PROVE  /\ Base(q) + k <= q.curr /\ At(q, k).blk = snd.blocks[Base(q) + k + 1]
                /\ At(q, k).flag = 2 <=> MessageOf(snd, Base(q) + k) \in ReadOf(got)
    <3>1. CASE k = at
      BY <1>2, <2>1, <2>4, <2>6, <2>11, <2>12, <2>13, <2>14, <2>15, <3>1
    <3>2. CASE k # at
      <4>1. /\ Base(rcv) + k <= rcv.curr /\ At(rcv, k).blk = snd.blocks[Base(rcv) + k + 1]
            /\ At(rcv, k).flag = 2 <=> MessageOf(snd, Base(rcv) + k) \in ReadOf(got)
        BY <1>1, <2>14, <2>16, <3>2 DEF BufferTrue
      <4>2. Base(rcv) + k <= curr
        BY <1>10, <1>11, <1>12, <2>5, <2>6, <4>1
      <4> QED BY <2>11, <2>12, <2>13, <2>14, <3>2, <4>1, <4>2
    <3> QED BY <3>1, <3>2
  <2>17. ASSUME NEW k \in Places, Base(rcv) + k <= curr
         PROVE  At(q, k) = Free <=> Base(rcv) + k \in lost
    <3>1. Base(rcv) + k \in Nat /\ (Base(rcv) + k = p.seq <=> k = at)
      BY <1>11, <1>12, <2>1
    <3>2. CASE k = at
      BY <2>4, <2>8, <2>14, <2>17, <3>1, <3>2
    <3>3. CASE k # at /\ Base(rcv) + k <= rcv.curr
      <4>1. At(rcv, k) = Free <=> Base(rcv) + k \in rcv.lost
        BY <1>1, <3>3 DEF BufferTrue
      <4> QED BY <1>10, <2>8, <2>14, <2>17, <3>1, <3>3, <4>1
    <3>4. CASE k # at /\ ~(Base(rcv) + k <= rcv.curr)
      <4>1. At(rcv, k) = Free
        BY <1>1, <3>4 DEF BufferTrue
      <4> QED BY <1>10, <2>8, <2>14, <2>17, <3>1, <3>4, <4>1
    <3> QED BY <3>2, <3>3, <3>4
  <2>18. /\ \A n \in 0 .. Base(q) - 1 : MessageOf(snd, n) \in ReadOf(got)
         /\ \A m \in ReadOf(got) : \E i \in DOMAIN snd.blocks : snd.blocks[i].msg = m
    BY <1>1, <2>13 DEF BufferTrue
  <2>19. ASSUME NEW n \in 0 .. Len(snd.blocks) - 1, MessageOf(snd, n) \in ReadOf(got), ~(n < Base(q))
         PROVE  n - Base(q) \in Places /\ At(q, n - Base(q)) # Free
    <3>1. n - Base(rcv) \in Places /\ At(rcv, n - Base(rcv)) # Free
      BY <1>1, <2>13, <2>19 DEF BufferTrue
    <3> QED BY <2>4, <2>13, <2>14, <3>1
  <2>20. BufferTrue(snd, q, got)
    <3>1. /\ Base(q) \in Nat /\ q.ack <= q.curr + 1
          /\ q.curr <= snd.curr /\ snd.curr < Len(snd.blocks) /\ q.curr + 1 < Base(q) + Size
          /\ q.max >= -1 /\ DataSize(q) + q.max < Size
          /\ q.lost \subseteq q.ack .. q.curr
      <4>1. rcv.ack \in Nat /\ rcv.curr \in Int /\ rcv.ack <= rcv.curr + 1 /\ Base(rcv) \in Nat /\ snd.curr < Len(snd.blocks)
        BY <1>10, <1>12, <1>13
      <4>2. rcv.ack <= curr + 1
        BY <2>5, <2>6, <4>1
      <4> QED BY <1>15, <2>6, <2>7, <2>11, <2>12, <2>13, <4>1, <4>2
    <3>2. \A k \in Places : Base(q) + k <= q.curr => (At(q, k) = Free <=> Base(q) + k \in q.lost)
      BY <2>11, <2>12, <2>13, <2>17
    <3> QED BY <2>16, <2>18, <2>19, <3>1, <3>2 DEF BufferTrue
  <2> QED BY <2>10, <2>12, <2>20
<1> QED BY <1>18, <1>19

\* The sender goes on: it writes more blocks, of messages that were not read, and sends more.
LEMMA BlocksGrow ==
  ASSUME MessagesAssumption, NEW s \in Senders, NEW r \in Buffers, NEW g, BufferTrue(s, r, g),
         NEW q \in Senders, s.curr <= q.curr, q.curr < Len(q.blocks), Len(s.blocks) <= Len(q.blocks),
         \A i \in 1 .. Len(s.blocks) : q.blocks[i] = s.blocks[i],
         \A i \in 1 .. Len(q.blocks) : i > Len(s.blocks) => q.blocks[i].msg \notin ReadOf(g)
  PROVE  BufferTrue(q, r, g)
<1>1. /\ DataSize(r) \in Nat /\ Base(r) \in Nat /\ r.curr \in Int /\ r.curr < Len(s.blocks) /\ Len(s.blocks) \in Nat
      /\ s.curr \in Int
  BY Contents
<1>2. Len(q.blocks) \in Nat /\ q.curr \in Int /\ DOMAIN s.blocks = 1 .. Len(s.blocks) /\ DOMAIN q.blocks = 1 .. Len(q.blocks)
  BY DEF Senders
<1>3. Places \subseteq Nat
  BY IsPlace
<1>4. ASSUME NEW n \in 0 .. Len(s.blocks) - 1
      PROVE  q.blocks[n + 1] = s.blocks[n + 1] /\ MessageOf(q, n) = MessageOf(s, n)
  <2>1. n + 1 \in 1 .. Len(s.blocks)
    BY <1>1
  <2> QED BY <2>1 DEF MessageOf
<1>5. /\ Base(r) \in Nat /\ r.ack <= r.curr + 1 /\ r.curr + 1 < Base(r) + Size
      /\ r.max >= -1 /\ DataSize(r) + r.max < Size
      /\ r.lost \subseteq r.ack .. r.curr /\ r.curr <= s.curr
  BY DEF BufferTrue
<1>6. r.curr <= q.curr
  BY <1>1, <1>2, <1>5
<1>7. ASSUME NEW k \in Places, At(r, k) # Free
      PROVE  /\ Base(r) + k <= r.curr /\ At(r, k).blk = q.blocks[Base(r) + k + 1]
             /\ At(r, k).flag = 2 <=> MessageOf(q, Base(r) + k) \in ReadOf(g)
  <2>1. /\ Base(r) + k <= r.curr /\ At(r, k).blk = s.blocks[Base(r) + k + 1]
        /\ At(r, k).flag = 2 <=> MessageOf(s, Base(r) + k) \in ReadOf(g)
    BY <1>7 DEF BufferTrue
  <2>2. Base(r) + k \in 0 .. Len(s.blocks) - 1
    BY <1>1, <1>3, <2>1
  <2> QED BY <1>4, <2>1, <2>2
<1>8. \A k \in Places : Base(r) + k <= r.curr => (At(r, k) = Free <=> Base(r) + k \in r.lost)
  BY DEF BufferTrue
<1>9. ASSUME NEW n \in 0 .. Base(r) - 1 PROVE MessageOf(q, n) \in ReadOf(g)
  <2>1. MessageOf(s, n) \in ReadOf(g)
    BY DEF BufferTrue
  <2>2. n \in 0 .. Len(s.blocks) - 1
    <3>1. r.ack = Base(r) + DataSize(r) /\ r.ack \in Nat
      BY Contents
    <3>2. Base(r) - 1 <= r.curr
      BY <1>1, <1>5, <3>1
    <3> QED BY <1>1, <3>2
  <2> QED BY <1>4, <2>1, <2>2
<1>10. ASSUME NEW n \in 0 .. Len(q.blocks) - 1, MessageOf(q, n) \in ReadOf(g)
       PROVE  n < Base(r) \/ (n - Base(r) \in Places /\ At(r, n - Base(r)) # Free)
  <2>1. n < Len(s.blocks)
    <3>1. n + 1 \in 1 .. Len(q.blocks) /\ n \in Nat
      BY <1>2
    <3>2. ~(n + 1 > Len(s.blocks))
      BY <1>10, <3>1 DEF MessageOf
    <3> QED BY <1>1, <3>1, <3>2
  <2>2. n \in 0 .. Len(s.blocks) - 1
    BY <1>1, <1>2, <2>1
  <2>3. MessageOf(s, n) \in ReadOf(g)
    BY <1>4, <1>10, <2>2
  <2> QED BY <2>2, <2>3 DEF BufferTrue
<1>11. ASSUME NEW m \in ReadOf(g) PROVE \E i \in DOMAIN q.blocks : q.blocks[i].msg = m
  <2>1. PICK i \in DOMAIN s.blocks : s.blocks[i].msg = m
    BY DEF BufferTrue
  <2>2. i \in DOMAIN q.blocks /\ q.blocks[i] = s.blocks[i]
    BY <1>1, <1>2
  <2> QED BY <2>1, <2>2
<1> QED BY <1>5, <1>6, <1>7, <1>8, <1>9, <1>10, <1>11 DEF BufferTrue

\* The sender sends what it has, or hears of the receiver.
LEMMA SenderFrame ==
  ASSUME MessagesAssumption, MessagesInv, rcv' = rcv, got' = got,
         snd' \in Senders, snd'.blocks = snd.blocks, snd'.cur = snd'.curr + 1, snd'.first = snd'.ack,
         snd.curr <= snd'.curr, snd'.curr < Len(snd.blocks), \A n \in snd'.lost : n <= snd'.curr,
         \A p \in net' : p \in net \/ (p \in [seq : Nat, blk : ABlock] /\ p.seq <= snd'.curr /\ p.blk = snd.blocks[p.seq + 1])
  PROVE  MessagesInv'
<1>1. snd \in Senders /\ rcv \in Buffers /\ got \in Seq(Seq(ABlock)) /\ MessagesInARow(snd)
      /\ BufferTrue(snd, rcv, got) /\ WholeMessagesOnce /\ PacketsTrue /\ net \subseteq [seq : Nat, blk : ABlock]
  BY DEF MessagesInv, Typed
<1>2. Typed'
  BY <1>1 DEF Typed
<1>3. MessagesInARow(snd)'
  BY <1>1 DEF MessagesInARow
<1>4. Len(snd.blocks) \in Nat /\ snd.curr \in Int /\ snd'.curr \in Int
  BY <1>1 DEF Senders
<1>5. PacketsTrue'
  <2>1. snd'.cur <= Len(snd'.blocks)
    BY <1>4
  <2>2. ASSUME NEW p \in net' PROVE p.seq <= snd'.curr /\ p.blk = snd'.blocks[p.seq + 1]
    <3>1. CASE p \in net
      <4>1. p.seq <= snd.curr /\ p.blk = snd.blocks[p.seq + 1] /\ p.seq \in Nat
        BY <1>1, <3>1 DEF PacketsTrue
      <4> QED BY <1>4, <4>1
    <3>2. CASE p \notin net
      BY <3>2
    <3> QED BY <3>1, <3>2
  <2> QED BY <2>1, <2>2 DEF PacketsTrue
<1>6. BufferTrue(snd', rcv, got)
  <2>1. Len(snd'.blocks) = Len(snd.blocks) /\ \A i \in 1 .. Len(snd'.blocks) : ~(i > Len(snd.blocks))
    BY <1>4
  <2> QED BY <1>1, <1>4, <2>1, BlocksGrow
<1>7. BufferTrue(snd, rcv, got)'
  BY <1>6
<1>8. WholeMessagesOnce'
  BY <1>1, SameReads
<1> QED BY <1>2, <1>3, <1>5, <1>7, <1>8 DEF MessagesInv

\* What the sender has, said in small.
LEMMA SenderFacts ==
  ASSUME MessagesAssumption, MessagesInv
  PROVE  /\ snd \in Senders /\ snd.blocks \in Seq(ABlock) /\ snd.first \in Nat /\ snd.cur \in Nat /\ snd.curr \in Int
         /\ snd.ack \in Nat /\ snd.lost \in SUBSET Nat /\ snd.window \in Int /\ Len(snd.blocks) \in Nat
         /\ snd.cur = snd.curr + 1 /\ snd.curr < Len(snd.blocks) /\ snd.first = snd.ack
         /\ \A n \in snd.lost : n <= snd.curr
         /\ \A i \in 1 .. Len(snd.blocks) : snd.blocks[i] \in ABlock
         /\ rcv \in Buffers /\ rcv.ack \in Nat /\ Avail(rcv) \in Int
<1>1. snd \in Senders /\ PacketsTrue /\ rcv \in Buffers
  BY DEF MessagesInv, Typed
<1>2. /\ snd.blocks \in Seq(ABlock) /\ snd.first \in Nat /\ snd.cur \in Nat /\ snd.curr \in Int
      /\ snd.ack \in Nat /\ snd.lost \in SUBSET Nat /\ snd.window \in Int /\ Len(snd.blocks) \in Nat
  BY <1>1 DEF Senders
<1>3. /\ snd.cur = snd.curr + 1 /\ snd.cur <= Len(snd.blocks) /\ snd.first = snd.ack
      /\ \A n \in snd.lost : n <= snd.curr
  BY <1>1 DEF PacketsTrue
<1>4. rcv.ack \in Nat /\ DataSize(rcv) \in Nat /\ Size \in Nat
  BY <1>1, BufferFields, IsPlace
<1>5. Avail(rcv) \in Int
  BY <1>4 DEF Avail
<1>6. snd.curr < Len(snd.blocks)
  BY <1>2, <1>3
<1> QED BY <1>1, <1>2, <1>3, <1>4, <1>5, <1>6

LEMMA SendNewKeeps ==
  ASSUME MessagesAssumption, MessagesInv, SendNew
  PROVE  MessagesInv'
<1>1. /\ snd \in Senders /\ snd.cur \in Nat /\ snd.curr \in Int /\ Len(snd.blocks) \in Nat
      /\ snd.cur = snd.curr + 1 /\ snd.first = snd.ack
      /\ snd.lost \in SUBSET Nat /\ \A n \in snd.lost : n <= snd.curr
      /\ \A i \in 1 .. Len(snd.blocks) : snd.blocks[i] \in ABlock
  BY SenderFacts
<1>2. /\ snd.cur < Len(snd.blocks)
      /\ net' = net \cup {Packet(snd.curr + 1, snd.blocks[snd.cur + 1])}
      /\ snd' = [snd EXCEPT !.cur = snd.cur + 1, !.curr = snd.curr + 1]
      /\ rcv' = rcv /\ got' = got
  BY DEF SendNew, Transmit
<1>3. snd' \in Senders
  <2>1. snd.cur + 1 \in Nat /\ snd.curr + 1 \in Int
    BY <1>1
  <2> QED BY <1>1, <1>2, <2>1 DEF Senders
<1>4. /\ snd'.blocks = snd.blocks /\ snd'.cur = snd.cur + 1 /\ snd'.curr = snd.curr + 1
      /\ snd'.first = snd.first /\ snd'.ack = snd.ack /\ snd'.lost = snd.lost
  BY <1>1, <1>2 DEF Senders
<1>5. PICK p : p = Packet(snd.curr + 1, snd.blocks[snd.cur + 1])
  OBVIOUS
<1>6. p.seq = snd.curr + 1 /\ p.blk = snd.blocks[p.seq + 1] /\ p \in [seq : Nat, blk : ABlock]
  <2>1. snd.curr + 1 \in Nat /\ snd.cur + 1 \in 1 .. Len(snd.blocks)
    BY <1>1, <1>2
  <2> QED BY <1>1, <1>5, <2>1 DEF Packet
<1>7. /\ snd'.cur = snd'.curr + 1 /\ snd'.first = snd'.ack /\ snd.curr <= snd'.curr /\ snd'.curr < Len(snd.blocks)
      /\ p.seq <= snd'.curr
  BY <1>1, <1>2, <1>4, <1>6
<1>8. \A n \in snd'.lost : n <= snd'.curr
  BY <1>1, <1>4
<1> QED BY <1>2, <1>3, <1>4, <1>5, <1>6, <1>7, <1>8, SenderFrame

LEMMA ResendKeeps ==
  ASSUME MessagesAssumption, MessagesInv, Resend
  PROVE  MessagesInv'
<1>1. /\ snd \in Senders /\ snd.curr \in Int /\ Len(snd.blocks) \in Nat /\ snd.ack \in Nat
      /\ snd.cur = snd.curr + 1 /\ snd.first = snd.ack /\ snd.curr < Len(snd.blocks)
      /\ snd.lost \in SUBSET Nat /\ \A n \in snd.lost : n <= snd.curr
      /\ \A i \in 1 .. Len(snd.blocks) : snd.blocks[i] \in ABlock
  BY SenderFacts
<1>2. PICK a : a = Min(snd.lost)
  OBVIOUS
<1>3. a \in snd.lost
  BY <1>1, <1>2, LeastIs DEF Resend
<1>4. a \in Nat /\ a <= snd.curr /\ a + 1 \in 1 .. Len(snd.blocks)
  <2>1. a \in Nat /\ a <= snd.curr
    BY <1>1, <1>3
  <2> QED BY <1>1, <2>1
<1>5. /\ snd' = [snd EXCEPT !.lost = snd.lost \ {a}] /\ rcv' = rcv /\ got' = got
      /\ net' = net \/ net' = net \cup {Packet(a, snd.blocks[LostBlock])}
  BY <1>2 DEF Resend, Transmit
<1>6. LostBlock = a + 1
  BY <1>1, <1>2, <1>4 DEF LostBlock
<1>7. snd' \in Senders
  BY <1>1, <1>5 DEF Senders
<1>8. /\ snd'.blocks = snd.blocks /\ snd'.cur = snd.cur /\ snd'.curr = snd.curr
      /\ snd'.first = snd.first /\ snd'.ack = snd.ack /\ snd'.lost \subseteq snd.lost
  BY <1>1, <1>5 DEF Senders
<1>9. PICK p : p = Packet(a, snd.blocks[LostBlock])
  OBVIOUS
<1>10. p \in [seq : Nat, blk : ABlock] /\ p.seq <= snd'.curr /\ p.blk = snd.blocks[p.seq + 1]
  BY <1>1, <1>4, <1>6, <1>8, <1>9 DEF Packet
<1>11. snd.curr <= snd'.curr /\ snd'.curr < Len(snd.blocks) /\ snd'.cur = snd'.curr + 1 /\ snd'.first = snd'.ack
  BY <1>1, <1>8
<1> QED BY <1>1, <1>5, <1>7, <1>8, <1>9, <1>10, <1>11, SenderFrame

\* The steps at which the sender hears of the receiver, or of nothing for long.
LEMMA HearingKeeps ==
  ASSUME MessagesAssumption, MessagesInv, ProcessAck \/ ProcessNak \/ SndExp
  PROVE  MessagesInv'
<1>1. /\ snd \in Senders /\ snd.curr \in Int /\ Len(snd.blocks) \in Nat /\ snd.ack \in Nat
      /\ snd.cur = snd.curr + 1 /\ snd.first = snd.ack /\ snd.curr < Len(snd.blocks)
      /\ snd.lost \in SUBSET Nat /\ (\A n \in snd.lost : n <= snd.curr)
      /\ rcv.ack \in Nat /\ Avail(rcv) \in Int
  BY SenderFacts
<1>2. SUFFICES /\ snd' \in Senders /\ snd'.blocks = snd.blocks /\ snd'.cur = snd.cur /\ snd'.curr = snd.curr
               /\ snd'.first = snd'.ack /\ \A n \in snd'.lost : n <= snd.curr
  <2>1. net' = net /\ rcv' = rcv /\ got' = got
    BY DEF ProcessAck, ProcessNak, SndExp
  <2>2. snd'.cur = snd'.curr + 1 /\ snd.curr <= snd'.curr /\ snd'.curr < Len(snd.blocks)
    BY <1>1, <1>2
  <2> QED BY <1>2, <2>1, <2>2, SenderFrame
<1>3. CASE ProcessAck
  <2>1. snd.first + rcv.ack - snd.ack = rcv.ack
    BY <1>1
  <2>2. snd' = [snd EXCEPT !.ack = rcv.ack, !.first = rcv.ack, !.window = Avail(rcv), !.lost = {s \in snd.lost : s >= rcv.ack}]
    BY <1>3, <2>1 DEF ProcessAck
  <2> QED BY <1>1, <2>2 DEF Senders
<1>4. CASE ProcessNak
  <2>1. PICK x : x = snd.lost \cup {s \in rcv.lost : s \in snd.ack .. snd.curr}
    OBVIOUS
  <2>2. snd' = [snd EXCEPT !.lost = x]
    BY <1>4, <2>1 DEF ProcessNak
  <2>3. x \in SUBSET Nat /\ \A n \in x : n <= snd.curr
    BY <1>1, <2>1
  <2> QED BY <1>1, <2>2, <2>3 DEF Senders
<1>5. CASE SndExp
  <2>1. snd' = [snd EXCEPT !.lost = snd.ack .. snd.curr]
    BY <1>5 DEF SndExp
  <2>2. snd.ack .. snd.curr \in SUBSET Nat /\ \A n \in snd.ack .. snd.curr : n <= snd.curr
    BY <1>1
  <2> QED BY <1>1, <2>1, <2>2 DEF Senders
<1> QED BY <1>3, <1>4, <1>5

\* A message is written behind those that are there.
LEMMA sendmsgKeeps ==
  ASSUME MessagesAssumption, MessagesInv, sendmsg
  PROVE  MessagesInv'
<1>1. /\ snd \in Senders /\ snd.blocks \in Seq(ABlock) /\ snd.curr \in Int /\ Len(snd.blocks) \in Nat
      /\ snd.cur = snd.curr + 1 /\ snd.curr < Len(snd.blocks)
  BY SenderFacts
<1>2. /\ rcv \in Buffers /\ got \in Seq(Seq(ABlock)) /\ MessagesInARow(snd) /\ BufferTrue(snd, rcv, got)
      /\ WholeMessagesOnce /\ PacketsTrue /\ net \subseteq [seq : Nat, blk : ABlock]
  BY DEF MessagesInv, Typed
<1>3. PICK m : m = Sent + 1
  OBVIOUS
<1>4. PICK b : b = [k \in 1 .. Msgs[m].len |-> Block(m, k)]
  OBVIOUS
<1>5. m \in DOMAIN Msgs /\ snd' = [snd EXCEPT !.blocks = snd.blocks \o b] /\ net' = net /\ rcv' = rcv /\ got' = got
  BY <1>3, <1>4 DEF sendmsg
<1>6. b \in Seq(ABlock) /\ Len(b) = Msgs[m].len /\ Msgs[m].len \in Nat \ {0} /\ \A k \in 1 .. Msgs[m].len : b[k] = Block(m, k)
  <2>1. b = BlocksOf(m)
    BY <1>4 DEF BlocksOf
  <2> QED BY <1>5, <2>1, BlocksTyped
<1> DEFINE L == Len(snd.blocks)
           c == Msgs[m].len
<1>7. PICK x : x = snd.blocks \o b
  OBVIOUS
<1>8. /\ x \in Seq(ABlock) /\ Len(x) = L + c /\ DOMAIN x = 1 .. L + c /\ DOMAIN snd.blocks = 1 .. L
      /\ \A i \in 1 .. L : x[i] = snd.blocks[i]
      /\ \A k \in 1 .. c : x[L + k] = Block(m, k)
  <2>1. /\ x \in Seq(ABlock) /\ Len(x) = L + c /\ DOMAIN x = 1 .. L + c /\ DOMAIN snd.blocks = 1 .. L
        /\ \A i \in 1 .. L : x[i] = snd.blocks[i]
    <3>1. /\ x \in Seq(ABlock) /\ Len(x) = L + Len(b)
          /\ \A i \in 1 .. L + Len(b) : x[i] = IF i <= L THEN snd.blocks[i] ELSE b[i - L]
      BY <1>1, <1>6, <1>7, ConcatProperties
    <3>2. L \in Nat /\ Len(b) = c /\ c \in Nat
      BY <1>1, <1>6
    <3>3. DOMAIN x = 1 .. L + c /\ DOMAIN snd.blocks = 1 .. L
      BY <1>1, <3>1, <3>2
    <3> QED BY <3>1, <3>2, <3>3
  <2>2. ASSUME NEW k \in 1 .. c PROVE x[L + k] = Block(m, k)
    <3>1. L + k \in 1 .. L + c /\ ~(L + k <= L) /\ (L + k) - L = k
      BY <1>1, <1>6
    <3>2. x[L + k] = b[(L + k) - L]
      BY <1>1, <1>6, <1>7, <3>1
    <3> QED BY <1>6, <3>1, <3>2
  <2> QED BY <2>1, <2>2
<1>9. ASSUME NEW i \in 1 .. L + c, ~(i \in 1 .. L) PROVE i - L \in 1 .. c /\ x[i] = Block(m, i - L) /\ x[i].msg = m
  <2>1. i - L \in 1 .. c /\ L + (i - L) = i
    BY <1>1, <1>6, <1>9
  <2> QED BY <1>8, <2>1, BlockIs
<1>10. ASSUME NEW i \in 1 .. L PROVE L \in 1 .. L /\ Sent = snd.blocks[L].msg /\ snd.blocks[i].msg <= Sent /\ Sent \in Nat
                                    /\ snd.blocks[i].msg \in Nat
  <2>1. L # 0 /\ L \in 1 .. L
    BY <1>1
  <2>2. Sent = snd.blocks[L].msg
    BY <2>1 DEF Sent
  <2>3. snd.blocks[i].msg \in DOMAIN Msgs /\ Sent \in DOMAIN Msgs
    BY <1>1, <1>8, <2>1, <2>2, BlockFields
  <2>4. DOMAIN Msgs \subseteq Nat
    BY DEF MessagesAssumption
  <2>5. CASE i = L
    BY <2>1, <2>2, <2>3, <2>4, <2>5
  <2>6. CASE i # L
    <3>1. i < L
      BY <1>1, <2>6
    <3> QED BY <1>2, <1>8, <2>1, <2>2, <2>3, <2>4, <3>1 DEF MessagesInARow
  <2> QED BY <2>5, <2>6
<1>11. Sent \in Nat /\ m \in Nat
  <2>1. CASE L = 0
    <3>1. snd.blocks = <<>>
      BY <1>1, <2>1
    <3> QED BY <1>3, <3>1 DEF Sent
  <2>2. CASE L # 0
    <3>1. L \in 1 .. L
      BY <1>1, <2>2
    <3> QED BY <1>3, <1>10, <3>1
  <2> QED BY <2>1, <2>2
<1>12. PICK q : q = snd'
  OBVIOUS
<1>13. q \in Senders
  BY <1>1, <1>5, <1>7, <1>8, <1>12 DEF Senders
<1>14. /\ q.blocks = x /\ q.cur = snd.cur /\ q.curr = snd.curr /\ q.first = snd.first
       /\ q.ack = snd.ack /\ q.lost = snd.lost
  BY <1>1, <1>5, <1>7, <1>12 DEF Senders
<1>15. ASSUME NEW i \in DOMAIN x
       PROVE  \E h \in 0 .. i - 1 : LET n == x[i].msg IN
                /\ i <= h + Msgs[n].len /\ h + Msgs[n].len <= Len(x)
                /\ \A k \in 1 .. Msgs[n].len : x[h + k] = Block(n, k)
  <2>1. CASE i \in 1 .. L
    <3>1. PICK n : n = snd.blocks[i].msg
      OBVIOUS
    <3>2. n \in DOMAIN Msgs /\ Msgs[n].len \in Nat \ {0} /\ x[i].msg = n
      BY <1>1, <1>8, <2>1, <3>1, BlockFields
    <3>3. PICK h \in 0 .. i - 1 : /\ i <= h + Msgs[n].len /\ h + Msgs[n].len <= L
                                  /\ \A k \in 1 .. Msgs[n].len : snd.blocks[h + k] = Block(n, k)
      BY <1>2, <1>8, <2>1, <3>1 DEF MessagesInARow
    <3>4. ASSUME NEW k \in 1 .. Msgs[n].len PROVE x[h + k] = Block(n, k)
      <4>1. h + k \in 1 .. L
        BY <1>1, <3>2, <3>3
      <4> QED BY <1>8, <3>3, <4>1
    <3>5. h + Msgs[n].len <= Len(x)
      BY <1>1, <1>6, <1>8, <3>2, <3>3
    <3> QED BY <3>2, <3>3, <3>4, <3>5
  <2>2. CASE ~(i \in 1 .. L)
    <3>1. x[i].msg = m /\ L \in 0 .. i - 1 /\ i <= L + c /\ L + c <= Len(x)
      BY <1>1, <1>6, <1>8, <1>9, <2>2
    <3> QED BY <1>8, <3>1
  <2> QED BY <2>1, <2>2
<1>16. ASSUME NEW i \in DOMAIN x, NEW j \in DOMAIN x, i < j PROVE x[i].msg <= x[j].msg
  <2>1. CASE j \in 1 .. L
    <3>1. i \in 1 .. L
      BY <1>1, <1>8, <1>16, <2>1
    <3> QED BY <1>2, <1>8, <1>16, <2>1, <3>1 DEF MessagesInARow
  <2>2. CASE ~(j \in 1 .. L)
    <3>1. x[j].msg = m
      BY <1>8, <1>9, <2>2
    <3>2. x[i].msg = m \/ (x[i].msg \in Nat /\ x[i].msg <= Sent)
      BY <1>8, <1>9, <1>10
    <3> QED BY <1>3, <1>11, <3>1, <3>2
  <2> QED BY <2>1, <2>2
<1>17. ASSUME NEW i \in 1 .. L PROVE x[i].msg # m
  BY <1>3, <1>8, <1>10
<1>18. ASSUME NEW i \in DOMAIN x, NEW j \in DOMAIN x, x[i].head, x[j].head, x[i].msg = x[j].msg PROVE i = j
  <2>1. CASE i \in 1 .. L
    <3>1. j \in 1 .. L
      BY <1>8, <1>9, <1>17, <1>18, <2>1
    <3>2. x[i] = snd.blocks[i] /\ x[j] = snd.blocks[j] /\ i \in DOMAIN snd.blocks /\ j \in DOMAIN snd.blocks
      BY <1>8, <2>1, <3>1
    <3>3. \A y, z \in DOMAIN snd.blocks :
            snd.blocks[y].head /\ snd.blocks[z].head /\ snd.blocks[y].msg = snd.blocks[z].msg => y = z
      BY <1>2 DEF MessagesInARow
    <3> QED BY <1>18, <3>2, <3>3
  <2>2. CASE ~(i \in 1 .. L)
    <3>1. ~(j \in 1 .. L)
      BY <1>8, <1>9, <1>17, <1>18, <2>2
    <3>2. i - L = 1 /\ j - L = 1
      BY <1>8, <1>9, <1>18, <2>2, <3>1, BlockIs
    <3> QED BY <1>1, <1>8, <3>2
  <2> QED BY <2>1, <2>2
<1>19. ASSUME NEW i \in DOMAIN x, NEW n \in 1 .. x[i].msg PROVE \E j \in DOMAIN x : x[j].msg = n
  <2>1. CASE i \in 1 .. L
    <3>1. PICK j \in 1 .. L : snd.blocks[j].msg = n
      BY <1>2, <1>8, <2>1 DEF MessagesInARow
    <3>2. j \in DOMAIN x /\ x[j].msg = n
      BY <1>1, <1>6, <1>8, <3>1
    <3> QED BY <3>2
  <2>2. CASE ~(i \in 1 .. L) /\ n = m
    BY <1>8, <1>9, <2>2
  <2>3. CASE ~(i \in 1 .. L) /\ n # m
    <3>1. n \in 1 .. Sent
      BY <1>3, <1>8, <1>9, <1>11, <2>3
    <3>2. L \in 1 .. L
      <4>1. L # 0
        <5>1. SUFFICES ASSUME L = 0 PROVE FALSE
          OBVIOUS
        <5>2. snd.blocks = <<>>
          BY <1>1, <5>1
        <5> QED BY <3>1, <5>2 DEF Sent
      <4> QED BY <1>1, <4>1
    <3>3. n \in 1 .. snd.blocks[L].msg
      BY <1>10, <3>1, <3>2
    <3>4. PICK j \in 1 .. L : snd.blocks[j].msg = n
      BY <1>2, <1>8, <3>2, <3>3 DEF MessagesInARow
    <3>5. j \in DOMAIN x /\ x[j].msg = n
      BY <1>1, <1>6, <1>8, <3>4
    <3> QED BY <3>5
  <2> QED BY <2>1, <2>2, <2>3
<1>20. MessagesInARow(q)
  <2>1. \A i \in DOMAIN x : \E h \in 0 .. i - 1 : LET n == x[i].msg IN
           /\ i <= h + Msgs[n].len /\ h + Msgs[n].len <= Len(x)
           /\ \A k \in 1 .. Msgs[n].len : x[h + k] = Block(n, k)
    BY <1>15
  <2>2. /\ \A i, j \in DOMAIN x : i < j => x[i].msg <= x[j].msg
        /\ \A i, j \in DOMAIN x : x[i].head /\ x[j].head /\ x[i].msg = x[j].msg => i = j
        /\ \A i \in DOMAIN x : \A n \in 1 .. x[i].msg : \E j \in DOMAIN x : x[j].msg = n
    BY <1>16, <1>18, <1>19
  <2> QED BY <1>14, <2>1, <2>2 DEF MessagesInARow
<1>21. PacketsTrue'
  <2>1. snd.cur <= Len(x) /\ snd.curr < L
    BY <1>1, <1>2, <1>6, <1>8
  <2>2. ASSUME NEW p \in net PROVE p.seq <= snd.curr /\ p.blk = x[p.seq + 1]
    <3>1. p.seq <= snd.curr /\ p.blk = snd.blocks[p.seq + 1] /\ p.seq \in Nat
      BY <1>2 DEF PacketsTrue
    <3>2. p.seq + 1 \in 1 .. L
      BY <1>1, <2>1, <3>1
    <3> QED BY <1>8, <3>1, <3>2
  <2>3. snd.cur = snd.curr + 1 /\ snd.first = snd.ack /\ \A n \in snd.lost : n <= snd.curr
    BY <1>2 DEF PacketsTrue
  <2> QED BY <1>5, <1>12, <1>14, <2>1, <2>2, <2>3 DEF PacketsTrue
<1>22. BufferTrue(q, rcv, got)
  <2>1. m \notin ReadOf(got)
    <3>1. SUFFICES ASSUME m \in ReadOf(got) PROVE FALSE
      OBVIOUS
    <3>2. PICK i \in DOMAIN snd.blocks : snd.blocks[i].msg = m
      BY <1>2, <3>1 DEF BufferTrue
    <3> QED BY <1>8, <1>17, <3>2
  <2>2. \A i \in 1 .. Len(x) : i > L => x[i].msg \notin ReadOf(got)
    <3>1. \A i \in 1 .. L : ~(i > L)
      BY <1>1
    <3> QED BY <1>8, <1>9, <2>1, <3>1
  <2>3. snd.curr <= q.curr /\ q.curr < Len(q.blocks) /\ L <= Len(q.blocks)
    BY <1>1, <1>6, <1>8, <1>14
  <2> QED BY <1>1, <1>2, <1>8, <1>13, <1>14, <2>2, <2>3, BlocksGrow
<1>23. Typed'
  BY <1>2, <1>5, <1>12, <1>13 DEF Typed
<1>24. MessagesInARow(snd)' /\ BufferTrue(snd, rcv, got)' /\ WholeMessagesOnce'
  <2>1. WholeMessagesOnce'
    BY <1>2, <1>5, SameReads
  <2> QED BY <1>5, <1>12, <1>20, <1>22, <2>1
<1> QED BY <1>21, <1>23, <1>24 DEF MessagesInv

LEMMA LoseKeeps ==
  ASSUME MessagesInv, NEW p \in net, Lose(p)
  PROVE  MessagesInv'
<1>1. snd' = snd /\ rcv' = rcv /\ got' = got /\ net' \subseteq net
  BY DEF Lose
<1>2. rcv \in Buffers /\ got \in Seq(Seq(ABlock)) /\ BufferTrue(snd, rcv, got) /\ WholeMessagesOnce
  BY DEF MessagesInv, Typed
<1>3. WholeMessagesOnce'
  BY <1>1, <1>2, SameReads
<1> QED BY <1>1, <1>2, <1>3, ReceiverFrame

LEMMA MessagesStart ==
  ASSUME MessagesAssumption, Init
  PROVE  MessagesInv
<1>1. Size \in Nat \ {0} /\ 0 \in Places /\ Places \subseteq Nat /\ \A i \in Places : i < Size
  BY IsPlace
<1>2. /\ snd = [blocks |-> <<>>, first |-> 0, cur |-> 0, curr |-> -1, ack |-> 0, lost |-> {}, window |-> Size - 1]
      /\ net = {} /\ got = <<>>
      /\ rcv = [unit |-> [i \in Places |-> Free], start |-> 0, ackpos |-> 0, max |-> -1,
                ack |-> 0, curr |-> -1, lost |-> {}]
  BY DEF Init
<1>3. /\ snd.blocks = <<>> /\ Len(snd.blocks) = 0 /\ DOMAIN snd.blocks = {} /\ snd.first = 0 /\ snd.cur = 0
      /\ snd.curr = -1 /\ snd.ack = 0 /\ snd.lost = {} /\ DOMAIN got = {}
  BY <1>2
<1>4. /\ rcv.start = 0 /\ rcv.ackpos = 0 /\ rcv.max = -1 /\ rcv.ack = 0 /\ rcv.curr = -1 /\ rcv.lost = {}
      /\ rcv.unit = [i \in Places |-> Free]
  BY <1>2
<1>5. snd \in Senders
  <2>1. snd.blocks \in Seq(ABlock) /\ Size - 1 \in Int /\ {} \in SUBSET Nat
    BY <1>1, <1>3
  <2> QED BY <1>2, <2>1 DEF Senders
<1>6. rcv \in Buffers
  <2>1. [i \in Places |-> Free] \in [Places -> Units]
    BY DEF Units
  <2> QED BY <1>1, <1>2, <2>1 DEF Buffers
<1>7. Typed
  BY <1>2, <1>5, <1>6 DEF Typed
<1>8. MessagesInARow(snd) /\ PacketsTrue /\ WholeMessagesOnce
  BY <1>2, <1>3 DEF MessagesInARow, PacketsTrue, WholeMessagesOnce
<1>9. DataSize(rcv) = 0 /\ Base(rcv) = 0
  <2>1. DataSize(rcv) = Distance(0, 0)
    BY <1>4, <1>6, BufferFields
  <2>2. Distance(0, 0) = 0
    BY <1>1, Back
  <2> QED BY <1>4, <2>1, <2>2 DEF Base
<1>10. \A k \in Places : At(rcv, k) = Free
  BY <1>4, <1>6, BufferFields
<1>11. ReadOf(got) = {}
  BY <1>3 DEF ReadOf
<1>12. BufferTrue(snd, rcv, got)
  <2>1. /\ Base(rcv) \in Nat /\ rcv.ack <= rcv.curr + 1 /\ rcv.curr <= snd.curr
        /\ snd.curr < Len(snd.blocks) /\ rcv.curr + 1 < Base(rcv) + Size
        /\ rcv.max >= -1 /\ DataSize(rcv) + rcv.max < Size
    BY <1>1, <1>3, <1>4, <1>9
  <2>2. \A k \in Places : ~(Base(rcv) + k <= rcv.curr)
    BY <1>1, <1>4, <1>9
  <2>3. 0 .. Base(rcv) - 1 = {}
    BY <1>9
  <2> QED BY <1>3, <1>4, <1>10, <1>11, <2>1, <2>2, <2>3 DEF BufferTrue
<1> QED BY <1>7, <1>8, <1>12 DEF MessagesInv

LEMMA MessagesGoOn ==
  ASSUME MessagesAssumption, MessagesInv, [Next]_vars
  PROVE  MessagesInv'
<1>1. CASE sendmsg
  BY <1>1, sendmsgKeeps
<1>2. CASE SendNew
  BY <1>2, SendNewKeeps
<1>3. CASE Resend
  BY <1>3, ResendKeeps
<1>4. CASE ProcessAck \/ ProcessNak \/ SndExp
  BY <1>4, HearingKeeps
<1>5. ASSUME NEW p \in net, ReceiveData(p) PROVE MessagesInv'
  BY <1>5, ReceiveKeeps
<1>6. ASSUME NEW p \in net, Lose(p) PROVE MessagesInv'
  BY <1>6, LoseKeeps
<1>7. CASE AckTimer
  BY <1>7, AckTimerKeeps
<1>8. CASE recvmsg
  BY <1>8, ReadingKeeps
<1>9. CASE UNCHANGED vars
  <2>1. snd' = snd /\ net' = net /\ rcv' = rcv /\ got' = got
    BY <1>9 DEF vars
  <2>2. rcv \in Buffers /\ got \in Seq(Seq(ABlock)) /\ BufferTrue(snd, rcv, got) /\ WholeMessagesOnce
    BY DEF MessagesInv, Typed
  <2>3. WholeMessagesOnce'
    BY <2>1, <2>2, SameReads
  <2> QED BY <2>1, <2>2, <2>3, ReceiverFrame
<1> QED BY <1>1, <1>2, <1>3, <1>4, <1>5, <1>6, <1>7, <1>8, <1>9 DEF Next

\* Of every sequence of messages, whatever is lost, repeated or reordered on the way, and however
\* small the buffers are: recvmsg hands out whole messages, each once, and one that is to keep the
\* order after all that were sent before it.
THEOREM MessagesAreReadOnce ==
  ASSUME MessagesAssumption
  PROVE  Spec => []WholeMessagesOnce
<1>1. Init => MessagesInv
  BY MessagesStart
<1>2. MessagesInv /\ [Next]_vars => MessagesInv'
  BY MessagesGoOn
<1>3. MessagesInv => WholeMessagesOnce
  BY DEF MessagesInv
<1> QED BY <1>1, <1>2, <1>3, PTL DEF Spec

-----------------------------------------------------------------------------
(* A data channel: sequences. *)

\* q without its element at place i.
Without(q, i) == SubSeq(q, 1, i - 1) \o SubSeq(q, i + 1, Len(q))

\* Taking an element out of a sequence keeps the others, in order.
LEMMA WithoutElement ==
  ASSUME NEW S, NEW q \in Seq(S), NEW i \in 1 .. Len(q)
  PROVE  /\ Without(q, i) \in Seq(S)
         /\ Len(Without(q, i)) = Len(q) - 1
         /\ \A j \in 1 .. Len(q) - 1 :
              Without(q, i)[j] = IF j < i THEN q[j] ELSE q[j + 1]
<1> DEFINE a == SubSeq(q, 1, i - 1)
           b == SubSeq(q, i + 1, Len(q))
<1>1. Len(q) \in Nat /\ \A j \in 1 .. Len(q) : q[j] \in S
  BY ElementOfSeq, LenProperties
<1>2. a \in Seq(S) /\ Len(a) = i - 1 /\ \A j \in 1 .. i - 1 : a[j] = q[j]
  <2>1. \A j \in 1 .. i - 1 : q[j] \in S
    BY <1>1
  <2> QED
    BY <1>1, <2>1, SubSeqProperties
<1>3. /\ b \in Seq(S) /\ Len(b) = Len(q) - i
      /\ \A j \in 1 .. Len(q) - i : b[j] = q[i + j]
  <2>1. \A j \in i + 1 .. Len(q) : q[j] \in S
    BY <1>1
  <2>2. /\ b \in Seq(S) /\ Len(b) = IF i + 1 <= Len(q) THEN Len(q) - (i + 1) + 1 ELSE 0
        /\ \A j \in 1 .. Len(q) - (i + 1) + 1 : b[j] = q[(i + 1) + j - 1]
    BY <1>1, <2>1, SubSeqProperties
  <2> QED
    BY <1>1, <2>2
<1> HIDE DEF a, b
<1>4. /\ a \o b \in Seq(S) /\ Len(a \o b) = Len(q) - 1
      /\ \A j \in 1 .. Len(q) - 1 : (a \o b)[j] = IF j <= i - 1 THEN a[j] ELSE b[j - (i - 1)]
  <2>1. /\ a \o b \in Seq(S)
        /\ Len(a \o b) = Len(a) + Len(b)
        /\ \A j \in 1 .. Len(a) + Len(b) :
             (a \o b)[j] = IF j <= Len(a) THEN a[j] ELSE b[j - Len(a)]
    BY <1>2, <1>3, ConcatProperties
  <2>2. Len(a) + Len(b) = Len(q) - 1
    BY <1>1, <1>2, <1>3
  <2>3. Len(a) = i - 1
    BY <1>2
  <2> QED
    BY <2>1, <2>2, <2>3
<1>5. ASSUME NEW j \in 1 .. Len(q) - 1
      PROVE  (a \o b)[j] = IF j < i THEN q[j] ELSE q[j + 1]
  <2>1. CASE j < i
    BY <1>1, <1>2, <1>4, <2>1
  <2>2. CASE ~(j < i)
    <3>1. j - (i - 1) \in 1 .. Len(q) - i /\ i + (j - (i - 1)) = j + 1
      BY <1>1, <2>2
    <3> QED
      BY <1>1, <1>3, <1>4, <2>2, <3>1
  <2> QED
    BY <2>1, <2>2
<1>6. Without(q, i) = a \o b
  BY DEF Without, a, b
<1> QED
  BY <1>4, <1>5, <1>6

\* What is in a sequence with one more element.
LEMMA AppendElement ==
  ASSUME NEW S, NEW q \in Seq(S), NEW e \in S
  PROVE  /\ Append(q, e) \in Seq(S)
         /\ Len(Append(q, e)) = Len(q) + 1
         /\ \A j \in 1 .. Len(q) : Append(q, e)[j] = q[j]
         /\ Append(q, e)[Len(q) + 1] = e
  BY AppendProperties

\* What is in the tail of a sequence.
LEMMA TailElements ==
  ASSUME NEW S, NEW q \in Seq(S), q # <<>>
  PROVE  /\ Head(q) = q[1] /\ 1 \in 1 .. Len(q) /\ Head(q) \in S
         /\ Tail(q) \in Seq(S)
         /\ Len(Tail(q)) = Len(q) - 1
         /\ \A j \in 1 .. Len(q) - 1 : Tail(q)[j] = q[j + 1]
  OBVIOUS

-----------------------------------------------------------------------------
(* What the invariant says of the next block of a session. *)

\* The queue and the connection as sequences of blocks.
LEMMA Sequences ==
  ASSUME Ch!TypeOK
  PROVE  /\ DOMAIN queue = 1 .. Len(queue) /\ Len(queue) \in Nat
         /\ DOMAIN line = 1 .. Len(line) /\ Len(line) \in Nat
         /\ \A i \in DOMAIN queue : queue[i] \in Ch!Block
         /\ \A i \in DOMAIN line : line[i] \in Ch!Block
         /\ \A s \in Sessions :
              /\ sent[s] \in 0 .. MaxBlocks
              /\ received[s] \in Seq(1 .. MaxBlocks)
              /\ Len(received[s]) \in Nat /\ DOMAIN received[s] = 1 .. Len(received[s])
              /\ pc[s] \in Ch!Places
<1>1. queue \in Seq(Ch!Block) /\ line \in Seq(Ch!Block)
  BY DEF Ch!TypeOK
<1>2. \A s \in Sessions : sent[s] \in 0 .. MaxBlocks /\ received[s] \in Seq(1 .. MaxBlocks) /\ pc[s] \in Ch!Places
  BY DEF Ch!TypeOK
<1>3. /\ DOMAIN queue = 1 .. Len(queue) /\ Len(queue) \in Nat
      /\ DOMAIN line = 1 .. Len(line) /\ Len(line) \in Nat
  BY <1>1, LenProperties
<1>4. \A i \in 1 .. Len(queue) : queue[i] \in Ch!Block
  BY <1>1, ElementOfSeq
<1>5. \A i \in 1 .. Len(line) : line[i] \in Ch!Block
  BY <1>1, ElementOfSeq
<1>6. \A s \in Sessions : Len(received[s]) \in Nat /\ DOMAIN received[s] = 1 .. Len(received[s])
  BY <1>2, LenProperties
<1> QED
  BY <1>2, <1>3, <1>4, <1>5, <1>6

\* If anything is on its way to s, then so is the block that s is to get next.
LEMMA NextIsOnTheWay ==
  ASSUME Ch!IInv, NEW b \in Ch!Block, Ch!OnTheWay(b)
  PROVE  Ch!OnTheWay([session |-> b.session, n |-> Len(received[b.session]) + 1])
<1>1. b.session \in Sessions /\ b.n \in Nat
  BY BoundsAssumption DEF Ch!Block
<1>2. /\ Len(received[b.session]) < b.n
      /\ \A m \in Len(received[b.session]) + 1 .. b.n : Ch!OnTheWay([session |-> b.session, n |-> m])
  BY <1>1 DEF Ch!IInv, Ch!NothingLost
<1>3. Len(received[b.session]) \in Nat
  BY <1>1, Sequences DEF Ch!IInv
<1>4. Len(received[b.session]) + 1 \in Len(received[b.session]) + 1 .. b.n
  BY <1>1, <1>2, <1>3
<1> QED
  BY <1>2, <1>4

\* The first block for s in the queue is the one that s is to get next.
LEMMA FirstIsNext ==
  ASSUME Ch!IInv, NEW s \in Sessions, Ch!Queued(s) # {}
  PROVE  /\ Ch!First(s) \in 1 .. Len(queue)
         /\ queue[Ch!First(s)] = [session |-> s, n |-> Len(received[s]) + 1]
<1> DEFINE next == [session |-> s, n |-> Len(received[s]) + 1]
<1>1. DOMAIN queue = 1 .. Len(queue) /\ Len(queue) \in Nat /\ Len(received[s]) \in Nat
  BY Sequences DEF Ch!IInv
<1>2. PICK k \in DOMAIN queue : queue[k].session = s
  BY DEF Ch!Queued
<1>3. queue[k] \in Ch!Block /\ Ch!OnTheWay(queue[k])
  BY <1>2, Sequences DEF Ch!IInv, Ch!OnTheWay
<1>4. Ch!OnTheWay(next)
  BY <1>2, <1>3, NextIsOnTheWay
<1>5. queue[k].n \in Nat /\ Len(received[s]) < queue[k].n
  BY <1>2, <1>3, BoundsAssumption DEF Ch!IInv, Ch!NothingLost, Ch!Block
<1>6. \A t \in Sessions : pc[t] = "push" => hand[t] # next
  BY <1>1, <1>2, <1>5 DEF Ch!IInv, Ch!InOrder, Ch!Before
<1>7. \A j \in DOMAIN line : line[j] # next
  BY <1>1, <1>2, <1>5 DEF Ch!IInv, Ch!InOrder, Ch!Before
<1>8. PICK i \in DOMAIN queue : queue[i] = next
  BY <1>4, <1>6, <1>7 DEF Ch!OnTheWay
<1>9. ASSUME NEW j \in Ch!Queued(s) PROVE i <= j
  <2>1. j \in DOMAIN queue /\ queue[j].session = s
    BY DEF Ch!Queued
  <2>2. queue[j] \in Ch!Block /\ Ch!OnTheWay(queue[j])
    BY <2>1, Sequences DEF Ch!IInv, Ch!OnTheWay
  <2>3. queue[j].n \in Nat /\ Len(received[s]) < queue[j].n
    BY <2>1, <2>2, BoundsAssumption DEF Ch!IInv, Ch!NothingLost, Ch!Block
  <2>4. j < i => queue[j].n < queue[i].n
    BY <1>8, <2>1 DEF Ch!IInv, Ch!InOrder, Ch!Ordered
  <2> QED
    BY <1>1, <1>8, <2>1, <2>3, <2>4
<1>10. i \in Ch!Queued(s)
  BY <1>8 DEF Ch!Queued
<1>11. Ch!First(s) \in Ch!Queued(s) /\ \A j \in Ch!Queued(s) : Ch!First(s) <= j
  BY <1>9, <1>10 DEF Ch!First
<1>12. Ch!First(s) = i
  <2>1. Ch!First(s) \in 1 .. Len(queue) /\ Ch!First(s) <= i /\ i <= Ch!First(s)
    BY <1>1, <1>9, <1>10, <1>11 DEF Ch!Queued
  <2> QED
    BY <1>1, <2>1
<1> QED
  BY <1>1, <1>8, <1>12

-----------------------------------------------------------------------------
(* NothingLost, by what a step does to the blocks on their way. *)

\* The m-th block sent to s.
BlockOf(s, m) == [session |-> s, n |-> m]

\* A step that only moves blocks on.
LEMMA MovedOn ==
  ASSUME Ch!TypeOK, Ch!NothingLost, UNCHANGED <<sent, received>>, connected' => connected,
         \A b \in Ch!Block : Ch!OnTheWay(b)' <=> Ch!OnTheWay(b)
  PROVE  Ch!NothingLost'
<1> SUFFICES ASSUME NEW s \in Sessions
             PROVE  /\ \A i \in DOMAIN received[s] : received[s][i] = i
                    /\ Len(received[s]) <= sent[s]
                    /\ \A b \in Ch!Block : b.session = s /\ Ch!OnTheWay(b)' =>
                         /\ Len(received[s]) < b.n /\ b.n <= sent[s]
                         /\ \A m \in Len(received[s]) + 1 .. b.n : Ch!OnTheWay(BlockOf(s, m))'
                    /\ connected' => \A m \in Len(received[s]) + 1 .. sent[s] : Ch!OnTheWay(BlockOf(s, m))'
  BY DEF Ch!NothingLost, BlockOf, Ch!OnTheWay
<1>1. sent[s] \in 0 .. MaxBlocks /\ Len(received[s]) \in Nat
  BY Sequences
<1>2. \A m \in Len(received[s]) + 1 .. sent[s] : BlockOf(s, m) \in Ch!Block
  BY <1>1, BoundsAssumption DEF BlockOf, Ch!Block
<1>3. ASSUME NEW b \in Ch!Block, b.session = s, Ch!OnTheWay(b)'
      PROVE  /\ Len(received[s]) < b.n /\ b.n <= sent[s]
             /\ \A m \in Len(received[s]) + 1 .. b.n : Ch!OnTheWay(BlockOf(s, m))'
  <2>1. b.n \in Nat
    BY BoundsAssumption DEF Ch!Block
  <2>2. Ch!OnTheWay(b)
    BY <1>3
  <2>3. /\ Len(received[s]) < b.n /\ b.n <= sent[s]
        /\ \A m \in Len(received[s]) + 1 .. b.n : Ch!OnTheWay(BlockOf(s, m))
    BY <1>3, <2>2 DEF Ch!NothingLost, BlockOf
  <2>4. \A m \in Len(received[s]) + 1 .. b.n : BlockOf(s, m) \in Ch!Block
    BY <1>1, <1>2, <2>1, <2>3
  <2> QED
    BY <2>3, <2>4
<1>4. connected' => \A m \in Len(received[s]) + 1 .. sent[s] : Ch!OnTheWay(BlockOf(s, m))'
  <2>1. connected => \A m \in Len(received[s]) + 1 .. sent[s] : Ch!OnTheWay(BlockOf(s, m))
    BY DEF Ch!NothingLost, BlockOf
  <2> QED
    BY <1>2, <2>1
<1>5. (\A i \in DOMAIN received[s] : received[s][i] = i) /\ Len(received[s]) <= sent[s]
  BY DEF Ch!NothingLost
<1> QED
  BY <1>3, <1>4, <1>5

\* A step that gives session r the block that it is to get next.
LEMMA GotNext ==
  ASSUME Ch!TypeOK, Ch!NothingLost, UNCHANGED <<sent, connected>>,
         NEW r \in Sessions,
         BlockOf(r, Len(received[r]) + 1) \in Ch!Block,
         Ch!OnTheWay(BlockOf(r, Len(received[r]) + 1)),
         received' = [received EXCEPT ![r] = Append(@, Len(@) + 1)],
         \A b \in Ch!Block : Ch!OnTheWay(b)' <=> Ch!OnTheWay(b) /\ b # BlockOf(r, Len(received[r]) + 1)
  PROVE  /\ Ch!NothingLost'
         /\ Len(received[r]) < sent[r]
<1> DEFINE next == BlockOf(r, Len(received[r]) + 1)
<1>1. \A s \in Sessions : sent[s] \in 0 .. MaxBlocks /\ Len(received[s]) \in Nat /\ DOMAIN received[s] = 1 .. Len(received[s])
  BY Sequences
<1>2. \A s \in Sessions, m \in Nat : Len(received[s]) + 1 <= m /\ m <= sent[s] => BlockOf(s, m) \in Ch!Block
  BY <1>1, BoundsAssumption DEF BlockOf, Ch!Block
<1>3. next.session = r /\ next.n = Len(received[r]) + 1
  BY DEF BlockOf
<1>4. Len(received[r]) + 1 <= sent[r]
  BY <1>3 DEF Ch!NothingLost
<1>5. /\ Len(received'[r]) = Len(received[r]) + 1 /\ DOMAIN received'[r] = 1 .. Len(received[r]) + 1
      /\ \A i \in 1 .. Len(received[r]) : received'[r][i] = received[r][i]
      /\ received'[r][Len(received[r]) + 1] = Len(received[r]) + 1
  <2>1. Len(received[r]) + 1 \in 1 .. MaxBlocks /\ received[r] \in Seq(1 .. MaxBlocks)
    BY <1>1, <1>4, BoundsAssumption, Sequences
  <2>2. received'[r] = Append(received[r], Len(received[r]) + 1)
    BY DEF Ch!TypeOK
  <2>3. received'[r] \in Seq(1 .. MaxBlocks)
    <3> DEFINE e == Len(received[r]) + 1
               S == 1 .. MaxBlocks
               q == received[r]
    <3>1. e \in S /\ q \in Seq(S) /\ received'[r] = Append(q, e)
      BY <2>1, <2>2
    <3> HIDE DEF e, S, q
    <3>2. received'[r] \in Seq(S)
      BY ZenonT(60), <3>1, AppendElement
    <3> QED
      BY <3>2 DEF S
  <2> QED
    BY <2>1, <2>2, <2>3, AppendElement, LenProperties
<1>6. \A s \in Sessions : s # r => received'[s] = received[s]
  BY DEF Ch!TypeOK
<1>7. ASSUME NEW s \in Sessions
      PROVE  (\A i \in DOMAIN received'[s] : received'[s][i] = i) /\ Len(received'[s]) <= sent[s]
  <2>1. CASE s = r
    <3>1. ASSUME NEW i \in 1 .. Len(received[r]) + 1 PROVE received'[r][i] = i
      <4>1. CASE i = Len(received[r]) + 1
        BY <1>5, <4>1
      <4>2. CASE i # Len(received[r]) + 1
        <5>1. i \in 1 .. Len(received[r])
          BY <1>1, <4>2
        <5> QED
          BY <1>1, <1>5, <5>1 DEF Ch!NothingLost
      <4> QED
        BY <4>1, <4>2
    <3> QED
      BY <1>4, <1>5, <2>1, <3>1
  <2>2. CASE s # r
    BY <1>6, <2>2 DEF Ch!NothingLost
  <2> QED
    BY <2>1, <2>2
<1>8. \A s \in Sessions : Len(received'[s]) = IF s = r THEN Len(received[r]) + 1 ELSE Len(received[s])
  BY <1>5, <1>6
<1>9. ASSUME NEW s \in Sessions, NEW m \in Nat, BlockOf(s, m) \in Ch!Block,
             Ch!OnTheWay(BlockOf(s, m)), Len(received'[s]) + 1 <= m
      PROVE  Ch!OnTheWay(BlockOf(s, m))'
  <2>1. BlockOf(s, m) # next
    BY <1>1, <1>8, <1>9 DEF BlockOf
  <2> QED
    BY <1>9, <2>1 DEF BlockOf
<1>10. ASSUME NEW s \in Sessions, NEW b \in Ch!Block, b.session = s, Ch!OnTheWay(b)'
       PROVE  /\ Len(received'[s]) < b.n /\ b.n <= sent[s]
              /\ \A m \in Len(received'[s]) + 1 .. b.n : Ch!OnTheWay(BlockOf(s, m))'
  <2>1. b.n \in Nat /\ b = BlockOf(s, b.n)
    BY <1>10, BoundsAssumption DEF Ch!Block, BlockOf
  <2>2. Ch!OnTheWay(b) /\ b # next
    BY <1>10
  <2>3. /\ Len(received[s]) < b.n /\ b.n <= sent[s]
        /\ \A m \in Len(received[s]) + 1 .. b.n : Ch!OnTheWay(BlockOf(s, m))
    BY <1>10, <2>2 DEF Ch!NothingLost, BlockOf
  <2>4. Len(received'[s]) < b.n
    <3>1. s = r => b.n # Len(received[r]) + 1
      BY <2>1, <2>2
    <3> QED
      BY <1>1, <1>8, <2>1, <2>3, <3>1
  <2>5. ASSUME NEW m \in Len(received'[s]) + 1 .. b.n PROVE Ch!OnTheWay(BlockOf(s, m))'
    <3>1. m \in Nat /\ m \in Len(received[s]) + 1 .. b.n /\ Len(received'[s]) + 1 <= m /\ m <= sent[s]
      BY <1>1, <1>8, <2>1, <2>3
    <3>2. BlockOf(s, m) \in Ch!Block
      BY <1>1, <1>2, <3>1
    <3> QED
      BY <1>9, <2>3, <3>1, <3>2
  <2> QED
    BY <2>3, <2>4, <2>5
<1>11. ASSUME NEW s \in Sessions, connected, NEW m \in Len(received'[s]) + 1 .. sent[s]
       PROVE  Ch!OnTheWay(BlockOf(s, m))'
  <2>1. m \in Nat /\ m \in Len(received[s]) + 1 .. sent[s] /\ Len(received'[s]) + 1 <= m /\ m <= sent[s]
    BY <1>1, <1>8
  <2>2. Ch!OnTheWay(BlockOf(s, m))
    BY <1>11, <2>1 DEF Ch!NothingLost, BlockOf
  <2>3. BlockOf(s, m) \in Ch!Block
    BY <1>1, <1>2, <2>1
  <2> QED
    BY <1>9, <2>1, <2>2, <2>3
<1>12. Ch!NothingLost'
  BY <1>7, <1>10, <1>11 DEF Ch!NothingLost, BlockOf, Ch!OnTheWay
<1> QED
  BY <1>1, <1>4, <1>12

\* A step that sends r one more block.
LEMMA SentNext ==
  ASSUME Ch!TypeOK, Ch!NothingLost, UNCHANGED <<received, connected>>,
         NEW r \in Sessions,
         BlockOf(r, sent[r] + 1) \in Ch!Block,
         sent' = [sent EXCEPT ![r] = @ + 1],
         connected,
         \A b \in Ch!Block : Ch!OnTheWay(b)' <=> Ch!OnTheWay(b) \/ b = BlockOf(r, sent[r] + 1)
  PROVE  Ch!NothingLost'
<1> DEFINE new == BlockOf(r, sent[r] + 1)
<1>1. \A s \in Sessions : sent[s] \in 0 .. MaxBlocks /\ Len(received[s]) \in Nat
  BY Sequences
<1>2. \A s \in Sessions : sent'[s] = IF s = r THEN sent[r] + 1 ELSE sent[s]
  BY DEF Ch!TypeOK
<1>3. \A s \in Sessions, m \in Nat : Len(received[s]) + 1 <= m /\ m <= sent[s] => BlockOf(s, m) \in Ch!Block
  BY <1>1, BoundsAssumption DEF BlockOf, Ch!Block
<1>4. ASSUME NEW s \in Sessions, NEW m \in Len(received[s]) + 1 .. sent'[s]
      PROVE  Ch!OnTheWay(BlockOf(s, m))'
  <2>1. CASE s = r /\ m = sent[r] + 1
    BY <2>1
  <2>2. CASE ~(s = r /\ m = sent[r] + 1)
    <3>1. m \in Nat /\ m \in Len(received[s]) + 1 .. sent[s]
      BY <1>1, <1>2, <2>2
    <3>2. Ch!OnTheWay(BlockOf(s, m))
      BY <3>1 DEF Ch!NothingLost, BlockOf
    <3> QED
      BY <1>1, <1>3, <3>1, <3>2
  <2> QED
    BY <2>1, <2>2
<1>5. ASSUME NEW s \in Sessions
      PROVE  (\A i \in DOMAIN received[s] : received[s][i] = i) /\ Len(received[s]) <= sent'[s]
  BY <1>1, <1>2 DEF Ch!NothingLost
<1>6. ASSUME NEW s \in Sessions, NEW b \in Ch!Block, b.session = s, Ch!OnTheWay(b)'
      PROVE  /\ Len(received[s]) < b.n /\ b.n <= sent'[s]
             /\ \A m \in Len(received[s]) + 1 .. b.n : Ch!OnTheWay(BlockOf(s, m))'
  <2>1. b.n \in Nat
    BY BoundsAssumption DEF Ch!Block
  <2>2. Len(received[s]) < b.n /\ b.n <= sent'[s]
    <3>1. CASE Ch!OnTheWay(b)
      <4>1. Len(received[s]) < b.n /\ b.n <= sent[s]
        BY <1>6, <3>1 DEF Ch!NothingLost
      <4> QED
        BY <1>1, <1>2, <2>1, <4>1
    <3>2. CASE b = new
      <4>1. s = r /\ b.n = sent[r] + 1
        BY <1>6, <3>2 DEF BlockOf
      <4> QED
        BY <1>1, <1>2, <4>1 DEF Ch!NothingLost
    <3> QED
      BY <1>6, <3>1, <3>2
  <2>3. \A m \in Len(received[s]) + 1 .. b.n : m \in Len(received[s]) + 1 .. sent'[s]
    BY <1>1, <1>2, <2>1, <2>2
  <2> QED
    BY <1>4, <2>2, <2>3
<1> QED
  BY <1>4, <1>5, <1>6 DEF Ch!NothingLost, BlockOf, Ch!OnTheWay

-----------------------------------------------------------------------------
(* Steps that move no block. *)

\* A thread goes from one place to another, and no block moves.
LEMMA Walks ==
  ASSUME Ch!IInv, NEW s \in Sessions, NEW place \in Ch!Places \ {"push"}, pc[s] # "push",
         Ch!Goto(s, place),
         UNCHANGED <<toSelf, sent, line, connected, queue, hand, received>>,
         rcvLock' \in SUBSET Sessions, call' \in [Sessions -> {"recv", "recvfile"}]
  PROVE  Ch!TypeOK' /\ Ch!InOrder' /\ Ch!NothingLost'
<1>1. pc' \in [Sessions -> Ch!Places] /\ \A t \in Sessions : pc'[t] = "push" <=> pc[t] = "push"
  BY DEF Ch!IInv, Ch!TypeOK, Ch!Goto
<1>2. Ch!TypeOK'
  BY <1>1 DEF Ch!IInv, Ch!TypeOK, Ch!Block
<1>3. Ch!InOrder'
  BY <1>1 DEF Ch!IInv, Ch!InOrder, Ch!Ordered, Ch!Before
<1>4. \A b \in Ch!Block : Ch!OnTheWay(b)' <=> Ch!OnTheWay(b)
  BY <1>1 DEF Ch!OnTheWay
<1>5. Ch!NothingLost'
  BY <1>4, MovedOn DEF Ch!IInv
<1> QED
  BY <1>2, <1>3, <1>5

LEMMA CallStep ==
  ASSUME FileSessions = {}, Ch!IInv, NEW s \in Sessions, Ch!Call(s)
  PROVE  Ch!IInv'
<1>1. call' = [call EXCEPT ![s] = "recv"] /\ Ch!Goto(s, "check") /\ rcvLock' = rcvLock
  BY DEF Ch!Call
<1>2. /\ call' \in [Sessions -> {"recv", "recvfile"}] /\ \A t \in Sessions : call'[t] = "recv"
      /\ rcvLock' \in SUBSET Sessions
  BY <1>1 DEF Ch!IInv, Ch!TypeOK, Ch!LockHeld
<1>3. Ch!TypeOK' /\ Ch!InOrder' /\ Ch!NothingLost'
  BY <1>1, <1>2, Walks DEF Ch!Call, Ch!Places
<1>4. Ch!LockHeld'
  BY <1>1, <1>2 DEF Ch!IInv, Ch!TypeOK, Ch!LockHeld, Ch!Goto, Ch!Call
<1>5. Ch!ReadsWhatIsNext'
  BY <1>1 DEF Ch!IInv, Ch!TypeOK, Ch!ReadsWhatIsNext, Ch!Goto, Ch!Call
<1> QED
  BY <1>3, <1>4, <1>5 DEF Ch!IInv

LEMMA LeaveStep ==
  ASSUME Ch!IInv, NEW s \in Sessions, Ch!Leave(s)
  PROVE  Ch!IInv'
<1>1. rcvLock' \in SUBSET Sessions /\ call' \in [Sessions -> {"recv", "recvfile"}]
  BY DEF Ch!Leave, Ch!IInv, Ch!TypeOK
<1>2. Ch!TypeOK' /\ Ch!InOrder' /\ Ch!NothingLost'
  BY <1>1, Walks DEF Ch!Leave, Ch!Places
<1>3. Ch!LockHeld'
  BY DEF Ch!IInv, Ch!TypeOK, Ch!LockHeld, Ch!Goto, Ch!Leave
<1>4. Ch!ReadsWhatIsNext'
  BY DEF Ch!IInv, Ch!TypeOK, Ch!ReadsWhatIsNext, Ch!Goto, Ch!Leave
<1> QED
  BY <1>2, <1>3, <1>4 DEF Ch!IInv

LEMMA TryLockStep ==
  ASSUME Ch!IInv, NEW s \in Sessions, Ch!TryLock(s)
  PROVE  Ch!IInv'
<1>1. rcvLock' \in SUBSET Sessions /\ call' \in [Sessions -> {"recv", "recvfile"}]
  BY DEF Ch!TryLock, Ch!IInv, Ch!TypeOK
<1>2. Ch!TypeOK' /\ Ch!InOrder' /\ Ch!NothingLost'
  <2>1. CASE rcvLock = {}
    BY <1>1, <2>1, Walks DEF Ch!TryLock, Ch!Places
  <2>2. CASE rcvLock # {}
    BY <1>1, <2>2, Walks DEF Ch!TryLock, Ch!Places
  <2> QED
    BY <2>1, <2>2
<1>3. Ch!LockHeld'
  BY ZenonT(60) DEF Ch!IInv, Ch!TypeOK, Ch!LockHeld, Ch!Goto, Ch!TryLock
<1>4. Ch!ReadsWhatIsNext'
  BY DEF Ch!IInv, Ch!TypeOK, Ch!ReadsWhatIsNext, Ch!Goto, Ch!TryLock
<1> QED
  BY <1>2, <1>3, <1>4 DEF Ch!IInv

LEMMA ReadFailsStep ==
  ASSUME Ch!IInv, NEW s \in Sessions, Ch!ReadFails(s)
  PROVE  Ch!IInv'
<1>1. rcvLock' \in SUBSET Sessions /\ call' \in [Sessions -> {"recv", "recvfile"}]
  BY DEF Ch!ReadFails, Ch!IInv, Ch!TypeOK
<1>2. Ch!TypeOK' /\ Ch!InOrder' /\ Ch!NothingLost'
  BY <1>1, Walks DEF Ch!ReadFails, Ch!Places
<1>3. Ch!LockHeld'
  BY DEF Ch!IInv, Ch!TypeOK, Ch!LockHeld, Ch!Goto, Ch!ReadFails
<1>4. Ch!ReadsWhatIsNext'
  BY DEF Ch!IInv, Ch!TypeOK, Ch!ReadsWhatIsNext, Ch!Goto, Ch!ReadFails
<1> QED
  BY <1>2, <1>3, <1>4 DEF Ch!IInv

\* The queue has nothing for s: on to the lock, or with it to the connection.
LEMMA NothingQueuedStep ==
  ASSUME Ch!IInv, NEW s \in Sessions, Ch!CheckQueue(s) \/ Ch!Recheck(s), Ch!Queued(s) = {}
  PROVE  Ch!IInv'
<1>1. rcvLock' \in SUBSET Sessions /\ call' \in [Sessions -> {"recv", "recvfile"}]
  BY DEF Ch!CheckQueue, Ch!Recheck, Ch!IInv, Ch!TypeOK
<1>2. Ch!TypeOK' /\ Ch!InOrder' /\ Ch!NothingLost'
  <2>1. CASE Ch!CheckQueue(s)
    BY <1>1, <2>1, Walks DEF Ch!CheckQueue, Ch!Places
  <2>2. CASE Ch!Recheck(s) /\ toSelf
    BY <1>1, <2>2, Walks DEF Ch!Recheck, Ch!Places
  <2>3. CASE Ch!Recheck(s) /\ ~toSelf
    BY <1>1, <2>3, Walks DEF Ch!Recheck, Ch!Places
  <2> QED
    BY <2>1, <2>2, <2>3
<1>3. Ch!LockHeld'
  BY ZenonT(60) DEF Ch!IInv, Ch!TypeOK, Ch!LockHeld, Ch!Goto, Ch!CheckQueue, Ch!Recheck
<1>4. Ch!ReadsWhatIsNext'
  BY DEF Ch!IInv, Ch!TypeOK, Ch!ReadsWhatIsNext, Ch!Goto, Ch!CheckQueue, Ch!Recheck, Ch!Queued
<1> QED
  BY <1>2, <1>3, <1>4 DEF Ch!IInv

-----------------------------------------------------------------------------
(* Steps that move blocks. *)

\* Adding to the end of what is on its way keeps the types of got.
LEMMA GotTyped ==
  ASSUME Ch!TypeOK, NEW s \in Sessions, NEW m \in 1 .. MaxBlocks
  PROVE  [received EXCEPT ![s] = Append(@, m)] \in [Sessions -> Seq(1 .. MaxBlocks)]
<1> DEFINE S == 1 .. MaxBlocks
<1>1. received \in [Sessions -> Seq(S)] /\ m \in S
  BY DEF Ch!TypeOK
<1> HIDE DEF S
<1>2. Append(received[s], m) \in Seq(S)
  BY <1>1, AppendElement
<1>3. [received EXCEPT ![s] = Append(@, m)] \in [Sessions -> Seq(S)]
  BY <1>1, <1>2
<1> QED
  BY <1>3 DEF S

\* The queue has a block for s, which s takes.
LEMMA Taking ==
  ASSUME Ch!IInv, NEW s \in Sessions, Ch!CheckQueue(s) \/ Ch!Recheck(s), Ch!Queued(s) # {}
  PROVE  Ch!IInv' /\ Ch!FIFO!Receive(s)
<1> DEFINE i == Ch!First(s)
           m == Len(received[s]) + 1
           next == BlockOf(s, m)
           p(j) == IF j < i THEN j ELSE j + 1
<1>1. /\ i \in 1 .. Len(queue) /\ queue[i] = next
  BY FirstIsNext DEF BlockOf
<1>2. /\ DOMAIN queue = 1 .. Len(queue) /\ Len(queue) \in Nat /\ queue \in Seq(Ch!Block)
      /\ DOMAIN line = 1 .. Len(line) /\ Len(line) \in Nat /\ line \in Seq(Ch!Block)
  BY Sequences DEF Ch!IInv, Ch!TypeOK
<1>3. next \in Ch!Block /\ next.session = s /\ next.n = m /\ m \in 1 .. MaxBlocks
  BY <1>1, <1>2, Sequences DEF Ch!IInv, BlockOf, Ch!Block
<1>4. Ch!TakeFromQueue(s) /\ UNCHANGED <<toSelf, sent, line, connected, call, hand>>
  BY DEF Ch!CheckQueue, Ch!Recheck
<1>5. /\ queue' = Without(queue, i)
      /\ received' = [received EXCEPT ![s] = Append(@, m)]
      /\ pc' = [pc EXCEPT ![s] = "idle"]
  BY <1>1, <1>3, <1>4 DEF Ch!TakeFromQueue, Ch!Return, Ch!Goto, Without
<1>6. pc[s] \in {"check", "recheck"} /\ rcvLock' = rcvLock \ {s}
  BY DEF Ch!IInv, Ch!LockHeld, Ch!CheckQueue, Ch!Recheck
<1> HIDE DEF i, m, next
<1>7. /\ queue' \in Seq(Ch!Block) /\ Len(queue') = Len(queue) - 1
      /\ DOMAIN queue' = 1 .. Len(queue) - 1
      /\ \A j \in 1 .. Len(queue) - 1 : queue'[j] = queue[p(j)]
  <2>1. /\ queue' \in Seq(Ch!Block) /\ Len(queue') = Len(queue) - 1
        /\ \A j \in 1 .. Len(queue) - 1 : queue'[j] = IF j < i THEN queue[j] ELSE queue[j + 1]
    BY <1>1, <1>2, <1>5, WithoutElement
  <2> QED
    BY <2>1, LenProperties
<1>8. \A j \in DOMAIN queue' : p(j) \in DOMAIN queue /\ p(j) # i /\ queue'[j] = queue[p(j)]
  BY <1>1, <1>2, <1>7
<1>9. \A t \in Sessions : pc'[t] = "push" <=> pc[t] = "push"
  BY <1>5, <1>6 DEF Ch!IInv, Ch!TypeOK
<1>10. \A b \in Ch!Block : Ch!OnTheWay(b)' <=> Ch!OnTheWay(b) /\ b # next
  <2>1. ASSUME NEW b \in Ch!Block, Ch!OnTheWay(b)' PROVE Ch!OnTheWay(b) /\ b # next
    <3>1. CASE \E j \in DOMAIN queue' : queue'[j] = b
      <4>1. PICK j \in DOMAIN queue : j # i /\ queue[j] = b
        BY <1>8, <3>1
      <4>2. b # next
        <5>1. j \in 1 .. Len(queue) /\ (j < i \/ i < j)
          BY <1>1, <1>2, <4>1
        <5>2. queue[i].session = s /\ queue[i].n = m /\ m \in Nat
          BY <1>1, <1>3
        <5> QED
          BY <1>1, <1>2, <1>3, <4>1, <5>1, <5>2 DEF Ch!IInv, Ch!InOrder, Ch!Ordered
      <4> QED
        BY <4>1, <4>2 DEF Ch!OnTheWay
    <3>2. CASE \E t \in Sessions : pc'[t] = "push" /\ hand'[t] = b
      <4>1. PICK t \in Sessions : pc[t] = "push" /\ hand[t] = b
        BY <1>4, <1>9, <3>2
      <4>2. Ch!Before(queue[i], hand[t])
        BY <1>1, <1>2, <4>1 DEF Ch!IInv, Ch!InOrder
      <4> QED
        BY <1>1, <1>3, <4>1, <4>2 DEF Ch!OnTheWay, Ch!Before
    <3>3. CASE \E j \in DOMAIN line' : line'[j] = b
      <4>1. PICK j \in DOMAIN line : line[j] = b
        BY <1>4, <3>3
      <4>2. Ch!Before(queue[i], line[j])
        BY <1>1, <1>2, <4>1 DEF Ch!IInv, Ch!InOrder
      <4> QED
        BY <1>1, <1>3, <4>1, <4>2 DEF Ch!OnTheWay, Ch!Before
    <3> QED
      BY <2>1, <3>1, <3>2, <3>3 DEF Ch!OnTheWay
  <2>2. ASSUME NEW b \in Ch!Block, Ch!OnTheWay(b), b # next PROVE Ch!OnTheWay(b)'
    <3>1. CASE \E j \in DOMAIN queue : queue[j] = b
      <4>1. PICK j \in DOMAIN queue : queue[j] = b
        BY <3>1
      <4>2. CASE j < i
        <5>1. j \in DOMAIN queue' /\ queue'[j] = b
          BY <1>1, <1>2, <1>7, <4>1, <4>2
        <5> QED
          BY <5>1 DEF Ch!OnTheWay
      <4>3. CASE i < j
        <5>1. j - 1 \in DOMAIN queue' /\ queue'[j - 1] = b
          BY <1>1, <1>2, <1>7, <4>1, <4>3
        <5> QED
          BY <5>1 DEF Ch!OnTheWay
      <4> QED
        BY <1>1, <1>2, <2>2, <4>1, <4>2, <4>3
    <3>2. CASE \E t \in Sessions : pc[t] = "push" /\ hand[t] = b
      BY <1>4, <1>9, <3>2 DEF Ch!OnTheWay
    <3>3. CASE \E j \in DOMAIN line : line[j] = b
      BY <1>4, <3>3 DEF Ch!OnTheWay
    <3> QED
      BY <2>2, <3>1, <3>2, <3>3 DEF Ch!OnTheWay
  <2> QED
    BY <2>1, <2>2
<1>11. Ch!NothingLost' /\ Len(received[s]) < sent[s]
  <2>1. Ch!OnTheWay(next)
    BY <1>1, <1>2 DEF Ch!OnTheWay
  <2> QED
    BY <1>3, <1>4, <1>5, <1>10, <2>1, GotNext DEF Ch!IInv, m, next
<1>12. Ch!TypeOK'
  <2>1. received' \in [Sessions -> Seq(1 .. MaxBlocks)]
    BY <1>3, <1>5, GotTyped DEF Ch!IInv
  <2>2. pc' \in [Sessions -> Ch!Places] /\ rcvLock' \subseteq Sessions
    BY <1>5, <1>6 DEF Ch!IInv, Ch!TypeOK, Ch!Places
  <2> QED
    BY <1>4, <1>7, <1>9, <2>1, <2>2 DEF Ch!IInv, Ch!TypeOK, Ch!Block
<1>13. Ch!LockHeld'
  BY <1>4, <1>5, <1>6 DEF Ch!IInv, Ch!TypeOK, Ch!LockHeld
<1>14. Ch!ReadsWhatIsNext'
  <2>1. \A t \in Sessions : pc'[t] \in {"read", "push"} => pc'[t] = pc[t]
    BY <1>5 DEF Ch!IInv, Ch!TypeOK
  <2> QED
    BY <1>4, <1>8, <2>1 DEF Ch!IInv, Ch!ReadsWhatIsNext
<1>15. Ch!InOrder'
  <2>1. \A j, k \in DOMAIN queue' : j < k => p(j) < p(k)
    BY <1>1, <1>2, <1>7
  <2>2. Ch!Ordered(queue)'
    BY <1>8, <2>1 DEF Ch!IInv, Ch!InOrder, Ch!Ordered
  <2>3. Ch!Ordered(line)'
    BY <1>4 DEF Ch!IInv, Ch!InOrder, Ch!Ordered
  <2>4. \A j \in DOMAIN queue', k \in DOMAIN line' : Ch!Before(queue'[j], line'[k])
    BY <1>4, <1>8 DEF Ch!IInv, Ch!InOrder
  <2>5. \A t \in Sessions : pc'[t] = "push" =>
          /\ \A j \in DOMAIN queue' : Ch!Before(queue'[j], hand'[t])
          /\ \A j \in DOMAIN line' : Ch!Before(hand'[t], line'[j])
    BY <1>4, <1>8, <1>9 DEF Ch!IInv, Ch!InOrder
  <2> QED
    BY <2>2, <2>3, <2>4, <2>5 DEF Ch!InOrder, Ch!Before
<1>16. Ch!FIFO!Receive(s)
  BY <1>4, <1>5, <1>11 DEF Ch!FIFO!Receive, Ch!IInv, Ch!TypeOK, m
<1> QED
  BY <1>11, <1>12, <1>13, <1>14, <1>15, <1>16 DEF Ch!IInv

\* A block that is appended to a sequence which is all before it.
LEMMA OrderedAppend ==
  ASSUME NEW q \in Seq(Ch!Block), NEW b \in Ch!Block, Ch!Ordered(q),
         \A i \in DOMAIN q : Ch!Before(q[i], b)
  PROVE  /\ Append(q, b) \in Seq(Ch!Block) /\ Ch!Ordered(Append(q, b))
         /\ \A i \in DOMAIN Append(q, b) : Append(q, b)[i] = b \/ \E j \in DOMAIN q : Append(q, b)[i] = q[j]
         /\ \A j \in DOMAIN q : \E i \in DOMAIN Append(q, b) : Append(q, b)[i] = q[j]
         /\ \E i \in DOMAIN Append(q, b) : Append(q, b)[i] = b
<1> DEFINE r == Append(q, b)
<1>1. /\ r \in Seq(Ch!Block) /\ Len(r) = Len(q) + 1
      /\ \A j \in 1 .. Len(q) : r[j] = q[j]
      /\ r[Len(q) + 1] = b
  BY AppendElement
<1>2. /\ DOMAIN q = 1 .. Len(q) /\ Len(q) \in Nat
      /\ DOMAIN r = 1 .. Len(q) + 1
  BY <1>1, LenProperties
<1> HIDE DEF r
<1>3. \A i \in DOMAIN r : (i \in DOMAIN q /\ r[i] = q[i]) \/ (i = Len(q) + 1 /\ r[i] = b)
  BY <1>1, <1>2
<1>4. ASSUME NEW i \in DOMAIN r, NEW j \in DOMAIN r, i < j, r[i].session = r[j].session
      PROVE  r[i].n < r[j].n
  <2>1. i \in DOMAIN q /\ r[i] = q[i]
    BY <1>2, <1>3, <1>4
  <2>2. CASE j \in DOMAIN q /\ r[j] = q[j]
    BY <1>4, <2>1, <2>2 DEF Ch!Ordered
  <2>3. CASE r[j] = b
    BY <1>4, <2>1, <2>3 DEF Ch!Before
  <2> QED
    BY <1>3, <2>2, <2>3
<1>5. Ch!Ordered(r)
  BY <1>4 DEF Ch!Ordered
<1>6. \A j \in DOMAIN q : j \in DOMAIN r /\ r[j] = q[j]
  BY <1>1, <1>2
<1>7. Len(q) + 1 \in DOMAIN r
  BY <1>2
<1> QED
  BY <1>1, <1>3, <1>5, <1>6, <1>7 DEF r

LEMMA SendStep ==
  ASSUME Ch!IInv, NEW s \in Sessions, Ch!Send(s)
  PROVE  Ch!IInv' /\ Ch!FIFO!Send(s)
<1> DEFINE new == BlockOf(s, sent[s] + 1)
<1>1. /\ sent[s] \in 0 .. MaxBlocks /\ sent[s] < MaxBlocks /\ connected
      /\ sent' = [sent EXCEPT ![s] = @ + 1]
      /\ UNCHANGED <<toSelf, connected, rcvLock, pc, call, hand, received>>
      /\ IF toSelf THEN queue' = Append(queue, new) /\ line' = line
         ELSE line' = Append(line, new) /\ queue' = queue
  BY Sequences DEF Ch!IInv, Ch!Send, BlockOf
<1>2. new \in Ch!Block /\ new.session = s /\ new.n = sent[s] + 1
  BY <1>1, BoundsAssumption DEF BlockOf, Ch!Block
<1> HIDE DEF new
<1>3. queue \in Seq(Ch!Block) /\ line \in Seq(Ch!Block) /\ sent' \in [Sessions -> 0 .. MaxBlocks]
  BY <1>1, BoundsAssumption DEF Ch!IInv, Ch!TypeOK
<1>4. ASSUME NEW b \in Ch!Block, Ch!OnTheWay(b) PROVE Ch!Before(b, new) /\ b # new
  BY <1>1, <1>2, <1>4, BoundsAssumption DEF Ch!IInv, Ch!NothingLost, Ch!Block, Ch!Before
<1>5. /\ \A i \in DOMAIN queue : Ch!Before(queue[i], new)
      /\ \A i \in DOMAIN line : Ch!Before(line[i], new)
      /\ \A t \in Sessions : pc[t] = "push" => Ch!Before(hand[t], new)
  BY <1>4, Sequences DEF Ch!IInv, Ch!TypeOK, Ch!OnTheWay
<1>6. ASSUME toSelf
      PROVE  /\ \A b \in Ch!Block : Ch!OnTheWay(b)' <=> Ch!OnTheWay(b) \/ b = new
             /\ Ch!TypeOK' /\ Ch!ReadsWhatIsNext' /\ Ch!InOrder'
  <2>1. /\ queue' \in Seq(Ch!Block) /\ Ch!Ordered(queue')
        /\ \A i \in DOMAIN queue' : queue'[i] = new \/ \E j \in DOMAIN queue : queue'[i] = queue[j]
        /\ \A j \in DOMAIN queue : \E i \in DOMAIN queue' : queue'[i] = queue[j]
        /\ \E i \in DOMAIN queue' : queue'[i] = new
    <3>1. Ch!Ordered(queue)
      BY DEF Ch!IInv, Ch!InOrder
    <3>2. queue' = Append(queue, new)
      BY <1>1, <1>6
    <3> QED
      BY <1>2, <1>3, <1>5, <3>1, <3>2, OrderedAppend
  <2>2. line = <<>> /\ line' = <<>> /\ \A t \in Sessions : pc'[t] \notin {"read", "push"}
    BY <1>1, <1>6 DEF Ch!IInv, Ch!ReadsWhatIsNext
  <2>3. \A b \in Ch!Block : Ch!OnTheWay(b)' <=> Ch!OnTheWay(b) \/ b = new
    BY <1>1, <2>1, <2>2 DEF Ch!OnTheWay
  <2>4. Ch!ReadsWhatIsNext'
    BY <1>1, <2>2 DEF Ch!ReadsWhatIsNext
  <2>5. Ch!InOrder'
    BY <2>1, <2>2 DEF Ch!InOrder, Ch!Ordered
  <2>6. Ch!TypeOK'
    BY <1>1, <1>3, <2>1, <2>2 DEF Ch!IInv, Ch!TypeOK, Ch!Block
  <2> QED
    BY <2>3, <2>4, <2>5, <2>6
<1>7. ASSUME ~toSelf
      PROVE  /\ \A b \in Ch!Block : Ch!OnTheWay(b)' <=> Ch!OnTheWay(b) \/ b = new
             /\ Ch!TypeOK' /\ Ch!ReadsWhatIsNext' /\ Ch!InOrder'
  <2>1. /\ line' \in Seq(Ch!Block) /\ Ch!Ordered(line')
        /\ \A i \in DOMAIN line' : line'[i] = new \/ \E j \in DOMAIN line : line'[i] = line[j]
        /\ \A j \in DOMAIN line : \E i \in DOMAIN line' : line'[i] = line[j]
        /\ \E i \in DOMAIN line' : line'[i] = new
    <3>1. Ch!Ordered(line)
      BY DEF Ch!IInv, Ch!InOrder
    <3>2. line' = Append(line, new)
      BY <1>1, <1>7
    <3> QED
      BY <1>2, <1>3, <1>5, <3>1, <3>2, OrderedAppend
  <2>2. \A b \in Ch!Block : Ch!OnTheWay(b)' <=> Ch!OnTheWay(b) \/ b = new
    BY <1>1, <1>7, <2>1 DEF Ch!OnTheWay
  <2>3. Ch!ReadsWhatIsNext'
    BY <1>1, <1>7 DEF Ch!IInv, Ch!ReadsWhatIsNext
  <2>4. Ch!Ordered(queue)'
    BY <1>1, <1>7 DEF Ch!IInv, Ch!InOrder, Ch!Ordered
  <2>5. \A i \in DOMAIN queue', j \in DOMAIN line' : Ch!Before(queue'[i], line'[j])
    BY <1>1, <1>5, <1>7, <2>1 DEF Ch!IInv, Ch!InOrder
  <2>6. \A t \in Sessions : pc'[t] = "push" =>
          /\ \A i \in DOMAIN queue' : Ch!Before(queue'[i], hand'[t])
          /\ \A j \in DOMAIN line' : Ch!Before(hand'[t], line'[j])
    BY <1>1, <1>5, <1>7, <2>1 DEF Ch!IInv, Ch!InOrder
  <2>7. Ch!InOrder'
    BY <2>1, <2>4, <2>5, <2>6 DEF Ch!InOrder, Ch!Ordered, Ch!Before
  <2>8. Ch!TypeOK'
    BY <1>1, <1>3, <1>7, <2>1 DEF Ch!IInv, Ch!TypeOK, Ch!Block
  <2> QED
    BY <2>2, <2>3, <2>7, <2>8
<1>8. Ch!NothingLost'
  BY <1>1, <1>2, <1>6, <1>7, SentNext DEF Ch!IInv, new
<1>9. Ch!LockHeld'
  BY <1>1 DEF Ch!IInv, Ch!LockHeld
<1>10. Ch!FIFO!Send(s)
  BY <1>1 DEF Ch!FIFO!Send
<1> QED
  BY <1>6, <1>7, <1>8, <1>9, <1>10 DEF Ch!IInv

LEMMA BreakStep ==
  ASSUME Ch!IInv, Ch!Break
  PROVE  Ch!IInv'
<1>1. /\ connected' = FALSE /\ line' = <<>> /\ ~toSelf
      /\ UNCHANGED <<toSelf, sent, queue, rcvLock, pc, call, hand, received>>
  BY DEF Ch!Break
<1>2. Ch!TypeOK'
  <2>1. line' \in Seq(Ch!Block)
    BY <1>1, EmptySeq
  <2> QED
    BY <1>1, <2>1 DEF Ch!IInv, Ch!TypeOK, Ch!Block
<1>3. Ch!LockHeld' /\ Ch!ReadsWhatIsNext'
  BY <1>1 DEF Ch!IInv, Ch!LockHeld, Ch!ReadsWhatIsNext
<1>4. Ch!InOrder'
  BY <1>1 DEF Ch!IInv, Ch!InOrder, Ch!Ordered, Ch!Before
<1>5. \A b : Ch!OnTheWay(b)' => Ch!OnTheWay(b)
  BY <1>1 DEF Ch!OnTheWay
<1>6. ASSUME NEW s \in Sessions, NEW b \in Ch!Block, b.session = s, Ch!OnTheWay(b)',
             NEW m \in Len(received[s]) + 1 .. b.n
      PROVE  Ch!OnTheWay(BlockOf(s, m))'
  <2>1. Ch!OnTheWay(BlockOf(s, m)) /\ Len(received[s]) \in Nat /\ b.n \in Nat
    BY <1>5, <1>6, Sequences, BoundsAssumption DEF Ch!IInv, Ch!NothingLost, BlockOf, Ch!Block
  <2>2. BlockOf(s, m).session = s /\ BlockOf(s, m).n = m /\ m \in Nat /\ m <= b.n
    BY <2>1 DEF BlockOf
  <2>3. ~ \E j \in DOMAIN line : line[j] = BlockOf(s, m)
    <3>1. \A j \in DOMAIN line : Ch!Before(b, line[j])
      BY <1>1, <1>6 DEF Ch!OnTheWay, Ch!IInv, Ch!InOrder
    <3> QED
      BY <1>6, <2>1, <2>2, <3>1 DEF Ch!Before
  <2> QED
    BY <1>1, <2>1, <2>3 DEF Ch!OnTheWay
<1>7. Ch!NothingLost'
  BY <1>1, <1>5, <1>6 DEF Ch!IInv, Ch!NothingLost, BlockOf, Ch!OnTheWay
<1> QED
  BY <1>2, <1>3, <1>4, <1>7 DEF Ch!IInv

\* The connection without its first block.
LEMMA TakenFromWire ==
  ASSUME Ch!IInv, line # <<>>, line' = Tail(line)
  PROVE  /\ Head(line) = line[1] /\ 1 \in DOMAIN line /\ Head(line) \in Ch!Block
         /\ line' \in Seq(Ch!Block) /\ Ch!Ordered(line')
         /\ \A j \in DOMAIN line' : \E k \in DOMAIN line : k # 1 /\ line'[j] = line[k]
         /\ \A k \in DOMAIN line : k # 1 => \E j \in DOMAIN line' : line'[j] = line[k]
         /\ \A k \in DOMAIN line : k # 1 => Ch!Before(line[1], line[k])
<1>1. line \in Seq(Ch!Block) /\ Ch!Ordered(line)
  BY DEF Ch!IInv, Ch!TypeOK, Ch!InOrder
<1>2. /\ Head(line) = line[1] /\ 1 \in 1 .. Len(line) /\ Head(line) \in Ch!Block
      /\ line' \in Seq(Ch!Block) /\ Len(line') = Len(line) - 1
      /\ \A j \in 1 .. Len(line) - 1 : line'[j] = line[j + 1]
  BY <1>1, TailElements
<1>3. DOMAIN line = 1 .. Len(line) /\ Len(line) \in Nat /\ DOMAIN line' = 1 .. Len(line) - 1
  BY <1>1, <1>2, LenProperties
<1>4. \A j \in DOMAIN line' : j + 1 \in DOMAIN line /\ j + 1 # 1 /\ line'[j] = line[j + 1]
  BY <1>2, <1>3
<1>5. \A k \in DOMAIN line : k # 1 => k - 1 \in DOMAIN line' /\ line'[k - 1] = line[k]
  BY <1>2, <1>3
<1>6. ASSUME NEW i \in DOMAIN line', NEW j \in DOMAIN line', i < j, line'[i].session = line'[j].session
      PROVE  line'[i].n < line'[j].n
  <2>1. i + 1 < j + 1
    BY <1>3, <1>6
  <2> QED
    BY <1>1, <1>4, <1>6, <2>1 DEF Ch!Ordered
<1>7. Ch!Ordered(line')
  BY <1>6 DEF Ch!Ordered
<1>8. \A k \in DOMAIN line : k # 1 => Ch!Before(line[1], line[k])
  BY <1>1, <1>2, <1>3 DEF Ch!Ordered, Ch!Before
<1> QED
  BY <1>2, <1>3, <1>4, <1>5, <1>7, <1>8

LEMMA ReadOwnStep ==
  ASSUME Ch!IInv, NEW s \in Sessions, Ch!ReadOwn(s)
  PROVE  Ch!IInv' /\ Ch!FIFO!Receive(s)
<1> DEFINE m == Len(received[s]) + 1
           next == BlockOf(s, m)
<1>1. /\ pc[s] = "read" /\ line # <<>> /\ Head(line).session = s
      /\ line' = Tail(line) /\ rcvLock' = rcvLock \ {s}
      /\ received' = [received EXCEPT ![s] = Append(@, Head(line).n)]
      /\ pc' = [pc EXCEPT ![s] = "idle"]
      /\ UNCHANGED <<toSelf, sent, connected, queue, call, hand>>
  BY DEF Ch!ReadOwn, Ch!Return, Ch!Goto
<1>2. /\ Head(line) = line[1] /\ 1 \in DOMAIN line /\ Head(line) \in Ch!Block
      /\ line' \in Seq(Ch!Block) /\ Ch!Ordered(line')
      /\ \A j \in DOMAIN line' : \E k \in DOMAIN line : k # 1 /\ line'[j] = line[k]
      /\ \A k \in DOMAIN line : k # 1 => \E j \in DOMAIN line' : line'[j] = line[k]
      /\ \A k \in DOMAIN line : k # 1 => Ch!Before(line[1], line[k])
  BY <1>1, TakenFromWire
<1>3. \A t \in Sessions : pc[t] # "push"
  BY <1>1 DEF Ch!IInv, Ch!LockHeld
<1>4. line[1] = next
  <2>1. Ch!OnTheWay(line[1])
    BY <1>2 DEF Ch!OnTheWay
  <2>2. Ch!OnTheWay(next)
    BY <1>1, <1>2, <2>1, NextIsOnTheWay DEF BlockOf
  <2>3. line[1].n \in Nat /\ Len(received[s]) < line[1].n /\ Len(received[s]) \in Nat
    BY <1>1, <1>2, <2>1, Sequences, BoundsAssumption DEF Ch!IInv, Ch!NothingLost, Ch!Block
  <2>4. next.session = s /\ next.n = m
    BY DEF BlockOf
  <2>5. \A i \in DOMAIN queue : queue[i] # next
    BY <1>1, <2>4 DEF Ch!IInv, Ch!ReadsWhatIsNext
  <2>6. PICK j \in DOMAIN line : line[j] = next
    BY <1>3, <2>2, <2>5 DEF Ch!OnTheWay
  <2>7. j # 1 => Ch!Before(line[1], next)
    BY <1>2, <2>6
  <2>8. ASSUME j # 1
        PROVE  FALSE
    <3>1. line[1].session = s
      BY <1>1, <1>2
    <3>2. line[1].n < next.n
      BY <2>4, <2>7, <2>8, <3>1 DEF Ch!Before
    <3>3. next.n = Len(received[s]) + 1
      BY <2>4
    <3> HIDE DEF next, m
    <3> QED
      BY <2>3, <3>2, <3>3
  <2> QED
    BY <2>6, <2>8
<1>5. next \in Ch!Block /\ next.session = s /\ next.n = m /\ m \in 1 .. MaxBlocks
  BY <1>2, <1>4 DEF BlockOf, Ch!Block
<1>6. received' = [received EXCEPT ![s] = Append(@, m)]
  BY <1>1, <1>2, <1>4, <1>5
<1> HIDE DEF m, next
<1>7. \A t \in Sessions : pc'[t] # "push"
  BY <1>1, <1>3 DEF Ch!IInv, Ch!TypeOK
<1>8. \A b \in Ch!Block : Ch!OnTheWay(b)' <=> Ch!OnTheWay(b) /\ b # next
  <2>1. \A i \in DOMAIN queue : queue[i] # next
    BY <1>1, <1>5 DEF Ch!IInv, Ch!ReadsWhatIsNext
  <2>2. \A k \in DOMAIN line : k # 1 => line[k] # next
    BY <1>2, <1>4, <1>5, BoundsAssumption DEF Ch!Before, Ch!Block
  <2>3. ASSUME NEW b \in Ch!Block, Ch!OnTheWay(b)'
        PROVE  Ch!OnTheWay(b) /\ b # next
    <3>1. CASE \E i \in DOMAIN queue : queue[i] = b
      BY <2>1, <3>1 DEF Ch!OnTheWay
    <3>2. CASE \E j \in DOMAIN line' : line'[j] = b
      <4>1. PICK k \in DOMAIN line : k # 1 /\ line[k] = b
        BY <1>2, <3>2
      <4> QED
        BY <2>2, <4>1 DEF Ch!OnTheWay
    <3> QED
      BY <1>1, <1>7, <2>3, <3>1, <3>2 DEF Ch!OnTheWay
  <2>4. ASSUME NEW b \in Ch!Block, Ch!OnTheWay(b), b # next
        PROVE  Ch!OnTheWay(b)'
    <3>1. CASE \E i \in DOMAIN queue : queue[i] = b
      BY <1>1, <3>1 DEF Ch!OnTheWay
    <3>2. CASE \E k \in DOMAIN line : line[k] = b
      <4>1. PICK k \in DOMAIN line : k # 1 /\ line[k] = b
        BY <1>4, <2>4, <3>2
      <4>2. \E j \in DOMAIN line' : line'[j] = b
        BY <1>2, <4>1
      <4> QED
        BY <4>2 DEF Ch!OnTheWay
    <3> QED
      BY <1>3, <2>4, <3>1, <3>2 DEF Ch!OnTheWay
  <2> QED
    BY <2>3, <2>4
<1>9. Ch!NothingLost' /\ Len(received[s]) < sent[s]
  <2>1. Ch!OnTheWay(next)
    BY <1>2, <1>4 DEF Ch!OnTheWay
  <2>2. Ch!TypeOK /\ Ch!NothingLost /\ UNCHANGED <<sent, connected>>
    BY <1>1 DEF Ch!IInv
  <2>3. next \in Ch!Block
    BY <1>5
  <2>4. received' = [received EXCEPT ![s] = Append(@, Len(@) + 1)]
    BY <1>6 DEF m
  <2> QED
    BY <1>8, <2>1, <2>2, <2>3, <2>4, GotNext DEF m, next
<1>10. Ch!TypeOK'
  <2>1. received' \in [Sessions -> Seq(1 .. MaxBlocks)]
    BY <1>5, <1>6, GotTyped DEF Ch!IInv
  <2>2. pc' \in [Sessions -> Ch!Places] /\ rcvLock' \subseteq Sessions
    BY <1>1 DEF Ch!IInv, Ch!TypeOK, Ch!Places
  <2> QED
    BY <1>1, <1>2, <1>7, <2>1, <2>2 DEF Ch!IInv, Ch!TypeOK, Ch!Block
<1>11. Ch!LockHeld'
  BY <1>1 DEF Ch!IInv, Ch!TypeOK, Ch!LockHeld
<1>12. Ch!ReadsWhatIsNext'
  <2>1. \A t \in Sessions : pc'[t] \in {"read", "push"} => pc'[t] = pc[t]
    BY <1>1 DEF Ch!IInv, Ch!TypeOK
  <2>2. ~toSelf /\ connected
    BY <1>1 DEF Ch!IInv, Ch!ReadsWhatIsNext
  <2> QED
    BY <1>1, <2>1, <2>2 DEF Ch!IInv, Ch!ReadsWhatIsNext
<1>13. Ch!InOrder'
  BY <1>1, <1>2, <1>7 DEF Ch!IInv, Ch!InOrder, Ch!Ordered, Ch!Before
<1>14. Ch!FIFO!Receive(s)
  BY <1>1, <1>6, <1>9 DEF Ch!FIFO!Receive, Ch!IInv, Ch!TypeOK, m
<1> QED
  BY <1>9, <1>10, <1>11, <1>12, <1>13, <1>14 DEF Ch!IInv

LEMMA ReadOthersStep ==
  ASSUME Ch!IInv, NEW s \in Sessions, Ch!ReadOthers(s)
  PROVE  Ch!IInv'
<1>1. /\ pc[s] = "read" /\ line # <<>> /\ line' = Tail(line)
      /\ hand' = [hand EXCEPT ![s] = Head(line)] /\ rcvLock' = rcvLock
      /\ pc' = [pc EXCEPT ![s] = "push"]
      /\ UNCHANGED <<toSelf, sent, connected, queue, call, received>>
  BY DEF Ch!ReadOthers, Ch!Goto, Ch!IInv, Ch!LockHeld
<1>2. /\ Head(line) = line[1] /\ 1 \in DOMAIN line /\ Head(line) \in Ch!Block
      /\ line' \in Seq(Ch!Block) /\ Ch!Ordered(line')
      /\ \A j \in DOMAIN line' : \E k \in DOMAIN line : k # 1 /\ line'[j] = line[k]
      /\ \A k \in DOMAIN line : k # 1 => \E j \in DOMAIN line' : line'[j] = line[k]
      /\ \A k \in DOMAIN line : k # 1 => Ch!Before(line[1], line[k])
  BY <1>1, TakenFromWire
<1>3. \A t \in Sessions : pc[t] # "push"
  BY <1>1 DEF Ch!IInv, Ch!LockHeld
<1>4. \A t \in Sessions : pc'[t] = "push" <=> t = s
  BY <1>1, <1>3 DEF Ch!IInv, Ch!TypeOK
<1>5. hand'[s] = line[1] /\ DOMAIN hand' = Sessions
  BY <1>1, <1>2 DEF Ch!IInv, Ch!TypeOK
<1>6. \A b \in Ch!Block : Ch!OnTheWay(b)' <=> Ch!OnTheWay(b)
  BY <1>1, <1>2, <1>3, <1>4, <1>5 DEF Ch!OnTheWay
<1>7. Ch!NothingLost'
  BY <1>1, <1>6, MovedOn DEF Ch!IInv
<1>8. Ch!TypeOK'
  BY <1>1, <1>2, <1>4, <1>5 DEF Ch!IInv, Ch!TypeOK, Ch!Block, Ch!Places
<1>9. Ch!LockHeld'
  BY <1>1 DEF Ch!IInv, Ch!TypeOK, Ch!LockHeld
<1>10. Ch!ReadsWhatIsNext'
  <2>1. ~toSelf /\ connected
    BY <1>1 DEF Ch!IInv, Ch!ReadsWhatIsNext
  <2> QED
    BY <1>1, <2>1 DEF Ch!IInv, Ch!TypeOK, Ch!ReadsWhatIsNext
<1>11. Ch!InOrder'
  <2>1. Ch!Ordered(queue)' /\ Ch!Ordered(line)'
    BY <1>1, <1>2 DEF Ch!IInv, Ch!InOrder, Ch!Ordered
  <2>2. \A i \in DOMAIN queue, j \in DOMAIN line : Ch!Before(queue[i], line[j])
    BY DEF Ch!IInv, Ch!InOrder
  <2>3. \A i \in DOMAIN queue', j \in DOMAIN line' : Ch!Before(queue'[i], line'[j])
    BY <1>1, <1>2, <2>2
  <2>4. \A i \in DOMAIN queue' : Ch!Before(queue'[i], hand'[s])
    BY <1>1, <1>2, <1>5, <2>2
  <2>5. \A j \in DOMAIN line' : Ch!Before(hand'[s], line'[j])
    BY <1>2, <1>5
  <2> QED
    BY <1>4, <2>1, <2>3, <2>4, <2>5 DEF Ch!InOrder, Ch!Before
<1> QED
  BY <1>7, <1>8, <1>9, <1>10, <1>11 DEF Ch!IInv

LEMMA PushStep ==
  ASSUME Ch!IInv, NEW s \in Sessions, Ch!Push(s)
  PROVE  Ch!IInv'
<1>1. /\ pc[s] = "push" /\ queue' = Append(queue, hand[s]) /\ rcvLock' = rcvLock \ {s}
      /\ pc' = [pc EXCEPT ![s] = "check"]
      /\ UNCHANGED <<toSelf, sent, line, connected, call, hand, received>>
  BY DEF Ch!Push, Ch!Goto
<1>2. hand[s] \in Ch!Block /\ queue \in Seq(Ch!Block) /\ Ch!Ordered(queue)
  BY <1>1 DEF Ch!IInv, Ch!TypeOK, Ch!InOrder
<1>3. /\ \A i \in DOMAIN queue : Ch!Before(queue[i], hand[s])
      /\ \A j \in DOMAIN line : Ch!Before(hand[s], line[j])
  BY <1>1 DEF Ch!IInv, Ch!InOrder
<1>4. /\ queue' \in Seq(Ch!Block) /\ Ch!Ordered(queue')
      /\ \A i \in DOMAIN queue' : queue'[i] = hand[s] \/ \E j \in DOMAIN queue : queue'[i] = queue[j]
      /\ \A j \in DOMAIN queue : \E i \in DOMAIN queue' : queue'[i] = queue[j]
      /\ \E i \in DOMAIN queue' : queue'[i] = hand[s]
  BY <1>1, <1>2, <1>3, OrderedAppend
<1>5. \A t \in Sessions : (pc[t] = "push" <=> t = s) /\ pc[t] # "read" /\ pc'[t] \notin {"push", "read"}
  BY <1>1 DEF Ch!IInv, Ch!TypeOK, Ch!LockHeld
<1>6. \A b \in Ch!Block : Ch!OnTheWay(b)' <=> Ch!OnTheWay(b)
  BY <1>1, <1>4, <1>5 DEF Ch!OnTheWay
<1>7. Ch!NothingLost'
  BY <1>1, <1>6, MovedOn DEF Ch!IInv
<1>8. Ch!TypeOK'
  BY <1>1, <1>4, <1>5 DEF Ch!IInv, Ch!TypeOK, Ch!Block, Ch!Places
<1>9. Ch!LockHeld'
  BY <1>1 DEF Ch!IInv, Ch!TypeOK, Ch!LockHeld
<1>10. Ch!ReadsWhatIsNext'
  BY <1>1, <1>5 DEF Ch!IInv, Ch!ReadsWhatIsNext
<1>11. Ch!InOrder'
  <2>1. Ch!Ordered(line)'
    BY <1>1 DEF Ch!IInv, Ch!InOrder, Ch!Ordered
  <2>2. \A i \in DOMAIN queue', j \in DOMAIN line : Ch!Before(queue'[i], line[j])
    BY <1>3, <1>4 DEF Ch!IInv, Ch!InOrder
  <2>3. \A t \in Sessions : pc'[t] # "push"
    BY <1>5
  <2> QED
    BY <1>1, <1>4, <2>1, <2>2, <2>3 DEF Ch!InOrder, Ch!Before, Ch!Ordered
<1> QED
  BY <1>7, <1>8, <1>9, <1>10, <1>11 DEF Ch!IInv

-----------------------------------------------------------------------------
(* The theorems. *)

\* Every step of a session's thread: it keeps the invariant, and it is a
\* receive of the abstract channel or changes nothing there.
LEMMA ReceivingStep ==
  ASSUME FileSessions = {}, Ch!IInv, NEW s \in Sessions, Ch!Receiving(s)
  PROVE  Ch!IInv' /\ (Ch!FIFO!Receive(s) \/ UNCHANGED Ch!FIFO!fifoVars)
<1>1. CASE Ch!Call(s)
  BY <1>1, CallStep DEF Ch!Call, Ch!FIFO!fifoVars
<1>2. CASE Ch!Leave(s)
  BY <1>2, LeaveStep DEF Ch!Leave, Ch!FIFO!fifoVars
<1>3. CASE (Ch!CheckQueue(s) \/ Ch!Recheck(s)) /\ Ch!Queued(s) # {}
  BY <1>3, Taking
<1>4. CASE (Ch!CheckQueue(s) \/ Ch!Recheck(s)) /\ Ch!Queued(s) = {}
  BY <1>4, NothingQueuedStep DEF Ch!CheckQueue, Ch!Recheck, Ch!FIFO!fifoVars
<1>5. CASE Ch!TryLock(s)
  BY <1>5, TryLockStep DEF Ch!TryLock, Ch!FIFO!fifoVars
<1>6. CASE Ch!ReadOwn(s)
  BY <1>6, ReadOwnStep
<1>7. CASE Ch!ReadOthers(s)
  BY <1>7, ReadOthersStep DEF Ch!ReadOthers, Ch!FIFO!fifoVars
<1>8. CASE Ch!ReadFails(s)
  BY <1>8, ReadFailsStep DEF Ch!ReadFails, Ch!FIFO!fifoVars
<1>9. CASE Ch!Push(s)
  BY <1>9, PushStep DEF Ch!Push, Ch!FIFO!fifoVars
<1> QED
  BY <1>1, <1>2, <1>3, <1>4, <1>5, <1>6, <1>7, <1>8, <1>9 DEF Ch!Receiving

LEMMA AnyStep ==
  ASSUME FileSessions = {}, Ch!IInv, [Ch!Next]_(Ch!vars)
  PROVE  Ch!IInv' /\ [\E s \in Sessions : Ch!FIFO!Send(s) \/ Ch!FIFO!Receive(s)]_(Ch!FIFO!fifoVars)
<1>1. ASSUME NEW s \in Sessions, Ch!Send(s)
      PROVE  Ch!IInv' /\ Ch!FIFO!Send(s)
  BY <1>1, SendStep
<1>2. ASSUME NEW s \in Sessions, Ch!Receiving(s)
      PROVE  Ch!IInv' /\ (Ch!FIFO!Receive(s) \/ UNCHANGED Ch!FIFO!fifoVars)
  BY <1>2, ReceivingStep
<1>3. CASE Ch!Break
  BY <1>3, BreakStep DEF Ch!Break, Ch!FIFO!fifoVars
<1>4. CASE UNCHANGED Ch!vars
  <2>1. Ch!TypeOK' /\ Ch!LockHeld' /\ Ch!ReadsWhatIsNext' /\ Ch!InOrder'
    BY <1>4 DEF Ch!vars, Ch!IInv, Ch!TypeOK, Ch!LockHeld, Ch!ReadsWhatIsNext, Ch!InOrder, Ch!Ordered, Ch!Before, Ch!Block
  <2>2. \A b \in Ch!Block : Ch!OnTheWay(b)' <=> Ch!OnTheWay(b)
    BY <1>4 DEF Ch!vars, Ch!OnTheWay
  <2>3. Ch!NothingLost'
    BY <1>4, <2>2, MovedOn DEF Ch!vars, Ch!IInv
  <2> QED
    BY <1>4, <2>1, <2>3 DEF Ch!vars, Ch!IInv, Ch!FIFO!fifoVars
<1> QED
  BY <1>1, <1>2, <1>3, <1>4 DEF Ch!Next

LEMMA Initially ==
  ASSUME FileSessions = {}, Ch!Init
  PROVE  Ch!IInv /\ Ch!FIFO!Init
<1>1. Ch!TypeOK
  <2>1. line \in Seq(Ch!Block) /\ queue \in Seq(Ch!Block)
    BY EmptySeq DEF Ch!Init
  <2>2. received \in [Sessions -> Seq(1 .. MaxBlocks)]
    BY EmptySeq DEF Ch!Init
  <2> QED
    BY <2>1, <2>2, BoundsAssumption DEF Ch!Init, Ch!TypeOK, Ch!Places, Ch!Block
<1>2. \A b : ~Ch!OnTheWay(b)
  BY DEF Ch!Init, Ch!OnTheWay
<1>3. Ch!LockHeld /\ Ch!ReadsWhatIsNext /\ Ch!InOrder
  BY DEF Ch!Init, Ch!LockHeld, Ch!ReadsWhatIsNext, Ch!InOrder, Ch!Ordered
<1>4. Ch!NothingLost
  <2>1. ASSUME NEW s \in Sessions
        PROVE  received[s] = <<>> /\ sent[s] = 0 /\ Len(received[s]) = 0 /\ DOMAIN received[s] = {}
    <3>1. received[s] = <<>> /\ sent[s] = 0
      BY DEF Ch!Init
    <3> QED
      BY <3>1, EmptySeq
  <2>2. \A m \in 0 + 1 .. 0 : FALSE
    OBVIOUS
  <2>3. ASSUME NEW s \in Sessions
        PROVE  /\ \A i \in DOMAIN received[s] : received[s][i] = i
               /\ Len(received[s]) <= sent[s]
               /\ \A m \in Len(received[s]) + 1 .. sent[s] : Ch!OnTheWay([session |-> s, n |-> m])
    <3>1. \A i \in DOMAIN received[s] : received[s][i] = i
      BY <2>1
    <3>2. Len(received[s]) <= sent[s]
      BY <2>1
    <3>3. \A m \in Len(received[s]) + 1 .. sent[s] : FALSE
      BY <2>1, <2>2
    <3> QED
      BY <3>1, <3>2, <3>3
  <2> QED
    BY <1>2, <2>3 DEF Ch!NothingLost
<1> QED
  BY <1>1, <1>3, <1>4 DEF Ch!IInv, Ch!Init, Ch!FIFO!Init

\* Sessions that use recv only: the invariant holds, for any number of
\* sessions and blocks, also when the connection breaks.
THEOREM ChannelInvariant ==
  ASSUME FileSessions = {}
  PROVE  Ch!Spec => []ChannelInv
<1>1. Ch!Init => Ch!IInv
  BY Initially
<1>2. Ch!IInv /\ [Ch!Next]_(Ch!vars) => Ch!IInv'
  BY AnyStep
<1> QED
  BY <1>1, <1>2, PTL DEF Ch!Spec, ChannelInv

\* Sessions that use recv only: the channel that they share is to each of them
\* a FIFO queue of its own.
THEOREM ChannelImplementsFIFO ==
  ASSUME FileSessions = {}
  PROVE  Ch!Spec => SessionsAreFIFO
<1>1. Ch!Init => Ch!FIFO!Init
  BY Initially
<1>2. Ch!IInv /\ [Ch!Next]_(Ch!vars) => [\E s \in Sessions : Ch!FIFO!Send(s) \/ Ch!FIFO!Receive(s)]_(Ch!FIFO!fifoVars)
  BY AnyStep
<1>3. Ch!Spec => []ChannelInv
  BY ChannelInvariant
<1> QED
  BY <1>1, <1>2, <1>3, PTL DEF Ch!Spec, ChannelInv, SessionsAreFIFO, Ch!SessionsAreFIFO, Ch!FIFO!Spec
=============================================================================
