------------------------------ MODULE UDTConnection ------------------------------
(***************************************************************************)
(* How UDT connections are set up and taken down (api.cpp, and connect and *)
(* listen of core.cpp): clients ask a listening socket, first for a cookie *)
(* and then, with it, for a connection; the server keeps what it accepted  *)
(* in the queue of the listener until accept takes it, and a collector     *)
(* closes the sockets that broke and destroys the closed ones later.       *)
(*                                                                         *)
(* Handshakes are sent again and again, lost and reordered.  The handling  *)
(* of one by the listener is one action, as close waits for it and the new *)
(* socket cannot break before it ends; accept and the collector interleave.*)
(***************************************************************************)
EXTENDS Naturals, Sequences, FiniteSets, FiniteSetsExt

CONSTANTS Clients,   \* the sockets that connect, one after the other attempt
          MaxTry,    \* calls of connect of each client
          Backlog,   \* of the listener
          MaxSock,   \* sockets that the listener creates
          MaxNet     \* handshakes that are on their way at a time

VARIABLES
  cl,        \* the clients
  hs,        \* the handshakes on their way
  lst,       \* the listener: where it is kept
  queued,    \* m_pQueuedSockets: set up, not yet accepted
  accepted,  \* m_pAcceptSockets
  sk,        \* the sockets that the listener created, in the order of creation
  acc,       \* what a call of accept has taken from the queue, or 0
  owned,     \* the sockets that the program of the server has got
  crashed    \* a null pointer was followed

vars == <<cl, hs, lst, queued, accepted, sk, acc, owned, crashed>>
server == <<lst, queued, accepted, sk, acc, owned, crashed>>

Ids == 1 .. MaxSock
Tries == 0 .. MaxTry

\* "asking" is a client without a cookie, "connecting" one with it.
ClientStates == {"idle", "asking", "connecting", "up", "closed"}

\* The places of a socket: in m_Sockets, in m_Sockets with the status CLOSED,
\* in m_ClosedSockets, destroyed.
Places == {"open", "dead", "closed", "removed"}

Request == [to : {"server"}, from : Clients, isn : Tries, cookie : BOOLEAN]
Answer == [to : Clients, type : {"cookie", "ok", "refused"}, isn : Tries, sock : 0 .. MaxSock]

ClientRecord == [st : ClientStates, isn : Tries, sock : 0 .. MaxSock, box : Answer \cup {<<>>}]
SocketRecord == [peer : Clients, isn : Tries, at : Places, broken : BOOLEAN]

TypeOK ==
  /\ cl \in [Clients -> ClientRecord]
  /\ hs \subseteq (Request \cup Answer)
  /\ lst \in {"open", "closed", "removed"}
  /\ queued \subseteq Ids /\ accepted \subseteq Ids /\ queued \cap accepted = {}
  /\ Cardinality(queued) <= Backlog
  /\ sk \in Seq(SocketRecord) /\ Len(sk) <= MaxSock
  /\ acc \in 0 .. MaxSock /\ owned \subseteq Ids /\ crashed \in BOOLEAN

Init ==
  /\ cl = [c \in Clients |-> [st |-> "idle", isn |-> 0, sock |-> 0, box |-> <<>>]]
  /\ hs = {} /\ lst = "open" /\ queued = {} /\ accepted = {}
  /\ sk = <<>> /\ acc = 0 /\ owned = {} /\ crashed = FALSE

-----------------------------------------------------------------------------
(* The client. *)

\* Each call takes a new initial sequence number; an answer to an earlier one
\* may still lie in the buffer.
Connect(c) ==
  /\ cl[c].st = "idle" /\ cl[c].isn < MaxTry
  /\ cl' = [cl EXCEPT ![c].st = "asking", ![c].isn = @ + 1]
  /\ UNCHANGED <<hs, server>>

SendRequest(c) ==
  /\ cl[c].st \in {"asking", "connecting"} /\ Cardinality(hs) < MaxNet
  /\ hs' = hs \cup {[to |-> "server", from |-> c, isn |-> cl[c].isn, cookie |-> cl[c].st = "connecting"]}
  /\ UNCHANGED <<cl, server>>

\* storePkt: one answer is kept, the last one.  A connected socket ignores it.
Arrive(p) ==
  /\ p \in hs /\ p.to \in Clients
  /\ hs' = hs \ {p}
  /\ cl' = IF cl[p.to].st \in {"up", "closed"} THEN cl ELSE [cl EXCEPT ![p.to].box = p]
  /\ UNCHANGED server

\* An answer to any request.
MatchesAny(c, p) == p.type = "ok"

\* The security check: the answer is to this request.
Matches(c, p) == p.type = "ok" /\ p.isn = cl[c].isn

TakeAnswer(c) ==
  /\ cl[c].st \in {"asking", "connecting"} /\ cl[c].box # <<>>
  /\ LET p == cl[c].box IN
       cl' = [cl EXCEPT ![c].box = <<>>,
                        ![c].st = IF p.type = "cookie" THEN "connecting"
                                  ELSE IF Matches(c, p) THEN "up" ELSE "idle",
                        ![c].sock = IF Matches(c, p) THEN p.sock ELSE @]
  /\ UNCHANGED <<hs, server>>

\* connect gives up after 3 seconds.
ConnectTimeout(c) ==
  /\ cl[c].st \in {"asking", "connecting"}
  /\ cl' = [cl EXCEPT ![c].st = "idle"]
  /\ UNCHANGED <<hs, server>>

ClientEnds(c) ==
  /\ cl[c].st = "up"
  /\ cl' = [cl EXCEPT ![c].st = "closed"]
  /\ UNCHANGED <<hs, server>>

LoseHandshake(p) ==
  /\ p \in hs
  /\ hs' = hs \ {p}
  /\ UNCHANGED <<cl, server>>

-----------------------------------------------------------------------------
(* The server. *)

InTable(i) == sk[i].at \in {"open", "dead"}   \* m_Sockets holds it

\* locate(listen, peer, id, isn): a connection that this request has got already.
Locate(p) == {i \in queued \cup accepted : InTable(i) /\ sk[i].peer = p.from /\ sk[i].isn = p.isn}

Reply(p, type, i) == [to |-> p.from, type |-> type, isn |-> p.isn, sock |-> i]

GiveCookie(p) ==
  /\ p \in hs /\ p.to = "server" /\ ~p.cookie
  /\ lst = "open" /\ ~crashed
  /\ hs' = (hs \ {p}) \cup {Reply(p, "cookie", 0)}
  /\ UNCHANGED <<cl, server>>

\* A request that came already is answered as before.
Repeated(p) ==
  /\ p \in hs /\ p.to = "server" /\ p.cookie
  /\ lst = "open" /\ ~crashed
  /\ \E i \in Locate(p) :
       /\ ~sk[i].broken
       /\ hs' = (hs \ {p}) \cup {Reply(p, "ok", i)}
  /\ UNCHANGED <<cl, server>>

\* The backlog is exceeded.
Full(queue) == Cardinality(queue) >= Backlog

\* What was set up for it before is broken, and makes place.
NewConnection(p) ==
  LET old == Locate(p) IN
    /\ p \in hs /\ p.to = "server" /\ p.cookie
    /\ lst = "open" /\ ~crashed
    /\ \A i \in old : sk[i].broken
    /\ accepted' = accepted \ old
    /\ LET kept == [i \in DOMAIN sk |-> IF i \in old THEN [sk[i] EXCEPT !.at = "dead"] ELSE sk[i]]
           new == Len(sk) + 1
       IN IF Full(queued \ old)
          THEN /\ hs' = (hs \ {p}) \cup {Reply(p, "refused", 0)}
               /\ queued' = queued \ old /\ sk' = kept
          ELSE /\ new <= MaxSock
               /\ hs' = (hs \ {p}) \cup {Reply(p, "ok", new)}
               /\ queued' = (queued \ old) \cup {new}
               /\ sk' = Append(kept, [peer |-> p.from, isn |-> p.isn, at |-> "open", broken |-> FALSE])
    /\ UNCHANGED <<cl, lst, acc, owned, crashed>>

\* accept takes the first of the set: identifiers decrease, it is the newest.
AcceptTake ==
  /\ lst = "open" /\ ~crashed
  /\ acc = 0 /\ queued # {}
  /\ acc' = Max(queued)
  /\ queued' = queued \ {Max(queued)} /\ accepted' = accepted \cup {Max(queued)}
  /\ UNCHANGED <<cl, hs, lst, sk, owned, crashed>>

\* locate(u)->m_iIPversion, without the lock: the socket may be closed by now.
AcceptReturn ==
  /\ acc # 0 /\ ~crashed
  /\ IF sk[acc].at = "open" THEN owned' = owned \cup {acc} /\ UNCHANGED crashed
                            ELSE crashed' = TRUE /\ UNCHANGED owned
  /\ acc' = 0
  /\ UNCHANGED <<cl, hs, lst, queued, accepted, sk>>

CloseSocket(i) ==
  /\ i \in owned /\ sk[i].at = "open" /\ ~crashed
  /\ sk' = [sk EXCEPT ![i].at = "closed"]
  /\ accepted' = IF lst = "open" THEN accepted \ {i} ELSE accepted
  /\ UNCHANGED <<cl, hs, lst, queued, acc, owned, crashed>>

CloseListener ==
  /\ lst = "open" /\ ~crashed
  /\ lst' = "closed"
  /\ UNCHANGED <<cl, hs, queued, accepted, sk, acc, owned, crashed>>

\* The client holds the connection, or still waits for the answer.
Held(i) ==
  LET c == cl[sk[i].peer] IN
    c.isn = sk[i].isn /\ (c.st \in {"asking", "connecting"} \/ (c.st = "up" /\ c.sock = i))

\* A peer that is gone says so, or is not heard for long.
Break(i) ==
  /\ i \in DOMAIN sk /\ ~crashed
  /\ InTable(i) /\ ~sk[i].broken /\ ~Held(i)
  /\ sk' = [sk EXCEPT ![i].broken = TRUE]
  /\ UNCHANGED <<cl, hs, lst, queued, accepted, acc, owned, crashed>>

Broken == {i \in DOMAIN sk : InTable(i) /\ sk[i].broken}
Closed == {i \in DOMAIN sk : sk[i].at = "closed"}

\* The broken sockets leave the queues, if the listener is still in m_Sockets.
Leave(gone, set) == IF lst = "open" THEN set \ gone ELSE set

\* checkBrokenSockets: the broken sockets, but those with unread data for a
\* while, are closed, and those closed a second ago are destroyed; a listener
\* closes what waits in its queue, found through m_Sockets.
Collect(waiting, old, listener) ==
  LET gone == Broken \ waiting
      orphans == IF listener THEN queued ELSE {}
      lives == {i \in orphans : InTable(i) /\ i \notin gone}
  IN /\ ~crashed
     /\ listener => lst = "closed"
     /\ crashed' = (orphans # lives)
     /\ sk' = [i \in DOMAIN sk |->
                 IF i \in gone \cup lives THEN [sk[i] EXCEPT !.at = "closed"]
                 ELSE IF i \in old THEN [sk[i] EXCEPT !.at = "removed"] ELSE sk[i]]
     /\ queued' = IF listener THEN {} ELSE Leave(gone, queued)
     /\ accepted' = IF listener THEN {} ELSE Leave(gone, accepted)
     /\ lst' = IF listener THEN "removed" ELSE lst
     /\ UNCHANGED <<cl, hs, acc, owned>>

CollectSome ==
  \E waiting \in SUBSET Broken, old \in SUBSET Closed, listener \in BOOLEAN : Collect(waiting, old, listener)

-----------------------------------------------------------------------------
Next ==
  \/ \E c \in Clients :
       Connect(c) \/ SendRequest(c) \/ TakeAnswer(c) \/ ConnectTimeout(c) \/ ClientEnds(c)
  \/ \E p \in hs : Arrive(p) \/ LoseHandshake(p) \/ GiveCookie(p) \/ Repeated(p) \/ NewConnection(p)
  \/ AcceptTake \/ AcceptReturn \/ CloseListener
  \/ \E i \in DOMAIN sk : CloseSocket(i) \/ Break(i)
  \/ CollectSome

Spec == Init /\ [][Next]_vars

-----------------------------------------------------------------------------
(* Properties. *)

\* A client that is connected has the socket that the server made for this very
\* call of connect, whatever answers to earlier calls were still on their way.
ConnectedAgree ==
  \A c \in Clients : cl[c].st = "up" =>
    LET i == cl[c].sock IN i \in DOMAIN sk /\ sk[i].peer = c /\ sk[i].isn = cl[c].isn

\* However often a request comes, it has one live connection.
OneConnectionPerRequest ==
  \A i, j \in DOMAIN sk :
    (sk[i].peer = sk[j].peer /\ sk[i].isn = sk[j].isn /\ sk[i].at = "open" /\ sk[j].at = "open"
       /\ ~sk[i].broken /\ ~sk[j].broken) => i = j

\* A listener that is open keeps only sockets of the table of sockets.
QueueOfLiveSockets ==
  lst = "open" => \A i \in queued \cup accepted : InTable(i)

\* What makes the three inductive.  A positive answer, on its way or in a client's buffer,
\* names the socket that was made for the request.
Truthful(p) ==
  p.type = "ok" => p.sock \in DOMAIN sk /\ sk[p.sock].peer = p.to /\ sk[p.sock].isn = p.isn
AnswersTrue ==
  /\ \A p \in hs : p.to \in Clients => Truthful(p)
  /\ \A c \in Clients : cl[c].box # <<>> => cl[c].box.to = c /\ Truthful(cl[c].box)

\* What accept has taken is no longer queued, and while the listener is open it still has
\* in its sets what is open and not broken, so that a request that comes again finds it.
SocketsFound ==
  /\ queued \cup accepted \cup owned \cup ({acc} \ {0}) \subseteq DOMAIN sk
  /\ queued \cap (owned \cup {acc}) = {}
  /\ lst = "open" =>
       \A i \in DOMAIN sk : sk[i].at = "open" /\ ~sk[i].broken => i \in queued \cup accepted

ConnectionInv ==
  /\ TypeOK /\ AnswersTrue /\ SocketsFound
  /\ ConnectedAgree /\ OneConnectionPerRequest /\ QueueOfLiveSockets

\* Neither accept nor the collector follows a pointer to a socket that is gone.  It
\* does not hold: a socket that breaks after its listener was closed stays in its queue.
ServerSurvives == ~crashed
=============================================================================
