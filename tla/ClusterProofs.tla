----------------------------- MODULE ClusterProofs -----------------------------
(***************************************************************************)
(* Proofs about Cluster, for a first master and one that joins it, any     *)
(* number of slaves, and any number of lives of both: every slave that the *)
(* first master lists obeys the other one too, and who is dropped is gone. *)
(* With a third master neither holds, as the entries that a new master is  *)
(* handed have the wrong address (Listed).                                 *)
(*                                                                         *)
(* The invariant is ClusterInv.  KeysTrue says that a key that lives has   *)
(* its own address wherever it is listed, so that a probe that fails is of *)
(* a key that is dead.  FounderKnows and FounderFirst bring a slave and a  *)
(* master together at the first master, whichever of them joins first;     *)
(* ListsKept says that what a slave learns there it keeps.                 *)
(*                                                                         *)
(* And proofs about Sessions, for any clients and masters: the masters     *)
(* that a client counts as its own know it.  The invariant is SessionsInv. *)
(* HeardOf bounds how long a user has been silent, WithinTheRing keeps the *)
(* logins to masters that no later join hands other users, and KeysTrue    *)
(* says that nobody else's login, logout or insertion takes the user away. *)
(***************************************************************************)
EXTENDS Logins, FiniteSetTheorems, TLAPS

TwoMasters == \A m, n \in Masters \ {Founder} : m = n

-----------------------------------------------------------------------------
(* Sequences of messages. *)

LEMMA Appended ==
  ASSUME NEW T, NEW q \in Seq(T), NEW e \in T
  PROVE  /\ Append(q, e) \in Seq(T)
         /\ \A i \in DOMAIN q : i \in DOMAIN Append(q, e) /\ Append(q, e)[i] = q[i]
         /\ \E i \in DOMAIN Append(q, e) : Append(q, e)[i] = e
         /\ \A i \in DOMAIN Append(q, e) : (i \in DOMAIN q /\ Append(q, e)[i] = q[i]) \/ Append(q, e)[i] = e
<1>1. Append(q, e) \in Seq(T) /\ Len(q) \in Nat /\ DOMAIN q = 1 .. Len(q) /\ DOMAIN Append(q, e) = 1 .. Len(q) + 1
  OBVIOUS
<1>2. Append(q, e)[Len(q) + 1] = e /\ \A i \in 1 .. Len(q) : Append(q, e)[i] = q[i]
  OBVIOUS
<1> QED BY <1>1, <1>2

LEMMA Taken ==
  ASSUME NEW T, NEW q \in Seq(T), q # <<>>
  PROVE  /\ Tail(q) \in Seq(T) /\ 1 \in DOMAIN q /\ Head(q) = q[1]
         /\ \A i \in DOMAIN Tail(q) : i + 1 \in DOMAIN q /\ Tail(q)[i] = q[i + 1]
         /\ \A i \in DOMAIN q : i # 1 => i - 1 \in DOMAIN Tail(q) /\ Tail(q)[i - 1] = q[i]
<1>1. Len(q) \in Nat \ {0} /\ DOMAIN q = 1 .. Len(q) /\ Tail(q) \in Seq(T) /\ Len(Tail(q)) = Len(q) - 1
  OBVIOUS
<1>2. DOMAIN Tail(q) = 1 .. Len(q) - 1 /\ \A i \in 1 .. Len(q) - 1 : Tail(q)[i] = q[i + 1]
  BY <1>1
<1>3. Head(q) = q[1]
  OBVIOUS
<1> QED BY <1>1, <1>2, <1>3

Msg(m, type, r) == [type |-> type, key |-> r.key, at |-> r.at, by |-> m]

\* What the slaves have to read after a message to them.
LEMMA TellEffect ==
  ASSUME TypeOK, NEW m \in Masters, NEW type \in {"new", "lost"}, NEW r \in Route, Tell(m, type, r),
         NEW msg, msg = Msg(m, type, r)
  PROVE  /\ msg \in Message
         /\ unreached' \subseteq Slaves /\ unreached \subseteq unreached'
         /\ inbox' \in [Slaves -> Seq(Message)]
         /\ \A s \in Slaves : \A i \in DOMAIN inbox[s] : i \in DOMAIN inbox'[s] /\ inbox'[s][i] = inbox[s][i]
         /\ \A s \in Slaves : \A i \in DOMAIN inbox'[s] :
              (i \in DOMAIN inbox[s] /\ inbox'[s][i] = inbox[s][i]) \/ inbox'[s][i] = msg
         /\ \A s \in Slaves \ unreached' : s \in slaves[m] /\ slave[s].st # "off" =>
              \E i \in DOMAIN inbox'[s] : inbox'[s][i] = msg
<1>1. \A s \in Slaves : inbox[s] \in Seq(Message)
  BY DEF TypeOK
<1>2. msg \in Message
  BY DEF Msg, Message, Route
<1>3. PICK lost \in SUBSET slaves[m] :
        /\ unreached' = unreached \cup lost
        /\ inbox' = [s \in Slaves |->
                      IF s \in slaves[m] \ lost /\ slave[s].st # "off" THEN Append(inbox[s], msg) ELSE inbox[s]]
  BY DEF Tell, Msg
<1>4. ASSUME NEW s \in Slaves
      PROVE  /\ inbox'[s] \in Seq(Message)
             /\ \A i \in DOMAIN inbox[s] : i \in DOMAIN inbox'[s] /\ inbox'[s][i] = inbox[s][i]
             /\ \A i \in DOMAIN inbox'[s] :
                  (i \in DOMAIN inbox[s] /\ inbox'[s][i] = inbox[s][i]) \/ inbox'[s][i] = msg
             /\ s \in slaves[m] \ lost /\ slave[s].st # "off" => \E i \in DOMAIN inbox'[s] : inbox'[s][i] = msg
  <2>1. CASE s \in slaves[m] \ lost /\ slave[s].st # "off"
    <3>1. inbox'[s] = Append(inbox[s], msg)
      BY <2>1, <1>3
    <3> QED BY <3>1, <1>1, <1>2, Appended
  <2>2. CASE ~(s \in slaves[m] \ lost /\ slave[s].st # "off")
    <3>1. inbox'[s] = inbox[s]
      BY <2>2, <1>3
    <3> QED BY <3>1, <2>2, <1>1
  <2> QED BY <2>1, <2>2
<1>5. inbox' = [s \in Slaves |-> inbox'[s]]
  BY <1>3
<1>6. lost \subseteq Slaves
  BY DEF TypeOK
<1>7. unreached' \subseteq Slaves /\ unreached \subseteq unreached' /\ \A s \in Slaves \ unreached' : s \notin lost
  BY <1>3, <1>6 DEF TypeOK
<1>8. inbox' \in [Slaves -> Seq(Message)]
  BY <1>4, <1>5
<1> QED BY <1>2, <1>4, <1>7, <1>8

-----------------------------------------------------------------------------
(* Types. *)

LEMMA Fields ==
  /\ \A r \in Route : r.key \in Keys /\ r.at \in Masters
  /\ \A j \in Join : j.by \in Masters /\ j.key \in Keys /\ j.at \in Masters /\ j.told \subseteq Masters
  /\ \A e \in Message : e.key \in Keys /\ e.at \in Masters /\ e.type \in {"new", "lost"} /\ e.by \in Masters
  /\ \A k \in Keys, m \in Masters : [key |-> k, at |-> m] \in Route
  /\ \A s \in Masters \cup Slaves : s \in Nodes
BY DEF Route, Join, Message, Nodes

LEMMA JoinIs ==
  ASSUME NEW p \in Masters, NEW m \in Masters, NEW k \in Keys, NEW T \in SUBSET Masters
  PROVE  [by |-> p, key |-> k, at |-> m, told |-> T] \in Join
BY DEF Join

LEMMA OffIs ==
  /\ Off \in Process /\ Off.st = "off" /\ Off.first /\ [Off EXCEPT !.st = "connect"] \in Process
  /\ [Off EXCEPT !.st = "connect"].st = "connect" /\ [Off EXCEPT !.st = "connect"].first
BY FounderAssumption DEF Off, Process

\* The process of s is gone, and no other one.
LEMMA GoneEffect ==
  ASSUME TypeOK, NEW s \in Slaves, Gone(s)
  PROVE  /\ slave' \in [Slaves -> Process] /\ todo' \in [Slaves -> SUBSET Masters]
         /\ routing' \in [Nodes -> SUBSET Route] /\ inbox' \in [Slaves -> Seq(Message)]
         /\ slave'[s].st = "off" /\ slave'[s].first /\ todo'[s] = {} /\ routing'[s] = {} /\ inbox'[s] = <<>>
         /\ unreached' = unreached \ {s}
         /\ \A u \in Slaves \ {s} : slave'[u] = slave[u] /\ todo'[u] = todo[u] /\ inbox'[u] = inbox[u]
         /\ \A n \in Nodes \ {s} : routing'[n] = routing[n]
<1>1. s \in Nodes /\ <<>> \in Seq(Message)
  BY DEF Nodes
<1> QED BY <1>1, OffIs DEF Gone, TypeOK

LEMMA Domains ==
  ASSUME TypeOK
  PROVE  /\ nextKey \in 1 .. MaxKey + 1 /\ key \in [Masters -> 0 .. MaxKey]
         /\ routing \in [Nodes -> SUBSET Route]
         /\ slaves \in [Masters -> SUBSET Slaves]
         /\ retry \in [Masters -> [Slaves -> 0 .. MaxRetry + 1]]
         /\ joins \subseteq Join
         /\ slave \in [Slaves -> Process] /\ inbox \in [Slaves -> Seq(Message)]
         /\ todo \in [Slaves -> SUBSET Masters] /\ unreached \subseteq Slaves /\ deaths \in 0 .. MaxDeaths
         /\ Masters \subseteq Nodes /\ Slaves \subseteq Nodes /\ Masters \cap Slaves = {}
         /\ MaxKey \in Nat \ {0} /\ MaxRetry \in Nat /\ MaxDeaths \in Nat /\ Founder \in Masters
BY FounderAssumption, KeyAssumption DEF TypeOK, Nodes

\* The lists after a hand-over.
LEMMA HandOverEffect ==
  ASSUME TypeOK, NEW p \in Masters, NEW m \in Masters, Up(p), nextKey \in Keys, HandOver(p, m, nextKey)
  PROVE  /\ routing' \in [Nodes -> SUBSET Route]
         /\ slaves' \in [Masters -> SUBSET Slaves]
         /\ retry' \in [Masters -> [Slaves -> 0 .. MaxRetry + 1]]
         /\ joins' = joins \cup {[by |-> p, key |-> nextKey, at |-> m, told |-> Told(p)]} /\ joins' \subseteq Join
         /\ routing'[m] = {[key |-> nextKey, at |-> m], [key |-> key[p], at |-> p]} \cup Listed(p)
         /\ \A n \in Nodes \ {m} : routing'[n] = routing[n]
         /\ \A n \in Masters \ {m} : slaves'[n] = slaves[n]
<1>1. key[p] \in Keys
  BY Domains DEF Up, Keys
<1>2. Listed(p) \subseteq Route
  BY Domains, Fields DEF Listed, Others
<1>3. {[key |-> nextKey, at |-> m], [key |-> key[p], at |-> p]} \cup Listed(p) \in SUBSET Route
  BY <1>1, <1>2, Fields
<1>4. [by |-> p, key |-> nextKey, at |-> m, told |-> Told(p)] \in Join
  <2>1. Told(p) \in SUBSET Masters
    BY Domains, Fields DEF Told, Others
  <2> QED BY <2>1, JoinIs
<1>5. [s \in Slaves |-> 0] \in [Slaves -> 0 .. MaxRetry + 1]
  BY KeyAssumption
<1> QED BY <1>3, <1>4, <1>5, Domains DEF HandOver

LEMMA InsertedIs ==
  ASSUME NEW R, NEW r
  PROVE  /\ R \subseteq inserted(R, r) /\ inserted(R, r) \subseteq R \cup {r}
         /\ \E q \in inserted(R, r) : q.key = r.key
BY DEF inserted

LEMMA AnnounceEffect ==
  ASSUME TypeOK, NEW j \in joins, Announce(j)
  PROVE  LET r == [key |-> j.key, at |-> j.at] IN
         /\ r \in Route /\ j \in Join /\ Tell(j.by, "new", r)
         /\ routing' \in [Nodes -> SUBSET Route]
         /\ \A n \in Nodes : routing'[n] \in {routing[n], inserted(routing[n], r)}
         /\ routing'[j.by] = inserted(routing[j.by], r)
         /\ \A s \in Slaves : routing'[s] = routing[s]
<1> DEFINE r == [key |-> j.key, at |-> j.at]
<1>1. j \in Join /\ r \in Route /\ Tell(j.by, "new", r)
  BY Domains, Fields DEF Announce
<1>2. PICK heard \in SUBSET j.told :
        routing' = [n \in Nodes |-> IF n \in heard \cup {j.by} THEN inserted(routing[n], r) ELSE routing[n]]
  BY DEF Announce
<1>3. j.by \in Masters /\ heard \subseteq Masters
  BY <1>1, Fields
<1>4. \A n \in Nodes : routing[n] \in SUBSET Route /\ inserted(routing[n], r) \in SUBSET Route
  BY <1>1, Domains, InsertedIs
<1>5. \A s \in Slaves : s \in Nodes /\ s \notin Masters
  BY Domains
<1> HIDE DEF r
<1>6. \A n \in Nodes : routing'[n] \in {routing[n], inserted(routing[n], r)}
  BY <1>2
<1>7. routing' \in [Nodes -> SUBSET Route]
  BY <1>2, <1>4
<1>8. routing'[j.by] = inserted(routing[j.by], r)
  BY <1>2, <1>3, Domains
<1>9. \A s \in Slaves : routing'[s] = routing[s]
  BY <1>2, <1>3, <1>5
<1> QED BY <1>1, <1>6, <1>7, <1>8, <1>9 DEF r

LEMMA ProbeEffect ==
  ASSUME TypeOK, NEW m \in Masters, NEW r \in Route, ProbeMaster(m, r)
  PROVE  /\ r \in routing[m] /\ r.key # key[m] /\ ~Answers(r)
         /\ routing' \in [Nodes -> SUBSET Route]
         /\ routing'[m] = removed(routing[m], r.key)
         /\ \A n \in Nodes \ {m} : routing'[n] = routing[n]
BY Domains, Fields DEF ProbeMaster, Others, removed

LEMMA HandleEffect ==
  ASSUME TypeOK, NEW s \in Slaves, Handle(s)
  PROVE  /\ inbox[s] # <<>> /\ inbox[s] \in Seq(Message) /\ Head(inbox[s]) \in Message
         /\ routing' \in [Nodes -> SUBSET Route]
         /\ routing'[s] = IF Known(routing[s], Head(inbox[s]).by) THEN Obeyed(routing[s], Head(inbox[s])) ELSE routing[s]
         /\ \A n \in Nodes \ {s} : routing'[n] = routing[n]
         /\ inbox' \in [Slaves -> Seq(Message)] /\ inbox'[s] = Tail(inbox[s])
         /\ \A u \in Slaves \ {s} : inbox'[u] = inbox[u]
<1>1. inbox[s] # <<>> /\ inbox[s] \in Seq(Message) /\ s \in Nodes
  BY Domains DEF Handle
<1>2. Head(inbox[s]) \in Message /\ Tail(inbox[s]) \in Seq(Message)
  BY <1>1
<1>3. Obeyed(routing[s], Head(inbox[s])) \in SUBSET Route
  BY <1>1, <1>2, Domains, Fields, InsertedIs DEF Obeyed, removed
<1> QED BY <1>1, <1>2, <1>3, Domains DEF Handle

LEMMA ConnectEffect ==
  ASSUME TypeOK, NEW s \in Slaves, NEW m \in Masters, Connect(s, m), ~Gone(s)
  PROVE  /\ slave' \in [Slaves -> Process] /\ todo' \in [Slaves -> SUBSET Masters]
         /\ slave'[s].st = "checked" /\ slave'[s].at = m /\ slave'[s].first = slave[s].first
         /\ slave[s].st = "connect" /\ m \in todo[s] /\ todo'[s] \subseteq todo[s]
         /\ \A u \in Slaves \ {s} : slave'[u] = slave[u] /\ todo'[u] = todo[u]
         /\ UNCHANGED <<routing, inbox, unreached>>
<1>1. slave' = [slave EXCEPT ![s] = [slave[s] EXCEPT !.st = "checked", !.at = m]]
  BY Domains DEF Connect
<1>2. slave[s].st = "connect" /\ m \in todo[s] /\ todo' = [todo EXCEPT ![s] = @ \ {m}] /\ UNCHANGED <<routing, inbox, unreached>>
  BY DEF Connect
<1>3. slave[s] \in Process
  BY Domains
<1> DEFINE p == [slave[s] EXCEPT !.st = "checked", !.at = m]
<1>7. p \in Process /\ p.st = "checked" /\ p.at = m /\ p.first = slave[s].first
  BY <1>3 DEF Process
<1> HIDE DEF p
<1>8. slave' = [slave EXCEPT ![s] = p]
  BY <1>1 DEF p
<1>4. slave' \in [Slaves -> Process] /\ slave'[s] = p /\ \A u \in Slaves \ {s} : slave'[u] = slave[u]
  BY <1>7, <1>8, Domains
<1>5. slave'[s].st = "checked" /\ slave'[s].at = m /\ slave'[s].first = slave[s].first
  BY <1>4, <1>7
<1>6. todo' \in [Slaves -> SUBSET Masters] /\ todo'[s] \subseteq todo[s] /\ \A u \in Slaves \ {s} : todo'[u] = todo[u]
  BY <1>2, Domains
<1> QED BY <1>2, <1>4, <1>5, <1>6

LEMMA InsertSlaveEffect ==
  ASSUME TypeOK, NEW s \in Slaves, InsertSlave(s)
  PROVE  /\ slave[s].st = "checked" /\ slave[s].at \in Masters
         /\ slaves' = [slaves EXCEPT ![slave[s].at] = @ \cup {s}] /\ slaves' \in [Masters -> SUBSET Slaves]
         /\ retry' \in [Masters -> [Slaves -> 0 .. MaxRetry + 1]]
         /\ slave' \in [Slaves -> Process]
         /\ slave'[s].st = (IF slave[s].first THEN "inserted" ELSE IF todo[s] = {} THEN "on" ELSE "connect")
         /\ slave'[s].first = slave[s].first /\ slave'[s].at = slave[s].at
         /\ \A u \in Slaves \ {s} : slave'[u] = slave[u]
<1> DEFINE t == IF slave[s].first THEN "inserted" ELSE IF todo[s] = {} THEN "on" ELSE "connect"
<1>1. slave[s].st = "checked" /\ slave' = [slave EXCEPT ![s] = [slave[s] EXCEPT !.st = t]]
  BY Domains DEF InsertSlave
<1>2. slave[s] \in Process /\ slave[s].at \in Masters /\ t \in {"off", "connect", "checked", "inserted", "on"}
  BY Domains DEF Process
<1>3. slaves' = [slaves EXCEPT ![slave[s].at] = @ \cup {s}] /\ retry' = [retry EXCEPT ![slave[s].at][s] = 0]
  BY DEF InsertSlave
<1> HIDE DEF t
<1> DEFINE p == [slave[s] EXCEPT !.st = t]
<1>7. p \in Process /\ p.st = t /\ p.first = slave[s].first /\ p.at = slave[s].at
  BY <1>2 DEF Process
<1> HIDE DEF p
<1>8. slave' = [slave EXCEPT ![s] = p]
  BY <1>1 DEF p
<1>4. slave' \in [Slaves -> Process] /\ slave'[s] = p /\ \A u \in Slaves \ {s} : slave'[u] = slave[u]
  BY <1>7, <1>8, Domains
<1>5. slave'[s].st = t /\ slave'[s].first = slave[s].first /\ slave'[s].at = slave[s].at
  BY <1>4, <1>7
<1>6. slaves' \in [Masters -> SUBSET Slaves] /\ retry' \in [Masters -> [Slaves -> 0 .. MaxRetry + 1]]
  BY <1>2, <1>3, Domains
<1> QED BY <1>1, <1>2, <1>3, <1>4, <1>5, <1>6 DEF t

LEMMA ListMastersEffect ==
  ASSUME TypeOK, NEW s \in Slaves, ListMasters(s), Up(slave[s].at)
  PROVE  LET m == slave[s].at IN
         /\ slave[s].st = "inserted" /\ m \in Masters
         /\ routing' \in [Nodes -> SUBSET Route]
         /\ routing'[s] = {[key |-> key[m], at |-> m]} \cup Others(m)
         /\ \A n \in Nodes \ {s} : routing'[n] = routing[n]
         /\ todo' \in [Slaves -> SUBSET Masters] /\ todo'[s] = ToJoin(Others(m))
         /\ slave' \in [Slaves -> Process] /\ slave'[s].st \in {"on", "connect"} /\ ~slave'[s].first
         /\ \A u \in Slaves \ {s} : slave'[u] = slave[u] /\ todo'[u] = todo[u]
<1> DEFINE m == slave[s].at
           t == IF Others(m) = {} THEN "on" ELSE "connect"
<1>1. slave[s].st = "inserted" /\ slave' = [slave EXCEPT ![s] = [slave[s] EXCEPT !.first = FALSE, !.st = t]]
  BY Domains DEF ListMasters
<1>2. slave[s] \in Process /\ m \in Masters /\ t \in {"off", "connect", "checked", "inserted", "on"}
  BY Domains DEF Process
<1>3. /\ routing' = [routing EXCEPT ![s] = {[key |-> key[m], at |-> m]} \cup Others(m)]
      /\ todo' = [todo EXCEPT ![s] = ToJoin(Others(m))]
  BY DEF ListMasters
<1>4. Others(m) \subseteq Route /\ [key |-> key[m], at |-> m] \in Route /\ ToJoin(Others(m)) \subseteq Masters
  <2>1. routing[m] \subseteq Route /\ key[m] \in Keys
    BY <1>2, Domains DEF Up, Keys
  <2>2. [key |-> key[m], at |-> m] \in Route
    BY <2>1, <1>2 DEF Route
  <2> HIDE DEF m
  <2>3. Others(m) \subseteq Route /\ \A r \in Others(m) : r.at \in Masters
    BY <2>1 DEF Others, Route
  <2> QED BY <2>2, <2>3 DEF ToJoin
<1>5. t \in {"on", "connect"}
  OBVIOUS
<1> HIDE DEF t, m
<1> DEFINE p == [slave[s] EXCEPT !.first = FALSE, !.st = t]
<1>9. p \in Process /\ p.st = t /\ ~p.first
  BY <1>2 DEF Process
<1> HIDE DEF p
<1>10. slave' = [slave EXCEPT ![s] = p]
  BY <1>1 DEF p
<1>6. slave' \in [Slaves -> Process] /\ slave'[s] = p /\ \A u \in Slaves \ {s} : slave'[u] = slave[u]
  BY <1>9, <1>10, Domains
<1>7. slave'[s].st = t /\ ~slave'[s].first
  BY <1>6, <1>9
<1>8. /\ routing' \in [Nodes -> SUBSET Route] /\ routing'[s] = {[key |-> key[m], at |-> m]} \cup Others(m)
      /\ \A n \in Nodes \ {s} : routing'[n] = routing[n]
      /\ todo' \in [Slaves -> SUBSET Masters] /\ todo'[s] = ToJoin(Others(m))
      /\ \A u \in Slaves \ {s} : todo'[u] = todo[u]
  BY <1>3, <1>4, Domains
<1> QED BY <1>1, <1>2, <1>5, <1>6, <1>7, <1>8 DEF m

-----------------------------------------------------------------------------
(* The invariant. *)

\* What is true of a key stays true when masters die and new keys are given out.
LEMMA StillTrue ==
  ASSUME NEW e, e.key \in Nat \ {0}, nextKey \in Nat, e.key < nextKey, Rightful(key, e),
         \A x \in Masters : key'[x] \in {key[x], 0, nextKey}
  PROVE  Rightful(key', e)
<1>1. ASSUME NEW x \in Masters, key'[x] = e.key PROVE e.at = x
  <2>1. key'[x] # 0
    BY <1>1
  <2>2. CASE key'[x] = key[x]
    BY <1>1, <2>2 DEF Rightful
  <2>3. CASE key'[x] = nextKey
    BY <1>1, <2>3
  <2> QED BY <2>1, <2>2, <2>3
<1> QED BY <1>1 DEF Rightful

LEMMA InitInv == Init => ClusterInv
<1> SUFFICES ASSUME Init PROVE ClusterInv
  OBVIOUS
<1> USE FounderAssumption, KeyAssumption
<1>1. TypeOK
  <2>1. [key |-> 1, at |-> Founder] \in Route
    BY DEF Route, Keys
  <2>2. <<>> \in Seq(Message)
    OBVIOUS
  <2>3. joins \subseteq Join /\ unreached \subseteq Slaves /\ deaths \in 0 .. MaxDeaths /\ nextKey \in 1 .. MaxKey + 1
    BY DEF Init
  <2>4. key \in [Masters -> 0 .. MaxKey] /\ slaves \in [Masters -> SUBSET Slaves] /\ todo \in [Slaves -> SUBSET Masters]
    BY DEF Init
  <2>5. routing \in [Nodes -> SUBSET Route]
    BY <2>1 DEF Init
  <2>6. retry \in [Masters -> [Slaves -> 0 .. MaxRetry + 1]]
    BY DEF Init
  <2>7. slave \in [Slaves -> Process] /\ inbox \in [Slaves -> Seq(Message)]
    BY <2>2, OffIs DEF Init
  <2> QED BY <2>3, <2>4, <2>5, <2>6, <2>7 DEF TypeOK
<1>2. KeysTrue
  <2>1. \A n \in Nodes : \A r \in routing[n] : r = [key |-> 1, at |-> Founder]
    BY DEF Init
  <2>2. Rightful(key, [key |-> 1, at |-> Founder])
    BY DEF Init, Rightful
  <2>3. \A s \in Slaves : DOMAIN inbox[s] = {}
    BY DEF Init
  <2>4. \A m \in Masters : key[m] = IF m = Founder THEN 1 ELSE 0
    BY DEF Init
  <2>5. nextKey = 2 /\ joins = {}
    BY DEF Init
  <2> QED BY <2>1, <2>2, <2>3, <2>4, <2>5 DEF KeysTrue, Up
<1>3. FounderKnows
  BY DEF Init, FounderKnows, Announced, Up, Nodes
<1>4. FounderFirst
  BY DEF Init, FounderFirst, FounderFirstFor, Off
<1>5. ListsKept
  BY DEF Init, ListsKept, Off
<1> QED BY <1>1, <1>2, <1>3, <1>4, <1>5 DEF ClusterInv

LEMMA JoinMasterStep ==
  ASSUME TwoMasters, ClusterInv, NEW m \in Masters, NEW p \in Masters, JoinMaster(m, p)
  PROVE  ClusterInv'
<1> USE Domains DEF ClusterInv
<1>1. m # Founder /\ p = Founder /\ Up(p) /\ key[m] = 0
  BY DEF JoinMaster, TwoMasters, KeysTrue, Up
<1>2. /\ nextKey \in Keys /\ nextKey' = nextKey + 1 /\ HandOver(p, m, nextKey)
      /\ key' = [key EXCEPT ![m] = nextKey] /\ UNCHANGED <<slave, todo, inbox, unreached, deaths>>
  BY DEF JoinMaster
<1> DEFINE j == [by |-> p, key |-> nextKey, at |-> m, told |-> Told(p)]
           r1 == [key |-> nextKey, at |-> m]
           r2 == [key |-> key[p], at |-> p]
<1>3. /\ routing' \in [Nodes -> SUBSET Route]
      /\ slaves' \in [Masters -> SUBSET Slaves]
      /\ retry' \in [Masters -> [Slaves -> 0 .. MaxRetry + 1]]
      /\ joins' = joins \cup {j} /\ joins' \subseteq Join
      /\ routing'[m] = {r1, r2} \cup Listed(p)
      /\ \A n \in Nodes \ {m} : routing'[n] = routing[n]
      /\ \A n \in Masters \ {m} : slaves'[n] = slaves[n]
  BY <1>1, <1>2, HandOverEffect
<1>4. TypeOK'
  <2>1. nextKey' \in 1 .. MaxKey + 1 /\ key' \in [Masters -> 0 .. MaxKey]
    BY <1>2 DEF Keys
  <2> QED BY <1>2, <1>3, <2>1 DEF TypeOK
<1>5. /\ nextKey \in Nat /\ \A x \in Masters : key[x] \in Nat /\ key[x] < nextKey
      /\ key'[m] = nextKey /\ \A x \in Masters \ {m} : key'[x] = key[x]
  BY <1>2 DEF KeysTrue, Keys
<1>6. \A e : e.key \in Keys /\ e.key < nextKey /\ Rightful(key, e) => e.key < nextKey' /\ Rightful(key', e)
  <2> SUFFICES ASSUME NEW e, e.key \in Keys, e.key < nextKey, Rightful(key, e)
               PROVE  e.key < nextKey' /\ Rightful(key', e)
    OBVIOUS
  <2>1. e.key \in Nat \ {0} /\ \A x \in Masters : key'[x] \in {key[x], 0, nextKey}
    BY <1>5 DEF Keys
  <2>2. Rightful(key', e)
    BY <2>1, <1>5, StillTrue
  <2> QED BY <2>1, <2>2, <1>2, <1>5
<1>7. KeysTrue'
  <2>1. Up(Founder)'
    BY <1>1, <1>5 DEF Up
  <2>2. \A x \in Masters : key'[x] < nextKey'
    BY <1>2, <1>5
  <2>3. \A x, y \in Masters : key'[x] # 0 /\ key'[x] = key'[y] => x = y
    <3> SUFFICES ASSUME NEW x \in Masters, NEW y \in Masters, key'[x] # 0, key'[x] = key'[y] PROVE x = y
      OBVIOUS
    <3>1. CASE x = m \/ y = m
      BY <3>1, <1>5
    <3>2. CASE x # m /\ y # m
      BY <3>2, <1>5 DEF KeysTrue, Up
    <3> QED BY <3>1, <3>2
  <2>4. ASSUME NEW n \in Nodes, NEW r \in routing'[n] PROVE r.key < nextKey' /\ Rightful(key', r)
    <3>1. CASE n # m
      <4>1. r \in routing[n] /\ r.key \in Keys
        BY <3>1, <2>4, <1>3, Fields
      <4> QED BY <4>1, <1>6 DEF KeysTrue
    <3>2. CASE r = r1
      BY <3>2, <1>2, <1>5 DEF Rightful
    <3>3. CASE r = r2
      <4>1. r.key # 0 /\ r.key < nextKey /\ r.at = Founder /\ r.key = key[Founder]
        BY <3>3, <1>1, <1>5 DEF Up
      <4>2. \A x \in Masters : key'[x] = r.key => x = Founder
        BY <4>1, <1>5 DEF KeysTrue, Up
      <4> QED BY <4>1, <4>2, <1>2, <1>5 DEF Rightful
    <3>4. CASE r \in Listed(p)
      <4>1. PICK q \in routing[Founder] : q.key # key[Founder] /\ r = [key |-> q.key, at |-> p]
        BY <3>4, <1>1 DEF Listed, Others
      <4>2. q.key \in Keys /\ q.key < nextKey /\ q.at # Founder /\ q.at \in Masters
        BY <4>1, Fields DEF KeysTrue, FounderKnows
      <4>3. \A x \in Masters : key'[x] # q.key
        <5>1. q.key # nextKey /\ q.key # key[Founder]
          BY <4>1, <4>2, <1>5
        <5>2. \A x \in Masters : x = m \/ x = Founder
          BY <1>1 DEF TwoMasters
        <5> QED BY ONLY <5>1, <5>2, <1>1, <1>5, Domains, ClusterInv DEF ClusterInv
      <4> QED BY <4>1, <4>2, <4>3, <1>2, <1>5 DEF Rightful, Keys
    <3> QED BY <3>1, <3>2, <3>3, <3>4, <2>4, <1>3
  <2>5. ASSUME NEW i \in joins' PROVE i.key < nextKey' /\ Rightful(key', i)
    <3>1. CASE i \in joins
      <4>1. i.key \in Keys
        BY <3>1, Fields
      <4> QED BY <3>1, <4>1, <1>6 DEF KeysTrue
    <3>2. CASE i = j
      BY <3>2, <1>2, <1>5 DEF Rightful
    <3> QED BY <3>1, <3>2, <2>5, <1>3
  <2>6. ASSUME NEW s \in Slaves, NEW i \in DOMAIN inbox'[s]
        PROVE  /\ inbox'[s][i].key < nextKey' /\ Rightful(key', inbox'[s][i])
               /\ inbox'[s][i].type = "lost" => \A x \in Masters : key'[x] # inbox'[s][i].key
    <3> DEFINE e == inbox[s][i]
    <3>1. inbox' = inbox /\ e \in Message
      BY <2>6, <1>2
    <3>2. e.key \in Keys /\ e.key < nextKey /\ Rightful(key, e) /\ (e.type = "lost" => \A x \in Masters : key[x] # e.key)
      BY <3>1, <2>6, Fields DEF KeysTrue
    <3> HIDE DEF e
    <3>3. e.key < nextKey' /\ Rightful(key', e) /\ (e.type = "lost" => \A x \in Masters : key'[x] # e.key)
      BY <3>2, <1>5, <1>6 DEF Keys
    <3> QED BY <3>1, <3>3 DEF e
  <2> QED BY <2>1, <2>2, <2>3, <2>4, <2>5, <2>6 DEF KeysTrue, Up
<1>8. \A x \in Masters : Announced(x)' => x # m /\ Announced(x)
  <2> SUFFICES ASSUME NEW x \in Masters, Announced(x)' PROVE x # m /\ Announced(x)
    OBVIOUS
  <2>1. x # m
    <3>1. j \in joins' /\ j.key = key'[m]
      BY <1>3, <1>5
    <3> QED BY <3>1 DEF Announced
  <2> QED BY <2>1, <1>3, <1>5 DEF Announced, Up
<1>9. FounderKnows'
  <2>1. routing'[Founder] = routing[Founder] /\ key'[Founder] = key[Founder]
    BY <1>1, <1>3, <1>5
  <2>2. \A i \in joins' : i.by = Founder /\ i.at # Founder
    BY <1>1, <1>3 DEF FounderKnows
  <2>3. \A x \in Masters : Announced(x)' => [key |-> key'[x], at |-> x] \in routing'[Founder]
    BY <2>1, <1>5, <1>8 DEF FounderKnows
  <2> QED BY <2>1, <2>2, <2>3, <1>2 DEF FounderKnows
<1>10. FounderFirst'
  <2>1. key'[Founder] = key[Founder] /\ \A s \in Slaves : routing'[s] = routing[s]
    BY <1>1, <1>3, <1>5
  <2> QED BY <2>1, <1>2 DEF FounderFirst, FounderFirstFor
<1>11. ListsKept'
  <2>1. slaves'[Founder] = slaves[Founder] /\ \A s \in Slaves : routing'[s] = routing[s]
    BY <1>1, <1>3
  <2> SUFFICES ASSUME NEW s \in Slaves \ unreached', NEW x \in Masters, Announced(x)', slave[s].st # "off", ~slave[s].first, s \in slaves[Founder]
               PROVE  Tells(inbox[s], key'[x]) \/ [key |-> key'[x], at |-> x] \in routing[s]
    BY <2>1, <1>2 DEF ListsKept, Coming
  <2> QED BY <1>2, <1>5, <1>8 DEF ListsKept, Coming
<1> QED BY <1>4, <1>7, <1>9, <1>10, <1>11

LEMMA AnnounceStep ==
  ASSUME TwoMasters, ClusterInv, NEW j \in joins, Announce(j)
  PROVE  ClusterInv'
<1> USE Domains DEF ClusterInv
<1> DEFINE r == [key |-> j.key, at |-> j.at]
           msg == Msg(Founder, "new", r)
<1>1. /\ j \in Join /\ r \in Route /\ j.by = Founder /\ j.at # Founder
      /\ j.key \in Keys /\ j.key < nextKey /\ Rightful(key, j)
      /\ joins' = joins \ {j} /\ Tell(Founder, "new", r)
      /\ UNCHANGED <<nextKey, key, slaves, retry, slave, todo, deaths>>
  <2>1. j.by = Founder /\ j.at # Founder /\ j.key < nextKey /\ Rightful(key, j)
    BY DEF FounderKnows, KeysTrue
  <2> QED BY <2>1, AnnounceEffect, Fields DEF Announce
<1>2. /\ routing' \in [Nodes -> SUBSET Route]
      /\ \A n \in Nodes : routing'[n] \in {routing[n], inserted(routing[n], r)}
      /\ routing'[Founder] = inserted(routing[Founder], r)
      /\ \A s \in Slaves : routing'[s] = routing[s]
  BY <1>1, AnnounceEffect
<1>3. /\ inbox' \in [Slaves -> Seq(Message)] /\ msg \in Message
      /\ unreached' \subseteq Slaves /\ unreached \subseteq unreached'
      /\ \A s \in Slaves : \A i \in DOMAIN inbox[s] : i \in DOMAIN inbox'[s] /\ inbox'[s][i] = inbox[s][i]
      /\ \A s \in Slaves : \A i \in DOMAIN inbox'[s] :
           (i \in DOMAIN inbox[s] /\ inbox'[s][i] = inbox[s][i]) \/ inbox'[s][i] = msg
      /\ \A s \in Slaves \ unreached' : s \in slaves[Founder] /\ slave[s].st # "off" =>
           \E i \in DOMAIN inbox'[s] : inbox'[s][i] = msg
  BY <1>1, TellEffect
<1>4. r.key = j.key /\ r.at = j.at /\ msg.key = j.key /\ msg.at = j.at /\ msg.type = "new" /\ msg.by = Founder
      /\ Rightful(key, r) /\ Rightful(key, msg)
  BY <1>1 DEF Rightful, Msg
<1> HIDE DEF r, msg
<1>5. TypeOK'
  BY <1>1, <1>2, <1>3 DEF TypeOK
<1>6. ASSUME NEW n \in Nodes PROVE routing[n] \subseteq routing'[n] /\ routing'[n] \subseteq routing[n] \cup {r}
  <2>1. routing'[n] = routing[n] \/ routing'[n] = inserted(routing[n], r)
    BY <1>2
  <2> QED BY <2>1, InsertedIs
<1>7. KeysTrue'
  <2>1. \A n \in Nodes : \A q \in routing'[n] : q.key < nextKey /\ Rightful(key, q)
    BY <1>1, <1>4, <1>6 DEF KeysTrue
  <2>2. ASSUME NEW s \in Slaves, NEW i \in DOMAIN inbox'[s]
        PROVE  /\ inbox'[s][i].key < nextKey /\ Rightful(key, inbox'[s][i])
               /\ inbox'[s][i].type = "lost" => \A x \in Masters : key[x] # inbox'[s][i].key
    <3>1. CASE i \in DOMAIN inbox[s] /\ inbox'[s][i] = inbox[s][i]
      BY <3>1 DEF KeysTrue
    <3>2. CASE inbox'[s][i] = msg
      BY <3>2, <1>1, <1>4
    <3> QED BY <3>1, <3>2, <1>3
  <2> QED BY <2>1, <2>2, <1>1 DEF KeysTrue, Up
<1>8. ASSUME NEW x \in Masters, Announced(x)' PROVE Announced(x) \/ key[x] = j.key
  BY <1>1, <1>8 DEF Announced, Up
<1>9. FounderKnows'
  <2>1. \A q \in routing'[Founder] : q.key # key[Founder] => q.at # Founder
    BY <1>1, <1>4, <1>6 DEF FounderKnows
  <2>2. ASSUME NEW x \in Masters, Announced(x)' PROVE [key |-> key[x], at |-> x] \in routing'[Founder]
    <3>1. CASE Announced(x)
      BY <3>1, <1>6 DEF FounderKnows
    <3>2. CASE key[x] = j.key
      <4>1. PICK q \in routing'[Founder] : q.key = j.key
        BY <1>2, <1>4, InsertedIs
      <4>2. q \in routing[Founder] \/ q = r
        BY <1>6
      <4>3. Rightful(key, q)
        BY <4>2, <1>4 DEF KeysTrue
      <4>4. q.at = x /\ q \in Route
        BY <4>1, <4>3, <3>2, <1>2 DEF Rightful
      <4>5. q = [key |-> key[x], at |-> x]
        BY <4>1, <4>4, <3>2 DEF Route
      <4> QED BY <4>1, <4>5
    <3> QED BY <2>2, <1>8, <3>1, <3>2
  <2>3. \A i \in joins' : i.by = Founder /\ i.at # Founder
    BY <1>1 DEF FounderKnows
  <2>4. \A s \in Slaves : \A i \in DOMAIN inbox'[s] : inbox'[s][i].type = "new" => inbox'[s][i].by = Founder
    BY ONLY ClusterInv, <1>3, <1>4 DEF ClusterInv, FounderKnows
  <2> QED BY <2>1, <2>2, <2>3, <2>4, <1>1 DEF FounderKnows
<1>10. FounderFirst'
  BY <1>1, <1>2 DEF FounderFirst, FounderFirstFor
<1>11. ListsKept'
  <2> SUFFICES ASSUME NEW s \in Slaves \ unreached', NEW x \in Masters, Announced(x)', slave[s].st # "off", ~slave[s].first, s \in slaves[Founder]
               PROVE  Tells(inbox'[s], key[x]) \/ [key |-> key[x], at |-> x] \in routing[s]
    BY <1>1, <1>2 DEF ListsKept, Coming
  <2>1. CASE Announced(x)
    <3>1. Tells(inbox[s], key[x]) => Tells(inbox'[s], key[x])
      BY <1>3 DEF Tells
    <3> QED BY <3>1, <2>1, <1>3 DEF ListsKept, Coming
  <2>2. CASE key[x] = j.key
    BY <2>2, <1>3, <1>4 DEF Tells
  <2> QED BY <1>8, <2>1, <2>2
<1> QED BY <1>5, <1>7, <1>9, <1>10, <1>11

\* Who does not answer for its key is gone.
LEMMA LostIsGone ==
  ASSUME ClusterInv, NEW m \in Masters, NEW r \in routing[m], r \in Route, ~Answers(r)
  PROVE  \A x \in Masters : key[x] # r.key
<1> SUFFICES ASSUME NEW x \in Masters, key[x] = r.key PROVE FALSE
  OBVIOUS
<1>1. r.at = x /\ r.key # 0
  BY Domains, Fields DEF ClusterInv, KeysTrue, Rightful, Keys
<1> QED BY <1>1 DEF Answers, Up

LEMMA ProbeMasterStep ==
  ASSUME ClusterInv, NEW m \in Masters, NEW r \in Route, ProbeMaster(m, r)
  PROVE  ClusterInv'
<1> USE Domains DEF ClusterInv
<1> DEFINE msg == Msg(m, "lost", r)
<1>1. /\ r \in routing[m] /\ ~Answers(r)
      /\ routing' \in [Nodes -> SUBSET Route]
      /\ routing'[m] = removed(routing[m], r.key)
      /\ \A n \in Nodes \ {m} : routing'[n] = routing[n]
      /\ Tell(m, "lost", r) /\ UNCHANGED <<nextKey, key, slaves, retry, joins, slave, todo, deaths>>
  BY ProbeEffect DEF ProbeMaster
<1>2. \A x \in Masters : key[x] # r.key
  BY <1>1, LostIsGone
<1>3. /\ inbox' \in [Slaves -> Seq(Message)] /\ msg \in Message
      /\ unreached' \subseteq Slaves /\ unreached \subseteq unreached'
      /\ \A s \in Slaves : \A i \in DOMAIN inbox[s] : i \in DOMAIN inbox'[s] /\ inbox'[s][i] = inbox[s][i]
      /\ \A s \in Slaves : \A i \in DOMAIN inbox'[s] :
           (i \in DOMAIN inbox[s] /\ inbox'[s][i] = inbox[s][i]) \/ inbox'[s][i] = msg
  BY <1>1, TellEffect
<1>4. msg.key = r.key /\ msg.type = "lost" /\ r.key < nextKey /\ Rightful(key, msg)
  BY <1>1, <1>2 DEF KeysTrue, Rightful, Msg
<1> HIDE DEF msg
<1>5. TypeOK'
  BY <1>1, <1>3 DEF TypeOK
<1>6. \A n \in Nodes : routing'[n] \subseteq routing[n]
  BY <1>1 DEF removed
<1>7. KeysTrue'
  <2>1. \A s \in Slaves : \A i \in DOMAIN inbox'[s] :
          /\ inbox'[s][i].key < nextKey /\ Rightful(key, inbox'[s][i])
          /\ inbox'[s][i].type = "lost" => \A x \in Masters : key[x] # inbox'[s][i].key
    <3> SUFFICES ASSUME NEW s \in Slaves, NEW i \in DOMAIN inbox'[s]
                 PROVE  /\ inbox'[s][i].key < nextKey /\ Rightful(key, inbox'[s][i])
                        /\ inbox'[s][i].type = "lost" => \A x \in Masters : key[x] # inbox'[s][i].key
      OBVIOUS
    <3>1. CASE i \in DOMAIN inbox[s] /\ inbox'[s][i] = inbox[s][i]
      BY ONLY ClusterInv, <3>1, s \in Slaves DEF ClusterInv, KeysTrue
    <3>2. CASE inbox'[s][i] = msg
      BY ONLY <3>2, <1>2, <1>4
    <3> QED BY ONLY <3>1, <3>2, <1>3, s \in Slaves, i \in DOMAIN inbox'[s]
  <2> QED BY <2>1, <1>1, <1>6 DEF KeysTrue, Up
<1>8. \A x \in Masters : Announced(x)' <=> Announced(x)
  BY <1>1 DEF Announced, Up
<1>9. FounderKnows'
  <2>1. \A x \in Masters : [key |-> key[x], at |-> x] \in routing[Founder] => [key |-> key[x], at |-> x] \in routing'[Founder]
    BY <1>1, <1>2 DEF removed
  <2>2. \A s \in Slaves : \A i \in DOMAIN inbox'[s] : inbox'[s][i].type = "new" => inbox'[s][i].by = Founder
    BY ONLY ClusterInv, <1>3, <1>4 DEF ClusterInv, FounderKnows
  <2> QED BY <2>1, <2>2, <1>1, <1>6, <1>8 DEF FounderKnows
<1>10. FounderFirst'
  <2>1. \A s \in Slaves : routing'[s] = routing[s]
    BY <1>1
  <2> QED BY <2>1, <1>1 DEF FounderFirst, FounderFirstFor
<1>11. ListsKept'
  <2>1. \A s \in Slaves : routing'[s] = routing[s]
    BY <1>1
  <2>2. \A s \in Slaves, k \in Nat : Tells(inbox[s], k) => Tells(inbox'[s], k)
    BY <1>3 DEF Tells
  <2>3. \A x \in Masters : key[x] \in Nat
    OBVIOUS
  <2> SUFFICES ASSUME NEW s \in Slaves \ unreached', NEW x \in Masters, Announced(x)', slave[s].st # "off", ~slave[s].first, s \in slaves[Founder]
               PROVE  Tells(inbox'[s], key[x]) \/ [key |-> key[x], at |-> x] \in routing[s]
    BY <2>1, <1>1 DEF ListsKept, Coming
  <2> QED BY <2>2, <2>3, <1>3, <1>8 DEF ListsKept, Coming
<1> QED BY <1>5, <1>7, <1>9, <1>10, <1>11

LEMMA MasterDiesStep ==
  ASSUME ClusterInv, NEW m \in Masters, MasterDies(m)
  PROVE  ClusterInv'
<1> USE Domains DEF ClusterInv
<1>1. /\ m # Founder /\ key' = [key EXCEPT ![m] = 0] /\ routing' = [routing EXCEPT ![m] = {}]
      /\ slaves' = [slaves EXCEPT ![m] = {}] /\ UNCHANGED <<nextKey, retry, joins, slave, todo, inbox, unreached, deaths>>
  BY MortalAssumption DEF MasterDies
<1>2. TypeOK'
  BY <1>1 DEF TypeOK
<1>3. \A x \in Masters : key'[x] \in {key[x], 0, nextKey} /\ (key'[x] # 0 => key'[x] = key[x])
  BY <1>1
<1>4. \A n \in Nodes : routing'[n] \subseteq routing[n]
  BY <1>1
<1>5. \A e : e.key \in Keys /\ Rightful(key, e) => Rightful(key', e)
  BY <1>3 DEF Rightful, Keys
<1>6. KeysTrue'
  <2>1. \A x \in Masters : key'[x] < nextKey'
    BY <1>1 DEF KeysTrue
  <2>2. \A x, y \in Masters : key'[x] # 0 /\ key'[x] = key'[y] => x = y
    BY <1>3 DEF KeysTrue, Up
  <2>3. key'[Founder] # 0
    BY <1>1 DEF KeysTrue, Up
  <2>4. \A n \in Nodes : \A r \in routing'[n] : r.key < nextKey' /\ Rightful(key', r)
    BY <1>1, <1>4, <1>5, Fields DEF KeysTrue
  <2>5. \A j \in joins' : j.key < nextKey' /\ Rightful(key', j)
    BY <1>1, <1>5, Fields DEF KeysTrue
  <2>6. ASSUME NEW s \in Slaves, NEW i \in DOMAIN inbox[s]
        PROVE  /\ inbox[s][i].key < nextKey /\ Rightful(key', inbox[s][i])
               /\ inbox[s][i].type = "lost" => \A x \in Masters : key'[x] # inbox[s][i].key
    <3>1. inbox[s][i].key \in Keys
      BY <2>6, Fields
    <3> QED BY <3>1, <2>6, <1>3, <1>5 DEF KeysTrue, Keys
  <2>7. \A s \in Slaves : \A i \in DOMAIN inbox'[s] :
          /\ inbox'[s][i].key < nextKey' /\ Rightful(key', inbox'[s][i])
          /\ inbox'[s][i].type = "lost" => \A x \in Masters : key'[x] # inbox'[s][i].key
    BY <2>6, <1>1
  <2> QED BY <2>1, <2>2, <2>3, <2>4, <2>5, <2>7 DEF KeysTrue, Up
<1>7. \A x \in Masters : Announced(x)' => Announced(x) /\ key'[x] = key[x]
  <2> SUFFICES ASSUME NEW x \in Masters, Announced(x)' PROVE Announced(x) /\ key'[x] = key[x]
    OBVIOUS
  <2> QED BY <1>1, <1>3 DEF Announced, Up
<1>8. FounderKnows'
  BY <1>1, <1>7 DEF FounderKnows
<1>9. FounderFirst'
  <2>1. key'[Founder] = key[Founder] /\ \A s \in Slaves : routing'[s] = routing[s]
    BY <1>1
  <2> QED BY <2>1, <1>1 DEF FounderFirst, FounderFirstFor
<1>10. ListsKept'
  <2> SUFFICES ASSUME NEW s \in Slaves \ unreached', NEW x \in Masters, Announced(x)', slave[s].st # "off", ~slave[s].first, s \in slaves[Founder]
               PROVE  Tells(inbox[s], key'[x]) \/ [key |-> key'[x], at |-> x] \in routing[s]
    BY <1>1 DEF ListsKept, Coming
  <2> QED BY <1>1, <1>7 DEF ListsKept, Coming
<1> QED BY <1>2, <1>6, <1>8, <1>9, <1>10

\* What the slave s can know: an entry of a list, a master that runs, or one it reads of.
Heard(s, r) ==
  \/ \E n \in Nodes : r \in routing[n]
  \/ \E m \in Masters : Up(m) /\ r = [key |-> key[m], at |-> m]
  \/ \E i \in DOMAIN inbox[s] : r = [key |-> inbox[s][i].key, at |-> inbox[s][i].at]

\* Steps that leave the masters, their lists and their keys as they are.
LEMMA SlaveFrame ==
  ASSUME ClusterInv, NEW s \in Slaves, UNCHANGED <<nextKey, key, joins>>,
         routing' \in [Nodes -> SUBSET Route], \A n \in Nodes \ {s} : routing'[n] = routing[n],
         inbox' \in [Slaves -> Seq(Message)], \A u \in Slaves \ {s} : inbox'[u] = inbox[u],
         \A r \in routing'[s] : Heard(s, r),
         \A i \in DOMAIN inbox'[s] : \E k \in DOMAIN inbox[s] : inbox'[s][i] = inbox[s][k]
  PROVE  /\ KeysTrue' /\ FounderKnows'
         /\ \A m \in Masters : Announced(m)' <=> Announced(m)
<1> USE Domains DEF ClusterInv
<1>1. ASSUME NEW n \in Nodes, NEW r \in routing'[n] PROVE r.key < nextKey /\ Rightful(key, r)
  <2>1. CASE \E k \in Nodes : r \in routing[k]
    BY <2>1 DEF KeysTrue
  <2>2. ASSUME NEW m \in Masters, Up(m), r = [key |-> key[m], at |-> m] PROVE r.key < nextKey /\ Rightful(key, r)
    BY <2>2 DEF KeysTrue, Rightful, Up
  <2>3. ASSUME NEW i \in DOMAIN inbox[s], r = [key |-> inbox[s][i].key, at |-> inbox[s][i].at]
        PROVE r.key < nextKey /\ Rightful(key, r)
    BY <2>3 DEF KeysTrue, Rightful
  <2>4. CASE n # s
    BY <2>4, <2>1, <1>1
  <2> QED BY <2>1, <2>2, <2>3, <2>4, <1>1 DEF Heard
<1>2. ASSUME NEW u \in Slaves, NEW i \in DOMAIN inbox'[u]
      PROVE  /\ inbox'[u][i].key < nextKey /\ Rightful(key, inbox'[u][i])
             /\ inbox'[u][i].type = "lost" => \A x \in Masters : key[x] # inbox'[u][i].key
  <2>1. PICK k \in DOMAIN inbox[u] : inbox'[u][i] = inbox[u][k]
    <3>1. u # s => inbox'[u] = inbox[u]
      OBVIOUS
    <3> QED BY ONLY <3>1, <1>2, u \in Slaves, \A h \in DOMAIN inbox'[s] : \E e \in DOMAIN inbox[s] : inbox'[s][h] = inbox[s][e]
  <2>2. /\ inbox[u][k].key < nextKey /\ Rightful(key, inbox[u][k])
        /\ inbox[u][k].type = "lost" => \A x \in Masters : key[x] # inbox[u][k].key
    BY ONLY ClusterInv, <2>1 DEF ClusterInv, KeysTrue
  <2> QED BY ONLY <2>1, <2>2
<1>3. KeysTrue'
  BY <1>1, <1>2 DEF KeysTrue, Up
<1>4. \A m \in Masters : Announced(m)' <=> Announced(m)
  BY DEF Announced, Up
<1>5. routing'[Founder] = routing[Founder]
  OBVIOUS
<1>6. ASSUME NEW u \in Slaves, NEW i \in DOMAIN inbox'[u], inbox'[u][i].type = "new" PROVE inbox'[u][i].by = Founder
  <2>1. PICK k \in DOMAIN inbox[u] : inbox'[u][i] = inbox[u][k]
    <3>1. u # s => inbox'[u] = inbox[u]
      OBVIOUS
    <3> QED BY ONLY <3>1, <1>6, u \in Slaves, \A h \in DOMAIN inbox'[s] : \E e \in DOMAIN inbox[s] : inbox'[s][h] = inbox[s][e]
  <2> QED BY ONLY ClusterInv, <2>1, <1>6 DEF ClusterInv, FounderKnows
<1> QED BY <1>3, <1>4, <1>5, <1>6 DEF FounderKnows

\* A slave whose process is gone, or has just been started, knows nothing.
LEMMA GoneStep ==
  ASSUME ClusterInv, NEW s \in Slaves, Gone(s), UNCHANGED <<nextKey, key, slaves, retry, joins>>, deaths' \in 0 .. MaxDeaths
  PROVE  ClusterInv'
<1> USE Domains DEF ClusterInv
<1>1. /\ slave' \in [Slaves -> Process] /\ todo' \in [Slaves -> SUBSET Masters]
      /\ routing' \in [Nodes -> SUBSET Route] /\ inbox' \in [Slaves -> Seq(Message)]
      /\ slave'[s].st = "off" /\ slave'[s].first /\ todo'[s] = {} /\ routing'[s] = {} /\ inbox'[s] = <<>>
      /\ \A u \in Slaves \ {s} : slave'[u] = slave[u] /\ todo'[u] = todo[u] /\ inbox'[u] = inbox[u]
      /\ \A n \in Nodes \ {s} : routing'[n] = routing[n]
      /\ unreached' = unreached \ {s} /\ unreached' \subseteq Slaves
  BY GoneEffect
<1>2. TypeOK'
  BY <1>1 DEF TypeOK
<1>3. KeysTrue' /\ FounderKnows' /\ \A m \in Masters : Announced(m)' <=> Announced(m)
  <2>1. DOMAIN inbox'[s] = {} /\ \A r \in routing'[s] : Heard(s, r)
    BY <1>1
  <2>2. UNCHANGED <<nextKey, key, joins>>
    OBVIOUS
  <2> QED BY ONLY ClusterInv, <2>1, <2>2, <1>1, SlaveFrame
<1>4. FounderFirst'
  <2> SUFFICES ASSUME NEW u \in Slaves PROVE FounderFirstFor(u)'
    BY DEF FounderFirst
  <2>1. CASE u = s
    BY ONLY <1>1, <2>1 DEF FounderFirstFor
  <2>2. CASE u # s
    <3>1. key' = key /\ routing'[u] = routing[u]
      BY <1>1, <2>2
    <3> QED BY ONLY <3>1, <1>1, <2>2, u \in Slaves, ClusterInv DEF ClusterInv, FounderFirst, FounderFirstFor
  <2> QED BY <2>1, <2>2
<1>5. ListsKept'
  <2> SUFFICES ASSUME NEW u \in Slaves \ unreached', NEW x \in Masters, Announced(x)', slave'[u].st # "off", ~slave'[u].first, u \in slaves[Founder]
               PROVE  Tells(inbox'[u], key[x]) \/ [key |-> key[x], at |-> x] \in routing'[u]
    BY DEF ListsKept, Coming
  <2>1. u # s
    BY <1>1
  <2>2. slave'[u] = slave[u] /\ inbox'[u] = inbox[u] /\ routing'[u] = routing[u] /\ u \notin unreached
    BY <2>1, <1>1
  <2> QED BY <2>2, <1>3 DEF ListsKept, Coming
<1> QED BY <1>2, <1>3, <1>4, <1>5

\* What a slave does with its process alone.
LEMMA ProcessStep ==
  ASSUME ClusterInv, NEW s \in Slaves, UNCHANGED <<nextKey, key, routing, joins, inbox, unreached, deaths>>,
         slave' \in [Slaves -> Process], todo' \in [Slaves -> SUBSET Masters],
         slaves' \in [Masters -> SUBSET Slaves], retry' \in [Masters -> [Slaves -> 0 .. MaxRetry + 1]],
         \A u \in Slaves \ {s} : slave'[u] = slave[u] /\ todo'[u] = todo[u] /\ (u \in slaves'[Founder] => u \in slaves[Founder]),
         slave'[s].first \/ (slave[s].st # "off" /\ slave'[s].first = slave[s].first /\ (s \in slaves'[Founder] => s \in slaves[Founder])),
         slave'[s].st = "inserted" => slave'[s].first,
         slave'[s].st = "on" => ~slave'[s].first,
         slave'[s].st \in {"checked", "inserted"} => (slave'[s].first <=> slave'[s].at = Founder),
         slave'[s].st = "connect" /\ slave'[s].first => todo'[s] \subseteq {Founder},
         ~slave'[s].first => Founder \notin todo'[s]
  PROVE  ClusterInv'
<1> USE Domains DEF ClusterInv
<1>1. TypeOK'
  BY DEF TypeOK
<1>2. KeysTrue' /\ FounderKnows' /\ \A m \in Masters : Announced(m)' <=> Announced(m)
  BY DEF KeysTrue, FounderKnows, Announced, Up
<1>3. FounderFirst'
  <2> SUFFICES ASSUME NEW u \in Slaves PROVE FounderFirstFor(u)'
    BY DEF FounderFirst
  <2>1. CASE u = s
    BY <2>1 DEF FounderFirst, FounderFirstFor
  <2>2. CASE u # s
    <3>1. slave'[u] = slave[u] /\ todo'[u] = todo[u] /\ key' = key /\ routing' = routing
      BY <2>2
    <3> QED BY ONLY <3>1, u \in Slaves, ClusterInv DEF ClusterInv, FounderFirst, FounderFirstFor
  <2> QED BY <2>1, <2>2
<1>4. ListsKept'
  <2> SUFFICES ASSUME NEW u \in Slaves \ unreached', NEW x \in Masters, Announced(x)', slave'[u].st # "off", ~slave'[u].first, u \in slaves'[Founder]
               PROVE  Tells(inbox[u], key[x]) \/ [key |-> key[x], at |-> x] \in routing[u]
    BY DEF ListsKept, Coming
  <2>1. slave[u].st # "off" /\ ~slave[u].first /\ u \in slaves[Founder]
    OBVIOUS
  <2> QED BY <2>1, <1>2 DEF ListsKept, Coming
<1> QED BY <1>1, <1>2, <1>3, <1>4

LEMMA StartSlaveStep ==
  ASSUME ClusterInv, NEW s \in Slaves, StartSlave(s)
  PROVE  ClusterInv'
<1>1. /\ slave' \in [Slaves -> Process] /\ slave'[s] = [Off EXCEPT !.st = "connect"]
      /\ todo' \in [Slaves -> SUBSET Masters] /\ todo'[s] = {Founder}
      /\ \A u \in Slaves \ {s} : slave'[u] = slave[u] /\ todo'[u] = todo[u]
      /\ UNCHANGED <<nextKey, key, routing, slaves, retry, joins, inbox, unreached, deaths>>
  BY Domains, OffIs DEF StartSlave, ClusterInv
<1>2. slave'[s].st = "connect" /\ slave'[s].first
  BY <1>1, OffIs
<1> QED BY <1>1, <1>2, Domains, ProcessStep DEF ClusterInv

LEMMA ConnectStep ==
  ASSUME ClusterInv, NEW s \in Slaves, NEW m \in Masters, Connect(s, m)
  PROVE  ClusterInv'
<1>1. UNCHANGED <<nextKey, key, slaves, retry, joins, deaths>>
  BY DEF Connect
<1>2. CASE Gone(s)
  BY <1>1, <1>2, Domains, GoneStep DEF ClusterInv
<1>3. CASE ~Gone(s)
  <2>1. /\ slave' \in [Slaves -> Process] /\ todo' \in [Slaves -> SUBSET Masters]
        /\ slave'[s].st = "checked" /\ slave'[s].at = m /\ slave'[s].first = slave[s].first
        /\ slave[s].st = "connect" /\ m \in todo[s] /\ todo'[s] \subseteq todo[s]
        /\ \A u \in Slaves \ {s} : slave'[u] = slave[u] /\ todo'[u] = todo[u]
        /\ UNCHANGED <<routing, inbox, unreached>>
    BY <1>3, ConnectEffect DEF ClusterInv
  <2>2. (slave[s].first <=> m = Founder) /\ (~slave[s].first => Founder \notin todo[s])
    BY <2>1 DEF ClusterInv, FounderFirst, FounderFirstFor
  <2>3. slave'[s].first \in BOOLEAN
    BY <2>1 DEF Process
  <2> QED BY <2>1, <2>2, <2>3, <1>1, Domains, ProcessStep DEF ClusterInv
<1> QED BY <1>2, <1>3

LEMMA InsertSlaveStep ==
  ASSUME ClusterInv, NEW s \in Slaves, InsertSlave(s)
  PROVE  ClusterInv'
<1>1. /\ slave[s].st = "checked" /\ slave[s].at \in Masters
      /\ slaves' = [slaves EXCEPT ![slave[s].at] = @ \cup {s}] /\ slaves' \in [Masters -> SUBSET Slaves]
      /\ retry' \in [Masters -> [Slaves -> 0 .. MaxRetry + 1]]
      /\ slave' \in [Slaves -> Process]
      /\ slave'[s].st = (IF slave[s].first THEN "inserted" ELSE IF todo[s] = {} THEN "on" ELSE "connect")
      /\ slave'[s].first = slave[s].first /\ slave'[s].at = slave[s].at
      /\ \A u \in Slaves \ {s} : slave'[u] = slave[u]
      /\ UNCHANGED <<nextKey, key, routing, joins, todo, inbox, unreached, deaths>>
  BY InsertSlaveEffect DEF ClusterInv, InsertSlave
<1>2. slave[s].first <=> slave[s].at = Founder
  BY <1>1 DEF ClusterInv, FounderFirst, FounderFirstFor
<1>3. ~slave[s].first => Founder \notin todo[s]
  BY DEF ClusterInv, FounderFirst, FounderFirstFor
<1> QED BY <1>1, <1>2, <1>3, Domains, ProcessStep DEF ClusterInv

LEMMA ListMastersStep ==
  ASSUME ClusterInv, NEW s \in Slaves, ListMasters(s)
  PROVE  ClusterInv'
<1> USE Domains DEF ClusterInv
<1>1. slave[s].st = "inserted" /\ slave[s].at = Founder /\ Up(slave[s].at)
  BY DEF ListMasters, FounderFirst, FounderFirstFor, KeysTrue
<1>2. /\ routing' \in [Nodes -> SUBSET Route]
      /\ routing'[s] = {[key |-> key[Founder], at |-> Founder]} \cup Others(Founder)
      /\ \A n \in Nodes \ {s} : routing'[n] = routing[n]
      /\ todo' \in [Slaves -> SUBSET Masters] /\ todo'[s] = ToJoin(Others(Founder))
      /\ slave' \in [Slaves -> Process] /\ slave'[s].st \in {"on", "connect"} /\ ~slave'[s].first
      /\ \A u \in Slaves \ {s} : slave'[u] = slave[u] /\ todo'[u] = todo[u]
  BY <1>1, ListMastersEffect
<1>3. UNCHANGED <<nextKey, key, slaves, retry, joins, inbox, unreached, deaths>>
  BY DEF ListMasters
<1>4. TypeOK'
  BY <1>2, <1>3 DEF TypeOK
<1>5. KeysTrue' /\ FounderKnows' /\ \A m \in Masters : Announced(m)' <=> Announced(m)
  <2>1. \A r \in routing'[s] : Heard(s, r)
    BY <1>1, <1>2 DEF Others, Heard
  <2>2. \A i \in DOMAIN inbox'[s] : \E k \in DOMAIN inbox[s] : inbox'[s][i] = inbox[s][k]
    BY <1>3
  <2>3. UNCHANGED <<nextKey, key, joins>> /\ inbox' \in [Slaves -> Seq(Message)] /\ \A u \in Slaves \ {s} : inbox'[u] = inbox[u]
    BY <1>3
  <2> QED BY ONLY ClusterInv, <2>1, <2>2, <2>3, <1>2, SlaveFrame
<1>6. FounderFirst'
  <2>1. Founder \notin todo'[s]
    BY <1>2 DEF ToJoin, Others, FounderKnows
  <2>2. \A u \in Slaves \ {s} : slave'[u] = slave[u] /\ todo'[u] = todo[u]
    BY <1>2
  <2>3. slave'[s].st \in {"on", "connect"} /\ ~slave'[s].first
    BY <1>2
  <2>4. key' = key /\ [key |-> key[Founder], at |-> Founder] \in routing'[s] /\ \A u \in Slaves \ {s} : routing'[u] = routing[u]
    BY <1>2, <1>3
  <2> QED BY ONLY ClusterInv, <2>1, <2>2, <2>3, <2>4 DEF ClusterInv, FounderFirst, FounderFirstFor
<1>7. ListsKept'
  <2>1. \A x \in Masters : Announced(x) => [key |-> key[x], at |-> x] \in routing'[s]
    <3> SUFFICES ASSUME NEW x \in Masters, Announced(x) PROVE [key |-> key[x], at |-> x] \in routing'[s]
      OBVIOUS
    <3>1. [key |-> key[x], at |-> x] \in routing[Founder] /\ Up(x)
      BY DEF FounderKnows, Announced
    <3>2. CASE key[x] = key[Founder]
      BY <3>1, <3>2, <1>2 DEF KeysTrue
    <3>3. CASE key[x] # key[Founder]
      BY <3>1, <3>3, <1>2 DEF Others
    <3> QED BY <3>2, <3>3
  <2> SUFFICES ASSUME NEW u \in Slaves \ unreached', NEW x \in Masters, Announced(x)', slave'[u].st # "off", ~slave'[u].first, u \in slaves[Founder]
               PROVE  Tells(inbox[u], key[x]) \/ [key |-> key[x], at |-> x] \in routing'[u]
    BY <1>3 DEF ListsKept, Coming
  <2>2. CASE u = s
    BY <2>1, <2>2, <1>5
  <2>3. CASE u # s
    <3>1. slave'[u] = slave[u] /\ routing'[u] = routing[u] /\ u \notin unreached
      BY <2>3, <1>2, <1>3
    <3> QED BY <3>1, <1>5 DEF ListsKept, Coming
  <2> QED BY <2>2, <2>3
<1> QED BY <1>4, <1>5, <1>6, <1>7

\* A message drops nobody who runs.
LEMMA HandleKeeps ==
  ASSUME ClusterInv, NEW s \in Slaves, Handle(s)
  PROVE  \A x \in Masters, r \in routing[s] : Up(x) /\ r.key = key[x] => r \in routing'[s]
<1> USE Domains DEF ClusterInv
<1>1. /\ inbox[s] # <<>> /\ inbox[s] \in Seq(Message)
      /\ routing'[s] \in {routing[s], Obeyed(routing[s], Head(inbox[s]))}
  BY HandleEffect
<1>2. 1 \in DOMAIN inbox[s] /\ Head(inbox[s]) = inbox[s][1] /\ inbox[s][1] \in Message
  BY <1>1, Taken
<1>3. CASE inbox[s][1].type = "new"
  BY <1>1, <1>2, <1>3, InsertedIs DEF Obeyed
<1>4. CASE inbox[s][1].type = "lost"
  BY <1>1, <1>2, <1>4 DEF Obeyed, removed, KeysTrue
<1> QED BY <1>2, <1>3, <1>4, Fields

LEMMA HandleStep ==
  ASSUME ClusterInv, NEW s \in Slaves, Handle(s)
  PROVE  ClusterInv'
<1> USE Domains DEF ClusterInv
<1>1. /\ inbox[s] # <<>> /\ inbox[s] \in Seq(Message)
      /\ routing' \in [Nodes -> SUBSET Route]
      /\ routing'[s] = IF Known(routing[s], Head(inbox[s]).by) THEN Obeyed(routing[s], Head(inbox[s])) ELSE routing[s]
      /\ \A n \in Nodes \ {s} : routing'[n] = routing[n]
      /\ inbox' \in [Slaves -> Seq(Message)] /\ inbox'[s] = Tail(inbox[s])
      /\ \A u \in Slaves \ {s} : inbox'[u] = inbox[u]
  BY HandleEffect
<1>2. UNCHANGED <<nextKey, key, slaves, retry, joins, slave, todo, unreached, deaths>>
  BY DEF Handle
<1>3. /\ 1 \in DOMAIN inbox[s] /\ Head(inbox[s]) = inbox[s][1]
      /\ \A i \in DOMAIN Tail(inbox[s]) : i + 1 \in DOMAIN inbox[s] /\ Tail(inbox[s])[i] = inbox[s][i + 1]
      /\ \A i \in DOMAIN inbox[s] : i # 1 => i - 1 \in DOMAIN Tail(inbox[s]) /\ Tail(inbox[s])[i - 1] = inbox[s][i]
  BY <1>1, Taken
<1> DEFINE e == [key |-> inbox[s][1].key, at |-> inbox[s][1].at]
<1>4. routing'[s] \subseteq routing[s] \cup {e}
  BY <1>1, <1>3, InsertedIs DEF Obeyed, removed
<1>5. KeysTrue' /\ FounderKnows' /\ \A m \in Masters : Announced(m)' <=> Announced(m)
  <2>1. \A r \in routing'[s] : Heard(s, r)
    BY <1>3, <1>4 DEF Heard
  <2>2. \A i \in DOMAIN inbox'[s] : \E k \in DOMAIN inbox[s] : inbox'[s][i] = inbox[s][k]
    BY <1>1, <1>3
  <2>3. UNCHANGED <<nextKey, key, joins>>
    BY <1>2
  <2> QED BY ONLY ClusterInv, <2>1, <2>2, <2>3, <1>1, SlaveFrame
<1>6. TypeOK'
  BY <1>1, <1>2 DEF TypeOK
<1>7. FounderFirst'
  <2> SUFFICES ASSUME NEW u \in Slaves PROVE FounderFirstFor(u)'
    BY DEF FounderFirst
  <2>1. FounderFirstFor(u) /\ Up(Founder)
    BY DEF FounderFirst, KeysTrue
  <2>2. [key |-> key[Founder], at |-> Founder] \in routing[u] => [key |-> key[Founder], at |-> Founder] \in routing'[u]
    BY <2>1, <1>1, HandleKeeps
  <2> QED BY ONLY <2>1, <2>2, <1>2 DEF FounderFirstFor
<1>8. ListsKept'
  <2> SUFFICES ASSUME NEW u \in Slaves \ unreached', NEW x \in Masters, Announced(x)', slave[u].st # "off", ~slave[u].first, u \in slaves[Founder]
               PROVE  Tells(inbox'[u], key[x]) \/ [key |-> key[x], at |-> x] \in routing'[u]
    BY <1>2 DEF ListsKept, Coming
  <2>1. Tells(inbox[u], key[x]) \/ [key |-> key[x], at |-> x] \in routing[u]
    BY <1>2, <1>5 DEF ListsKept, Coming
  <2>2. CASE u # s
    BY <2>1, <2>2, <1>1
  <2>3. CASE u = s /\ [key |-> key[x], at |-> x] \in routing[u]
    BY <2>3, <1>5, HandleKeeps DEF Announced
  <2>4. ASSUME u = s, NEW i \in DOMAIN inbox[s], inbox[s][i].type = "new", inbox[s][i].key = key[x]
        PROVE  Tells(inbox'[u], key[x]) \/ [key |-> key[x], at |-> x] \in routing'[u]
    <3>1. CASE i # 1
      <4>1. i - 1 \in DOMAIN inbox'[s] /\ inbox'[s][i - 1] = inbox[s][i]
        BY <3>1, <1>1, <1>3
      <4> QED BY <4>1, <2>4 DEF Tells
    <3>2. CASE i = 1
      <4>6. inbox[s][1].by = Founder /\ [key |-> key[Founder], at |-> Founder] \in routing[s]
        BY <3>2, <2>4 DEF FounderKnows, FounderFirst, FounderFirstFor
      <4>7. Known(routing[s], inbox[s][1].by)
        BY <4>6 DEF Known
      <4>1. routing'[s] = inserted(routing[s], e) /\ e.key = key[x]
        BY <3>2, <2>4, <1>1, <1>3, <4>7 DEF Obeyed
      <4>5. \E q \in inserted(routing[s], e) : q.key = e.key
        BY ONLY InsertedIs
      <4>2. PICK q \in routing'[s] : q.key = key[x]
        BY ONLY <4>1, <4>5
      <4>3. Rightful(key, q) /\ q \in Route
        BY <1>1, <1>2, <1>5 DEF KeysTrue
      <4>4. q = [key |-> key[x], at |-> x]
        BY <4>2, <4>3 DEF Rightful, Route
      <4> QED BY <4>2, <4>4, <2>4
    <3> QED BY <3>1, <3>2
  <2> QED BY <2>1, <2>2, <2>3, <2>4 DEF Tells
<1> QED BY <1>5, <1>6, <1>7, <1>8

LEMMA ProbeSlavesStep ==
  ASSUME ClusterInv, NEW m \in Masters, ProbeSlaves(m)
  PROVE  ClusterInv'
<1> USE Domains DEF ClusterInv
<1>1. UNCHANGED <<nextKey, key, routing, joins, slave, todo, inbox, unreached, deaths>>
  BY DEF ProbeSlaves
<1>2. ASSUME NEW s \in Without(slaves[m], checkLost(m)) PROVE Count(m, s) \in 0 .. MaxRetry + 1
  <2>1. s \in slaves[m] /\ s \in Slaves /\ ~(Count(m, s) > MaxRetry)
    BY <1>2 DEF Without, checkLost
  <2>2. retry[m][s] \in Nat
    BY <2>1
  <2>3. Count(m, s) \in Nat
    BY <2>2 DEF Count, ProbeAnswer
  <2> QED BY <2>1, <2>3
<1>3. [s \in Slaves |-> IF s \in Without(slaves[m], checkLost(m)) THEN Count(m, s) ELSE 0] \in [Slaves -> 0 .. MaxRetry + 1]
  BY <1>2
<1>4. retry' \in [Masters -> [Slaves -> 0 .. MaxRetry + 1]]
  BY <1>3 DEF ProbeSlaves
<1>5. slaves' \in [Masters -> SUBSET Slaves] /\ slaves'[Founder] \subseteq slaves[Founder]
  BY DEF ProbeSlaves, Without
<1>6. TypeOK'
  BY <1>1, <1>4, <1>5 DEF TypeOK
<1>7. KeysTrue' /\ FounderKnows' /\ FounderFirst' /\ \A x \in Masters : Announced(x)' <=> Announced(x)
  BY <1>1 DEF KeysTrue, FounderKnows, FounderFirst, FounderFirstFor, Announced, Up
<1>8. ListsKept'
  <2> SUFFICES ASSUME NEW u \in Slaves \ unreached', NEW x \in Masters, Announced(x)', slave[u].st # "off", ~slave[u].first, u \in slaves'[Founder]
               PROVE  Tells(inbox[u], key[x]) \/ [key |-> key[x], at |-> x] \in routing[u]
    BY <1>1 DEF ListsKept, Coming
  <2> QED BY <1>1, <1>5, <1>7 DEF ListsKept, Coming
<1> QED BY <1>6, <1>7, <1>8

LEMMA NextInv ==
  ASSUME TwoMasters, ClusterInv, [Next]_vars
  PROVE  ClusterInv'
<1>1. CASE UNCHANGED vars
  <2>1. TypeOK' /\ KeysTrue' /\ FounderFirst'
    BY <1>1 DEF vars, ClusterInv, TypeOK, KeysTrue, FounderFirst, FounderFirstFor, Up
  <2>2. \A m \in Masters : Announced(m)' <=> Announced(m)
    BY <1>1 DEF vars, Announced, Up
  <2>3. FounderKnows' /\ ListsKept'
    BY <1>1, <2>2 DEF vars, ClusterInv, FounderKnows, ListsKept, Coming
  <2> QED BY <2>1, <2>3 DEF ClusterInv
<1>2. ASSUME NEW m \in Masters, NEW p \in Masters, JoinMaster(m, p) PROVE ClusterInv'
  BY <1>2, JoinMasterStep
<1>3. ASSUME NEW j \in joins, Announce(j) PROVE ClusterInv'
  BY <1>3, AnnounceStep
<1>4. ASSUME NEW m \in Masters, NEW r \in Route, ProbeMaster(m, r) PROVE ClusterInv'
  BY <1>4, ProbeMasterStep
<1>5. ASSUME NEW s \in Slaves, SlaveDies(s) PROVE ClusterInv'
  <2>1. Gone(s) /\ UNCHANGED <<nextKey, key, slaves, retry, joins>> /\ deaths' \in 0 .. MaxDeaths
    BY <1>5, Domains DEF SlaveDies, ClusterInv
  <2> QED BY <2>1, GoneStep
<1>6. ASSUME NEW s \in Slaves, StartSlave(s) \/ InsertSlave(s) \/ ListMasters(s) \/ Handle(s) PROVE ClusterInv'
  BY <1>6, StartSlaveStep, InsertSlaveStep, ListMastersStep, HandleStep
<1>7. ASSUME NEW s \in Slaves, NEW m \in Masters, Connect(s, m) PROVE ClusterInv'
  BY <1>7, ConnectStep
<1>8. ASSUME NEW m \in Masters, ProbeSlaves(m) \/ MasterDies(m) PROVE ClusterInv'
  BY <1>8, ProbeSlavesStep, MasterDiesStep
<1> QED BY <1>1, <1>2, <1>3, <1>4, <1>5, <1>6, <1>7, <1>8 DEF Next

\* With one master beside the first, what the promises of Cluster rest on holds through all
\* the joins, announcements, probes and deaths: the entries of processJoin and of the
\* messages of master.cpp and slave.cpp are right, and none that matters is missing.
THEOREM ClusterInvariant ==
  ASSUME TwoMasters
  PROVE  Spec => []ClusterInv
<1>1. ClusterInv /\ [Next]_vars => ClusterInv'
  BY NextInv
<1> QED BY InitInv, <1>1, PTL DEF Spec

\* With one master beside the first, a slave that the first one lists, and that no message has
\* missed, knows every master that has been announced, or is about to read of it from a
\* master that it obeys (slave.cpp, run): processSlaveJoin and processMasterJoin, on
\* different threads, cannot pass by each other.
THEOREM SlavesAlwaysObey ==
  ASSUME TwoMasters
  PROVE  Spec => []SlavesObeyMasters
<1>1. ClusterInv => SlavesObeyMasters
  BY DEF SlavesObeyMasters, ObeyedBy, ClusterInv, ListsKept, FounderFirst, FounderFirstFor
<1> QED BY <1>1, ClusterInvariant, PTL

\* With one master beside the first, the probes of Master::run, and the messages that they
\* send to the slaves, drop no master whose process runs.
THEOREM DroppedAreLost ==
  ASSUME TwoMasters
  PROVE  Spec => OnlyLostMastersDropped
<1> DEFINE Dropped == \A n \in Nodes, m \in Masters :
                        /\ Up(m) /\ key'[m] = key[m]
                        /\ \E r \in routing[n] : r.key = key[m]
                        /\ IF n \in Masters THEN key'[n] = key[n] ELSE slave'[n].st = slave[n].st
                        => \E r \in routing'[n] : r.key = key[m]
<1>1. ClusterInv /\ [Next]_vars => Dropped
  <2> SUFFICES ASSUME ClusterInv, [Next]_vars,
                      NEW n \in Nodes, NEW x \in Masters, Up(x), NEW r \in routing[n], r.key = key[x],
                      IF n \in Masters THEN key'[n] = key[n] ELSE slave'[n].st = slave[n].st
               PROVE  r \in routing'[n]
    OBVIOUS
  <2> USE Domains DEF ClusterInv
  <2>1. CASE UNCHANGED vars
    BY <2>1 DEF vars
  <2>2. ASSUME NEW m \in Masters, NEW p \in Masters, JoinMaster(m, p) PROVE r \in routing'[n]
    <3>1. Up(p) /\ ~Up(m) /\ nextKey \in Keys /\ HandOver(p, m, nextKey) /\ key' = [key EXCEPT ![m] = nextKey]
      BY <2>2 DEF JoinMaster
    <3>2. \A u \in Nodes \ {m} : routing'[u] = routing[u]
      BY <3>1, HandOverEffect
    <3>3. n # m
      BY <3>1 DEF Up, Keys
    <3> QED BY <3>2, <3>3
  <2>3. ASSUME NEW j \in joins, Announce(j) PROVE r \in routing'[n]
    <3> DEFINE e == [key |-> j.key, at |-> j.at]
    <3>1. routing'[n] \in {routing[n], inserted(routing[n], e)}
      BY <2>3, AnnounceEffect
    <3>2. routing[n] \subseteq inserted(routing[n], e)
      BY InsertedIs
    <3> QED BY <3>1, <3>2
  <2>4. ASSUME NEW m \in Masters, NEW q \in Route, ProbeMaster(m, q) PROVE r \in routing'[n]
    <3>1. /\ q \in routing[m] /\ ~Answers(q) /\ routing'[m] = removed(routing[m], q.key)
          /\ \A u \in Nodes \ {m} : routing'[u] = routing[u]
      BY <2>4, ProbeEffect
    <3>2. key[x] # q.key
      BY <3>1, LostIsGone
    <3> QED BY <3>1, <3>2 DEF removed
  <2>5. ASSUME NEW s \in Slaves, Gone(s), slave[s].st # "off" PROVE r \in routing'[n]
    <3>1. slave'[s].st = "off" /\ \A u \in Nodes \ {s} : routing'[u] = routing[u]
      BY <2>5, GoneEffect
    <3>2. n # s
      BY <3>1, <2>5
    <3> QED BY <3>1, <3>2
  <2>6. ASSUME NEW s \in Slaves, SlaveDies(s) PROVE r \in routing'[n]
    BY <2>5, <2>6 DEF SlaveDies
  <2>7. ASSUME NEW s \in Slaves, NEW m \in Masters, Connect(s, m) PROVE r \in routing'[n]
    BY <2>5, <2>7 DEF Connect
  <2>8. ASSUME NEW s \in Slaves, StartSlave(s) \/ InsertSlave(s) PROVE r \in routing'[n]
    BY <2>8 DEF StartSlave, InsertSlave
  <2>9. ASSUME NEW s \in Slaves, ListMasters(s) PROVE r \in routing'[n]
    <3>1. Up(slave[s].at) /\ slave[s].st = "inserted"
      BY <2>9 DEF ListMasters, FounderFirst, FounderFirstFor, KeysTrue
    <3>2. slave'[s].st \in {"on", "connect"} /\ \A u \in Nodes \ {s} : routing'[u] = routing[u]
      BY <2>9, <3>1, ListMastersEffect
    <3>3. n # s
      BY <3>1, <3>2
    <3> QED BY <3>2, <3>3
  <2>10. ASSUME NEW s \in Slaves, Handle(s) PROVE r \in routing'[n]
    <3>1. \A u \in Nodes \ {s} : routing'[u] = routing[u]
      BY <2>10, HandleEffect
    <3>2. CASE n = s
      BY <2>10, <3>2, HandleKeeps
    <3> QED BY <3>1, <3>2
  <2>11. ASSUME NEW m \in Masters, ProbeSlaves(m) PROVE r \in routing'[n]
    BY <2>11 DEF ProbeSlaves
  <2>12. ASSUME NEW m \in Masters, MasterDies(m) PROVE r \in routing'[n]
    <3>1. n # m /\ routing' = [routing EXCEPT ![m] = {}]
      BY <2>12 DEF MasterDies, Up
    <3> QED BY <3>1
  <2> QED BY <2>1, <2>2, <2>3, <2>4, <2>6, <2>7, <2>8, <2>9, <2>10, <2>11, <2>12 DEF Next
<1>2. Dropped => [\A n \in Nodes, m \in Masters :
                    /\ Up(m) /\ key'[m] = key[m]
                    /\ \E r \in routing[n] : r.key = key[m]
                    /\ IF n \in Masters THEN key'[n] = key[n] ELSE slave'[n].st = slave[n].st
                    => \E r \in routing'[n] : r.key = key[m]]_vars
  OBVIOUS
<1> QED BY <1>1, <1>2, ClusterInvariant, PTL DEF Spec, OnlyLostMastersDropped

-----------------------------------------------------------------------------
(* Sessions: any clients, masters, paths and keys. *)

\* A master is the number of its key; the one of the clients' configuration is there from the start.
LoginAssumption ==
  /\ IsFiniteSet(Routers) /\ Routers \subseteq Nat /\ Founders \subseteq Routers /\ Entry \in Founders
  /\ Hash \in [Paths -> Nat]

LEMMA SameCardinality ==
  ASSUME NEW T
  PROVE  S!Cardinality(T) = Cardinality(T)
BY DEF S!Cardinality, Cardinality

\* Every place of the table is some master's: the places are as many as the masters, and no two share one.
LEMMA PlacesTaken ==
  ASSUME NEW R, IsFiniteSet(R), R \subseteq Nat, NEW n \in 0 .. Cardinality(R) - 1
  PROVE  \E m \in R : S!Place(R, m) = n
<1> DEFINE Above(m) == {x \in R : x > m}
           T == 0 .. Cardinality(R) - 1
           place == [m \in R |-> Cardinality(Above(m))]
<1>1. Cardinality(R) \in Nat /\ IsFiniteSet(T) /\ Cardinality(T) = Cardinality(R)
  BY FS_CardinalityType, FS_Interval
<1>2. ASSUME NEW m \in R
      PROVE  IsFiniteSet(Above(m)) /\ Cardinality(Above(m)) \in T
  <2>1. Above(m) \in SUBSET R /\ m \notin Above(m)
    <3>1. m \in Nat /\ ~(m > m)
      OBVIOUS
    <3> QED BY <3>1
  <2>2. IsFiniteSet(Above(m)) /\ Cardinality(Above(m)) <= Cardinality(R) /\ Cardinality(Above(m)) # Cardinality(R)
    BY <2>1, FS_Subset
  <2>3. Cardinality(Above(m)) \in Nat
    BY <2>2, FS_CardinalityType
  <2> QED BY <1>1, <2>2, <2>3
<1>3. ASSUME NEW m \in R, NEW k \in R, m < k PROVE Cardinality(Above(k)) # Cardinality(Above(m))
  <2>1. m \in Nat /\ k \in Nat /\ R \subseteq Nat
    OBVIOUS
  <2>2. \A x \in R : x > k => x > m
    BY <1>3, <2>1
  <2>3. ~(k > k) /\ k > m
    BY <1>3, <2>1
  <2>4. Above(k) \in SUBSET Above(m) /\ k \in Above(m) /\ k \notin Above(k)
    BY <2>2, <2>3
  <2> QED BY <1>2, <2>4, FS_Subset
<1>4. place \in Injection(R, T)
  <2>1. place \in [R -> T]
    BY <1>2
  <2>2. ASSUME NEW m \in R, NEW k \in R, place[m] = place[k] PROVE m = k
    <3>1. m \in Nat /\ k \in Nat
      OBVIOUS
    <3> HIDE DEF Above
    <3>2. ~(m < k) /\ ~(k < m)
      BY <1>3, <2>2
    <3> QED BY <3>1, <3>2
  <2> QED BY <2>1, <2>2 DEF Injection, IsInjective
<1>5. place \in Surjection(R, T)
  BY <1>1, <1>4, FS_Injection
<1>6. PICK m \in R : place[m] = n
  BY <1>5 DEF Surjection
<1>7. S!Place(R, m) = Cardinality(Above(m))
  BY SameCardinality DEF S!Place
<1> QED BY <1>6, <1>7

\* Whom a client asks is one of the masters that it knows.
LEMMA ResponsibleIsKnown ==
  ASSUME LoginAssumption, NEW R \in SUBSET Routers, R # {}, NEW p \in Paths
  PROVE  S!Responsible(R, p) \in R
<1>1. IsFiniteSet(R) /\ R \subseteq Nat /\ Hash[p] \in Nat
  BY FS_Subset DEF LoginAssumption
<1>2. Cardinality(R) \in Nat \ {0}
  BY <1>1, FS_EmptySet, FS_CardinalityType
<1>3. Hash[p] % Cardinality(R) \in 0 .. Cardinality(R) - 1
  BY <1>1, <1>2
<1>4. \E m \in R : S!Place(R, m) = Hash[p] % Cardinality(R)
  BY <1>1, <1>3, PlacesTaken
<1>5. S!Cardinality(R) = Cardinality(R)
  BY SameCardinality
<1> QED BY <1>4, <1>5 DEF S!Responsible

-----------------------------------------------------------------------------
(* SessionsInv holds of the initial state, and an action at a time keeps it. *)

LEMMA SessionsStart ==
  ASSUME LoginAssumption, S!Init
  PROVE  S!SessionsInv
<1>1. /\ ring = Founders /\ users = [m \in Routers |-> {}] /\ inserting = {} /\ seed = 1 /\ given = {} /\ clash = {}
      /\ iKey = [c \in Clients |-> 0] /\ logged = [c \in Clients |-> {}] /\ known = [c \in Clients |-> {}]
      /\ at = [c \in Clients |-> S!Idle] /\ due = [c \in Clients |-> {}]
      /\ missed = [c \in Clients |-> [m \in Routers |-> 0]] /\ last = [c \in Clients |-> [p \in Paths |-> "none"]]
      /\ S!Idle.st = "idle"
  BY DEF S!Init, S!Idle
<1>2. S!TypeOK
  <2>1. missed \in [Clients -> [Routers -> 0 .. S!Enough]]
    BY <1>1 DEF S!Enough
  <2>2. at \in [Clients -> S!Call]
    BY <1>1 DEF S!Call
  <2>3. last \in [Clients -> [Paths -> {"none", "expired", "security", "master", "served"}]]
    BY <1>1
  <2>4. ring \subseteq Routers /\ users \in [Routers -> SUBSET S!User] /\ seed \in Nat \ {0} /\ given \subseteq Nat \ {0}
        /\ clash \subseteq given /\ inserting \subseteq [m : Routers, key : Nat, of : Clients]
        /\ iKey \in [Clients -> Nat] /\ logged \in [Clients -> SUBSET Routers] /\ known \in [Clients -> SUBSET Routers]
        /\ due \in [Clients -> SUBSET Routers]
    BY <1>1 DEF LoginAssumption
  <2> QED BY <2>1, <2>2, <2>3, <2>4 DEF S!TypeOK
<1>3. S!WithinTheRing
  BY <1>1 DEF S!WithinTheRing
<1>4. S!KeysTrue
  BY <1>1 DEF S!KeysTrue
<1>5. S!HeardOf
  BY <1>1 DEF S!HeardOf
<1> QED BY <1>2, <1>3, <1>4, <1>5 DEF S!SessionsInv

\* The types, for what follows.
LEMMA LoginsTyped ==
  ASSUME S!SessionsInv
  PROVE  /\ S!TypeOK /\ S!WithinTheRing /\ S!KeysTrue /\ S!HeardOf
         /\ ring \subseteq Routers /\ users \in [Routers -> SUBSET S!User]
         /\ seed \in Nat \ {0} /\ given \subseteq Nat \ {0} /\ clash \subseteq given
         /\ inserting \subseteq [m : Routers, key : Nat, of : Clients]
         /\ iKey \in [Clients -> Nat] /\ logged \in [Clients -> SUBSET Routers] /\ known \in [Clients -> SUBSET Routers]
         /\ at \in [Clients -> S!Call] /\ due \in [Clients -> SUBSET Routers] /\ missed \in [Clients -> [Routers -> 0 .. 2]]
         /\ last \in [Clients -> [Paths -> {"none", "expired", "security", "master", "served"}]]
BY DEF S!SessionsInv, S!TypeOK, S!Enough

\* Where the thread of a client is.
LEMMA CallTyped ==
  ASSUME S!SessionsInv, NEW c \in Clients
  PROVE  /\ at[c].st \in {"idle", "ask", "drawn", "send"}
         /\ at[c].st \in {"ask", "drawn"} =>
              /\ at[c] \in [st : {"ask", "drawn"}, m : Routers, seen : Nat] \cup S!ForRequest
              /\ at[c].m \in Routers /\ at[c].seen \in Nat
         /\ at[c].st = "send" => at[c].m \in Routers /\ at[c].p \in Paths
<1>1. \/ at[c] = S!Idle
      \/ at[c] \in [st : {"ask", "drawn"}, m : Routers, seen : Nat]
      \/ at[c] \in S!ForRequest
      \/ at[c] \in [st : {"send"}, m : Routers, p : Paths]
  BY LoginsTyped DEF S!Call
<1>2. CASE at[c] = S!Idle
  BY <1>2 DEF S!Idle
<1>3. CASE at[c] \in [st : {"ask", "drawn"}, m : Routers, seen : Nat]
  <2>1. at[c].st \in {"ask", "drawn"} /\ at[c].m \in Routers /\ at[c].seen \in Nat
    BY <1>3
  <2> QED BY <1>3, <2>1
<1>4. CASE at[c] \in S!ForRequest
  <2>1. at[c].st \in {"ask", "drawn"} /\ at[c].m \in Routers /\ at[c].seen \in Nat
    BY <1>4 DEF S!ForRequest
  <2> QED BY <1>4, <2>1
<1>5. CASE at[c] \in [st : {"send"}, m : Routers, p : Paths]
  <2>1. at[c].st = "send" /\ at[c].m \in Routers /\ at[c].p \in Paths
    BY <1>5
  <2> QED BY <2>1
<1> QED BY <1>1, <1>2, <1>3, <1>4, <1>5

\* A thread that goes on with a login or to a request, and nothing else happens.
LEMMA ThreadGoesOn ==
  ASSUME S!SessionsInv, NEW c \in Clients, NEW a \in S!Call, at' = [at EXCEPT ![c] = a],
         a.st \in {"ask", "drawn"} => a.m \in ring /\ (iKey[c] > 0 => a \in S!ForRequest),
         a.st = "drawn" => a.seen > 0,
         UNCHANGED <<ring, users, seed, given, clash, inserting, iKey, logged, known, due, missed, last>>
  PROVE  S!SessionsInv'
<1>1. at' \in [Clients -> S!Call] /\ at'[c] = a /\ \A d \in Clients : d # c => at'[d] = at[d]
  BY LoginsTyped
<1>2. S!TypeOK'
  BY <1>1, LoginsTyped DEF S!TypeOK
<1>3. S!WithinTheRing'
  <2>1. ASSUME NEW d \in Clients
        PROVE  /\ at'[d].st \in {"ask", "drawn"} => at'[d].m \in ring
               /\ at'[d].st \in {"ask", "drawn"} /\ iKey[d] > 0 => at'[d] \in S!ForRequest
               /\ at'[d].st = "drawn" => at'[d].seen > 0
    <3>1. CASE d = c
      BY <1>1, <3>1
    <3>2. CASE d # c
      BY <1>1, <3>2, LoginsTyped DEF S!WithinTheRing
    <3> QED BY <3>1, <3>2
  <2> QED BY <2>1, LoginsTyped DEF S!WithinTheRing
<1>4. S!KeysTrue'
  BY LoginsTyped DEF S!KeysTrue
<1>5. S!HeardOf'
  BY LoginsTyped DEF S!HeardOf
<1> QED BY <1>2, <1>3, <1>4, <1>5 DEF S!SessionsInv

LEMMA StartLoginKeeps ==
  ASSUME LoginAssumption, S!SessionsInv, NEW c \in Clients, S!StartLogin(c)
  PROVE  S!SessionsInv'
<1>1. PICK a : a = [st |-> "ask", m |-> Entry, seen |-> 0]
  OBVIOUS
<1>2. a \in S!Call /\ a.st = "ask" /\ a.m \in ring
  BY <1>1, LoginsTyped DEF S!Call, S!WithinTheRing, LoginAssumption
<1>3. /\ ~(iKey[c] > 0) /\ at' = [at EXCEPT ![c] = a]
      /\ UNCHANGED <<ring, users, seed, given, clash, inserting, iKey, logged, known, due, missed, last>>
  BY <1>1 DEF S!StartLogin, S!master, S!server, S!alive
<1> QED BY <1>2, <1>3, ThreadGoesOn

LEMMA RequestKeeps ==
  ASSUME LoginAssumption, S!SessionsInv, NEW c \in Clients, NEW p \in Paths, NEW op, S!Request(c, p, op)
  PROVE  S!SessionsInv'
<1>1. PICK m : m = S!Responsible(known[c], p)
  OBVIOUS
<1>2. iKey[c] > 0 /\ known[c] \in SUBSET Routers /\ known[c] # {} /\ known[c] \subseteq ring
  BY LoginsTyped DEF S!Request, S!WithinTheRing
<1>3. m \in ring /\ m \in Routers
  BY <1>1, <1>2, ResponsibleIsKnown
<1>4. PICK a : a = IF op = "open" \/ m \in logged[c] THEN [st |-> "send", m |-> m, p |-> p] ELSE [st |-> "ask", m |-> m, p |-> p, seen |-> 0]
  OBVIOUS
<1>5. a \in S!Call /\ a.st \in {"ask", "send"} /\ a.m = m /\ (a.st = "ask" => a \in S!ForRequest)
  <2>1. CASE op = "open" \/ m \in logged[c]
    BY <1>3, <1>4, <2>1 DEF S!Call, S!ForRequest
  <2>2. CASE ~(op = "open" \/ m \in logged[c])
    BY <1>3, <1>4, <2>2 DEF S!Call, S!ForRequest
  <2> QED BY <2>1, <2>2
<1>6. /\ at' = [at EXCEPT ![c] = a]
      /\ UNCHANGED <<ring, users, seed, given, clash, inserting, iKey, logged, known, due, missed, last>>
  BY <1>1, <1>4 DEF S!Request, S!master, S!server, S!alive
<1> QED BY <1>3, <1>5, <1>6, ThreadGoesOn

LEMMA ReadSeedKeeps ==
  ASSUME S!SessionsInv, NEW c \in Clients, S!ReadSeed(c)
  PROVE  S!SessionsInv'
<1>1. PICK a : a = [at[c] EXCEPT !.st = "drawn", !.seen = seed]
  OBVIOUS
<1>2. /\ at[c].st = "ask" /\ at' = [at EXCEPT ![c] = a]
      /\ UNCHANGED <<ring, users, seed, given, clash, inserting, iKey, logged, known, due, missed, last>>
  BY <1>1, LoginsTyped DEF S!ReadSeed, S!master, S!server, S!alive
<1>3. seed \in Nat /\ seed > 0 /\ at[c].m \in ring /\ (iKey[c] > 0 => at[c] \in S!ForRequest)
  BY <1>2, LoginsTyped DEF S!WithinTheRing
<1>4. a \in S!Call /\ a.st = "drawn" /\ a.m = at[c].m /\ a.seen = seed /\ (at[c] \in S!ForRequest => a \in S!ForRequest)
  <2>1. at[c] \in [st : {"ask", "drawn"}, m : Routers, seen : Nat] \cup S!ForRequest
    BY <1>2, CallTyped
  <2>2. CASE at[c] \in S!ForRequest
    BY <1>1, <1>3, <2>2 DEF S!Call, S!ForRequest
  <2>3. CASE at[c] \in [st : {"ask", "drawn"}, m : Routers, seen : Nat] /\ at[c] \notin S!ForRequest
    BY <1>1, <1>3, <2>3 DEF S!Call
  <2> QED BY <2>1, <2>2, <2>3
<1> QED BY <1>2, <1>3, <1>4, ThreadGoesOn

\* Users that a master had it still has, and has heard of them no longer ago.
Fresher(U, W) == \A u \in U : \E w \in W : w.key = u.key /\ w.of = u.of /\ w.age <= u.age

LEMMA HeardFrame ==
  ASSUME S!SessionsInv, users' \in [Routers -> SUBSET S!User], \A m \in Routers : Fresher(users[m], users'[m]),
         UNCHANGED <<clash, inserting, iKey, logged, due, missed>>
  PROVE  S!HeardOf'
<1> SUFFICES ASSUME NEW c \in Clients, NEW m \in logged[c], iKey[c] \notin clash, missed[c][m] < S!Enough
             PROVE  \/ \E u \in users'[m] : u.key = iKey[c] /\ u.of = c /\ u.age <= missed[c][m] + (IF m \in due[c] THEN 1 ELSE 0)
                    \/ [m |-> m, key |-> iKey[c], of |-> c] \in inserting
  BY DEF S!HeardOf
<1>1. PICK e : e = missed[c][m] + (IF m \in due[c] THEN 1 ELSE 0)
  OBVIOUS
<1>2. m \in Routers /\ e \in Nat
  <2>1. missed \in [Clients -> [Routers -> 0 .. 2]] /\ m \in Routers
    BY LoginsTyped
  <2>2. missed[c][m] \in 0 .. 2
    BY <2>1
  <2> QED BY <1>1, <2>1, <2>2
<1>3. CASE [m |-> m, key |-> iKey[c], of |-> c] \in inserting
  BY <1>3
<1>4. ASSUME NEW u \in users[m], u.key = iKey[c], u.of = c, u.age <= e
      PROVE  \E w \in users'[m] : w.key = iKey[c] /\ w.of = c /\ w.age <= e
  <2>1. PICK w \in users'[m] : w.key = u.key /\ w.of = u.of /\ w.age <= u.age
    BY <1>2 DEF Fresher
  <2>2. w.age \in Nat /\ u.age \in Nat
    <3>1. w \in S!User /\ u \in S!User
      BY <1>2, LoginsTyped
    <3> QED BY <3>1 DEF S!User
  <2> QED BY <1>2, <1>4, <2>1, <2>2
<1> QED BY <1>1, <1>3, <1>4, LoginsTyped DEF S!HeardOf

\* A message of a user refreshes it where it is known.
LEMMA MessageEffect ==
  ASSUME S!SessionsInv, NEW c \in Clients, NEW m \in Routers, S!Message(c, m)
  PROVE  /\ users' \in [Routers -> SUBSET S!User] /\ \A x \in Routers : Fresher(users[x], users'[x])
         /\ \A u \in users[m] : u.key = iKey[c] /\ u.of = c =>
              \E w \in users'[m] : w.key = iKey[c] /\ w.of = c /\ w.age = 0
<1>1. PICK U : U = S!Refreshed(users[m], iKey[c])
  OBVIOUS
<1>2. users' = [users EXCEPT ![m] = IF S!Known(m, iKey[c], c) THEN U ELSE users[m]]
  BY <1>1 DEF S!Message
<1>3. users \in [Routers -> SUBSET S!User]
  BY LoginsTyped
<1>4. ASSUME NEW u \in users[m]
      PROVE  /\ (IF u.key = iKey[c] THEN [u EXCEPT !.age = 0] ELSE u) \in S!User
             /\ \E w \in U : w.key = u.key /\ w.of = u.of /\ w.age <= u.age /\ (u.key = iKey[c] => w.age = 0)
  <2>1. u \in [key : Nat, of : Clients, age : Nat]
    BY <1>3 DEF S!User
  <2>2. PICK w : w = IF u.key = iKey[c] THEN [u EXCEPT !.age = 0] ELSE u
    OBVIOUS
  <2>3. w \in [key : Nat, of : Clients, age : Nat] /\ w.key = u.key /\ w.of = u.of /\ w.age <= u.age /\ (u.key = iKey[c] => w.age = 0)
    BY <2>1, <2>2
  <2>4. w \in U
    BY <1>1, <2>2 DEF S!Refreshed
  <2> QED BY <2>2, <2>3, <2>4 DEF S!User
<1>5. U \subseteq S!User
  BY <1>1, <1>4 DEF S!Refreshed
<1>6. users' \in [Routers -> SUBSET S!User]
  BY <1>2, <1>3, <1>5
<1>7. ASSUME NEW x \in Routers PROVE Fresher(users[x], users'[x])
  <2>1. \A u \in users[x] : u.age <= u.age
    <3>1. \A u \in users[x] : u.age \in Nat
      BY <1>3 DEF S!User
    <3> QED BY <3>1
  <2>2. CASE x = m /\ S!Known(m, iKey[c], c)
    BY <1>2, <1>3, <1>4, <2>2 DEF Fresher
  <2>3. CASE ~(x = m /\ S!Known(m, iKey[c], c))
    <3>1. users'[x] = users[x]
      BY <1>2, <1>3, <2>3
    <3> QED BY <2>1, <3>1 DEF Fresher
  <2> QED BY <2>2, <2>3
<1>8. ASSUME NEW u \in users[m], u.key = iKey[c], u.of = c
      PROVE  \E w \in users'[m] : w.key = iKey[c] /\ w.of = c /\ w.age = 0
  <2>1. S!Known(m, iKey[c], c)
    BY <1>8 DEF S!Known
  <2>2. users'[m] = U
    BY <1>2, <1>3, <2>1
  <2> QED BY <1>4, <1>8, <2>2
<1> QED BY <1>6, <1>7, <1>8

LEMMA SendKeeps ==
  ASSUME S!SessionsInv, NEW c \in Clients, S!Send(c)
  PROVE  S!SessionsInv'
<1>1. /\ at[c].st = "send" /\ S!Message(c, at[c].m) /\ at' = [at EXCEPT ![c] = S!Idle]
      /\ UNCHANGED <<ring, inserting, seed, given, clash, iKey, logged, known, due, missed>>
      /\ last' = [last EXCEPT ![c] = [last[c] EXCEPT ![at[c].p] = S!Outcome(c, at[c].m, at[c].p)]]
  BY DEF S!Send, S!server, S!alive
<1>2. at[c].m \in Routers
  BY <1>1, CallTyped
<1>3. users' \in [Routers -> SUBSET S!User] /\ \A x \in Routers : Fresher(users[x], users'[x])
  BY <1>1, <1>2, MessageEffect
<1>4. at' \in [Clients -> S!Call] /\ at'[c].st = "idle" /\ \A d \in Clients : d # c => at'[d] = at[d]
  BY <1>1, LoginsTyped DEF S!Call, S!Idle
<1>5. last' \in [Clients -> [Paths -> {"none", "expired", "security", "master", "served"}]]
  <2>1. PICK o : o = S!Outcome(c, at[c].m, at[c].p) /\ o \in {"none", "expired", "security", "master", "served"}
    BY DEF S!Outcome
  <2>2. [last[c] EXCEPT ![at[c].p] = o] \in [Paths -> {"none", "expired", "security", "master", "served"}]
    BY <2>1, LoginsTyped
  <2> QED BY <1>1, <2>1, <2>2, LoginsTyped
<1>6. S!TypeOK'
  BY <1>1, <1>3, <1>4, <1>5, LoginsTyped DEF S!TypeOK
<1>7. S!WithinTheRing'
  <2>1. ASSUME NEW d \in Clients
        PROVE  /\ at'[d].st \in {"ask", "drawn"} => at'[d].m \in ring
               /\ at'[d].st \in {"ask", "drawn"} /\ iKey[d] > 0 => at'[d] \in S!ForRequest
               /\ at'[d].st = "drawn" => at'[d].seen > 0
    <3>1. CASE d = c
      BY <1>4, <3>1
    <3>2. CASE d # c
      BY <1>4, <3>2, LoginsTyped DEF S!WithinTheRing
    <3> QED BY <3>1, <3>2
  <2> QED BY <1>1, <2>1, LoginsTyped DEF S!WithinTheRing
<1>8. S!KeysTrue'
  BY <1>1, LoginsTyped DEF S!KeysTrue
<1>9. S!HeardOf'
  BY <1>1, <1>3, HeardFrame
<1> QED BY <1>6, <1>7, <1>8, <1>9 DEF S!SessionsInv

LEMMA KeepAliveKeeps ==
  ASSUME S!SessionsInv, NEW c \in Clients, NEW m \in Routers, NEW arrives \in BOOLEAN, S!KeepAlive(c, m, arrives)
  PROVE  S!SessionsInv'
<1>1. PICK e : e = IF missed[c][m] = 2 THEN 2 ELSE IF arrives THEN 0 ELSE missed[c][m] + 1
  OBVIOUS
<1>2. /\ m \in due[c] /\ due' = [due EXCEPT ![c] = due[c] \ {m}] /\ missed' = [missed EXCEPT ![c] = [missed[c] EXCEPT ![m] = e]]
      /\ IF arrives THEN S!Message(c, m) ELSE users' = users
      /\ UNCHANGED <<ring, inserting, seed, given, clash, iKey, logged, known, at, last>>
  BY <1>1 DEF S!KeepAlive, S!server, S!client, S!Enough
<1>3. missed[c] \in [Routers -> 0 .. 2] /\ e \in 0 .. 2 /\ e <= missed[c][m] + 1
  <2>1. missed[c] \in [Routers -> 0 .. 2]
    BY LoginsTyped
  <2>2. missed[c][m] \in 0 .. 2
    BY <2>1
  <2> QED BY <1>1, <2>1, <2>2
<1>4. /\ missed' \in [Clients -> [Routers -> 0 .. 2]] /\ missed'[c][m] = e
      /\ \A d \in Clients, x \in Routers : ~(d = c /\ x = m) => missed'[d][x] = missed[d][x]
  BY <1>2, <1>3, LoginsTyped
<1>5. /\ due' \in [Clients -> SUBSET Routers] /\ m \notin due'[c]
      /\ \A d \in Clients, x \in Routers : ~(d = c /\ x = m) => (x \in due'[d] <=> x \in due[d])
  BY <1>2, LoginsTyped
<1>6. users' \in [Routers -> SUBSET S!User] /\ \A x \in Routers : Fresher(users[x], users'[x])
  <2>1. CASE arrives
    BY <1>2, <2>1, MessageEffect
  <2>2. CASE ~arrives
    <3>1. \A x \in Routers : \A u \in users[x] : u.age \in Nat
      BY LoginsTyped DEF S!User
    <3>2. \A x \in Routers : \A u \in users[x] : u.age <= u.age
      BY <3>1
    <3> QED BY <1>2, <2>2, <3>2, LoginsTyped DEF Fresher
  <2> QED BY <2>1, <2>2
<1>7. S!TypeOK'
  BY <1>2, <1>4, <1>5, <1>6, LoginsTyped DEF S!TypeOK, S!Enough
<1>8. S!WithinTheRing' /\ S!KeysTrue'
  BY <1>2, LoginsTyped DEF S!WithinTheRing, S!KeysTrue
<1>9. ASSUME NEW d \in Clients, NEW x \in logged[d], iKey[d] \notin clash, missed'[d][x] < 2
      PROVE  \/ \E u \in users'[x] : u.key = iKey[d] /\ u.of = d /\ u.age <= missed'[d][x] + (IF x \in due'[d] THEN 1 ELSE 0)
             \/ [m |-> x, key |-> iKey[d], of |-> d] \in inserting
  <2>1. x \in Routers /\ missed[d][x] \in 0 .. 2
    BY LoginsTyped
  <2>2. missed[d][x] < 2
    <3>1. CASE d = c /\ x = m
      BY <1>1, <1>4, <1>9, <2>1, <3>1
    <3>2. CASE ~(d = c /\ x = m)
      BY <1>4, <1>9, <2>1, <3>2
    <3> QED BY <3>1, <3>2
  <2>3. CASE [m |-> x, key |-> iKey[d], of |-> d] \in inserting
    BY <2>3
  <2>4. ASSUME NEW u \in users[x], u.key = iKey[d], u.of = d, u.age <= missed[d][x] + (IF x \in due[d] THEN 1 ELSE 0)
        PROVE  \E w \in users'[x] : w.key = iKey[d] /\ w.of = d /\ w.age <= missed'[d][x] + (IF x \in due'[d] THEN 1 ELSE 0)
    <3>1. PICK w \in users'[x] : w.key = iKey[d] /\ w.of = d /\ w.age <= u.age
      BY <1>6, <2>1, <2>4 DEF Fresher
    <3>2. w.age \in Nat /\ u.age \in Nat
      <4>1. w \in S!User /\ u \in S!User
        BY <1>6, <2>1, LoginsTyped
      <4> QED BY <4>1 DEF S!User
    <3>3. CASE ~(d = c /\ x = m)
      BY <1>4, <1>5, <2>1, <2>4, <3>1, <3>2, <3>3
    <3>4. CASE d = c /\ x = m /\ ~arrives
      <4>1. missed'[d][x] = missed[d][x] + 1 /\ x \notin due'[d] /\ u.age <= missed[d][x] + 1
        BY <1>1, <1>2, <1>4, <1>5, <2>2, <2>4, <3>4
      <4> QED BY <2>1, <3>1, <3>2, <4>1
    <3>5. CASE d = c /\ x = m /\ arrives
      <4>1. missed'[d][x] = 0 /\ x \notin due'[d]
        BY <1>1, <1>4, <1>5, <2>2, <3>5
      <4>2. PICK v \in users'[x] : v.key = iKey[d] /\ v.of = d /\ v.age = 0
        BY <1>2, <2>4, <3>5, MessageEffect
      <4> QED BY <4>1, <4>2
    <3> QED BY <3>3, <3>4, <3>5
  <2> QED BY <2>2, <2>3, <2>4, LoginsTyped, <1>9 DEF S!HeardOf, S!Enough
<1>10. S!HeardOf'
  BY <1>2, <1>9 DEF S!HeardOf, S!Enough
<1> QED BY <1>7, <1>8, <1>10 DEF S!SessionsInv

\* A user that is inserted takes the place of those with its key.
Inserts(m, k, c) == users' = [users EXCEPT ![m] = S!Inserted(users[m], S!UserOf(k, c))]
IsInserted(m, k, c) ==
  /\ users' \in [Routers -> SUBSET S!User]
  /\ \A x \in Routers : \A u \in users[x] : u.key # k \/ x # m => u \in users'[x]
  /\ \E u \in users'[m] : u.key = k /\ u.of = c /\ u.age = 0

LEMMA InsertEffect ==
  ASSUME S!SessionsInv, NEW m \in Routers, NEW k \in Nat, NEW c \in Clients, Inserts(m, k, c)
  PROVE  IsInserted(m, k, c)
<1>1. PICK v : v = S!UserOf(k, c) /\ v \in S!User /\ v.key = k /\ v.of = c /\ v.age = 0
  <2>1. PICK v : v = [key |-> k, of |-> c, age |-> 0]
    OBVIOUS
  <2>2. v \in S!User /\ v.key = k /\ v.of = c /\ v.age = 0
    BY <2>1 DEF S!User
  <2> QED BY <2>1, <2>2 DEF S!UserOf
<1>2. PICK U : U = S!Inserted(users[m], v) /\ U = {u \in users[m] : u.key # k} \cup {v}
  BY <1>1 DEF S!Inserted
<1>3. users' = [users EXCEPT ![m] = U] /\ users \in [Routers -> SUBSET S!User]
  BY <1>1, <1>2, LoginsTyped DEF Inserts
<1>4. U \subseteq S!User
  BY <1>1, <1>2, <1>3
<1>5. users' \in [Routers -> SUBSET S!User] /\ users'[m] = U /\ \A x \in Routers : x # m => users'[x] = users[x]
  BY <1>3, <1>4
<1> QED BY <1>1, <1>2, <1>5 DEF IsInserted

LEMMA LogInKeeps ==
  ASSUME LoginAssumption, S!SessionsInv, NEW c \in Clients, S!LogIn(c)
  PROVE  S!SessionsInv'
<1>1. PICK m, k : m = at[c].m /\ k = at[c].seen
  OBVIOUS
<1>2. /\ at[c].st = "drawn" /\ iKey[c] = 0 /\ seed' = k + 1 /\ given' = given \cup {k}
      /\ clash' = IF k \in given THEN clash \cup {k} ELSE clash
      /\ users' = [users EXCEPT ![m] = S!Inserted(users[m], S!UserOf(k, c))]
      /\ iKey' = [iKey EXCEPT ![c] = k] /\ logged' = [logged EXCEPT ![c] = logged[c] \cup {m}]
      /\ known' = [known EXCEPT ![c] = known[c] \cup ring] /\ at' = [at EXCEPT ![c] = S!Idle]
      /\ missed' = [missed EXCEPT ![c] = [x \in Routers |-> 0]]
      /\ UNCHANGED <<ring, inserting, last, due>>
  BY <1>1 DEF S!LogIn
<1>3. m \in Routers /\ m \in ring /\ k \in Nat \ {0} /\ logged[c] = {} /\ ring # {}
  <2>1. m \in Routers /\ k \in Nat
    BY <1>1, <1>2, CallTyped
  <2> QED BY <1>1, <1>2, <2>1, LoginsTyped DEF S!WithinTheRing, S!KeysTrue, LoginAssumption
<1>4. /\ users' \in [Routers -> SUBSET S!User]
      /\ \A x \in Routers : \A u \in users[x] : u.key # k \/ x # m => u \in users'[x]
      /\ \E u \in users'[m] : u.key = k /\ u.of = c /\ u.age = 0
  <2>1. Inserts(m, k, c) /\ m \in Routers /\ k \in Nat
    BY <1>2, <1>3 DEF Inserts
  <2>2. IsInserted(m, k, c)
    BY <2>1, InsertEffect
  <2> QED BY <2>2 DEF IsInserted
<1>5. /\ iKey' \in [Clients -> Nat] /\ logged' \in [Clients -> SUBSET Routers] /\ known' \in [Clients -> SUBSET Routers]
      /\ at' \in [Clients -> S!Call] /\ missed' \in [Clients -> [Routers -> 0 .. 2]]
      /\ iKey'[c] = k /\ logged'[c] = {m} /\ known'[c] = known[c] \cup ring /\ at'[c].st = "idle"
      /\ \A x \in Routers : missed'[c][x] = 0
      /\ \A d \in Clients : d # c => /\ iKey'[d] = iKey[d] /\ logged'[d] = logged[d] /\ known'[d] = known[d]
                                     /\ at'[d] = at[d] /\ missed'[d] = missed[d]
  <2>1. S!Idle \in S!Call /\ S!Idle.st = "idle"
    BY DEF S!Call, S!Idle
  <2>2. [x \in Routers |-> 0] \in [Routers -> 0 .. 2]
    OBVIOUS
  <2>3. logged[c] \cup {m} = {m} /\ known[c] \cup ring \subseteq Routers
    BY <1>3, LoginsTyped
  <2> QED BY <1>2, <1>3, <2>1, <2>2, <2>3, LoginsTyped
<1>6. S!TypeOK'
  <2>1. seed' \in Nat \ {0} /\ given' \subseteq Nat \ {0} /\ clash' \subseteq given'
    BY <1>2, <1>3, LoginsTyped
  <2> QED BY <1>2, <1>4, <1>5, <2>1, LoginsTyped DEF S!TypeOK, S!Enough
<1>7. S!WithinTheRing'
  <2>1. ASSUME NEW d \in Clients
        PROVE  /\ logged'[d] \subseteq ring /\ known'[d] \subseteq ring
               /\ iKey'[d] > 0 => known'[d] # {}
               /\ at'[d].st \in {"ask", "drawn"} => at'[d].m \in ring
               /\ at'[d].st \in {"ask", "drawn"} /\ iKey'[d] > 0 => at'[d] \in S!ForRequest
               /\ at'[d].st = "drawn" => at'[d].seen > 0
    <3>1. CASE d = c
      BY <1>3, <1>5, <3>1, LoginsTyped DEF S!WithinTheRing
    <3>2. CASE d # c
      BY <1>5, <3>2, LoginsTyped DEF S!WithinTheRing
    <3> QED BY <3>1, <3>2
  <2> QED BY <1>2, <2>1, LoginsTyped DEF S!WithinTheRing
<1>8. clash \subseteq clash' /\ given \subseteq given' /\ k \in given' /\ (k \in given => k \in clash')
  BY <1>2
<1>9. S!KeysTrue'
  <2>1. ASSUME NEW d \in Clients
        PROVE  /\ IF iKey'[d] = 0 THEN logged'[d] = {} ELSE iKey'[d] \in given'
               /\ d # c /\ iKey[d] = k => k \in clash'
    <3>1. CASE d = c
      BY <1>3, <1>5, <1>8, <3>1
    <3>2. CASE d # c
      BY <1>3, <1>5, <1>8, <3>2, LoginsTyped DEF S!KeysTrue
    <3> QED BY <3>1, <3>2
  <2>2. ASSUME NEW d \in Clients, NEW e \in Clients, d # e, iKey'[d] > 0, iKey'[d] = iKey'[e] PROVE iKey'[d] \in clash'
    <3>1. CASE d = c \/ e = c
      BY <1>5, <2>1, <2>2, <3>1
    <3>2. CASE d # c /\ e # c
      BY <1>5, <1>8, <2>2, <3>2, LoginsTyped DEF S!KeysTrue
    <3> QED BY <3>1, <3>2
  <2>3. ASSUME NEW i \in inserting
        PROVE  i.key \in given' /\ \A d \in Clients : iKey'[d] = i.key => i.of = d \/ i.key \in clash'
    <3>1. i.key \in given /\ \A d \in Clients : iKey[d] = i.key => i.of = d \/ i.key \in clash
      BY LoginsTyped DEF S!KeysTrue
    <3> QED BY <1>5, <1>8, <3>1
  <2> QED BY <1>2, <2>1, <2>2, <2>3 DEF S!KeysTrue
<1>10. ASSUME NEW d \in Clients, NEW x \in logged'[d], iKey'[d] \notin clash', missed'[d][x] < 2
       PROVE  \/ \E u \in users'[x] : u.key = iKey'[d] /\ u.of = d /\ u.age <= missed'[d][x] + (IF x \in due[d] THEN 1 ELSE 0)
              \/ [m |-> x, key |-> iKey'[d], of |-> d] \in inserting
  <2>1. CASE d = c
    <3>1. x = m /\ missed'[d][x] = 0 /\ iKey'[d] = k
      BY <1>3, <1>5, <1>10, <2>1
    <3>2. PICK u \in users'[x] : u.key = k /\ u.of = d /\ u.age = 0
      BY <1>4, <2>1, <3>1
    <3> QED BY <3>1, <3>2
  <2>2. CASE d # c
    <3>1. x \in logged[d] /\ x \in Routers /\ iKey'[d] = iKey[d] /\ missed'[d][x] = missed[d][x]
      BY <1>5, <1>10, <2>2, LoginsTyped
    <3>2. iKey[d] \notin clash /\ iKey[d] \in given /\ iKey[d] # k
      BY <1>8, <1>10, <3>1, LoginsTyped DEF S!KeysTrue
    <3>3. \A u \in users[x] : u.key = iKey[d] => u \in users'[x]
      BY <1>4, <3>1, <3>2
    <3>4. \/ \E u \in users[x] : u.key = iKey[d] /\ u.of = d /\ u.age <= missed[d][x] + (IF x \in due[d] THEN 1 ELSE 0)
          \/ [m |-> x, key |-> iKey[d], of |-> d] \in inserting
      BY <1>10, <3>1, <3>2, LoginsTyped DEF S!HeardOf, S!Enough
    <3> QED BY <3>1, <3>3, <3>4
  <2> QED BY <2>1, <2>2
<1>11. S!HeardOf'
  BY <1>2, <1>10 DEF S!HeardOf, S!Enough
<1> QED BY <1>6, <1>7, <1>9, <1>11 DEF S!SessionsInv

LEMMA LogInTooKeeps ==
  ASSUME S!SessionsInv, NEW c \in Clients, S!LogInToo(c)
  PROVE  S!SessionsInv'
<1>1. PICK m, k, a, i : /\ m = at[c].m /\ k = at[c].seen /\ a = [st |-> "send", m |-> m, p |-> at[c].p]
                        /\ i = [m |-> m, key |-> iKey[c], of |-> c]
  OBVIOUS
<1>2. /\ at[c].st = "drawn" /\ iKey[c] > 0 /\ seed' = k + 1
      /\ inserting' = inserting \cup {i} /\ logged' = [logged EXCEPT ![c] = logged[c] \cup {m}]
      /\ missed' = [missed EXCEPT ![c] = [missed[c] EXCEPT ![m] = 0]] /\ at' = [at EXCEPT ![c] = a]
      /\ UNCHANGED <<ring, users, given, clash, iKey, known, last, due>>
  BY <1>1 DEF S!LogInToo
<1>3. m \in Routers /\ m \in ring /\ k \in Nat /\ at[c] \in S!ForRequest
  <2>1. m \in Routers /\ k \in Nat
    BY <1>1, <1>2, CallTyped
  <2> QED BY <1>1, <1>2, <2>1, LoginsTyped DEF S!WithinTheRing
<1>4. a \in S!Call /\ a.st = "send"
  <2>1. at[c].p \in Paths
    BY <1>3 DEF S!ForRequest
  <2> QED BY <1>1, <1>3, <2>1 DEF S!Call
<1>5. i \in [m : Routers, key : Nat, of : Clients] /\ i.key = iKey[c] /\ i.of = c /\ i.m = m /\ iKey[c] \in given
  BY <1>1, <1>2, <1>3, LoginsTyped DEF S!KeysTrue
<1>6. /\ logged' \in [Clients -> SUBSET Routers] /\ at' \in [Clients -> S!Call] /\ missed' \in [Clients -> [Routers -> 0 .. 2]]
      /\ logged'[c] = logged[c] \cup {m} /\ at'[c] = a
      /\ \A x \in Routers : x # m => missed'[c][x] = missed[c][x]
      /\ \A d \in Clients : d # c => logged'[d] = logged[d] /\ at'[d] = at[d] /\ missed'[d] = missed[d]
  <2>1. [missed[c] EXCEPT ![m] = 0] \in [Routers -> 0 .. 2]
    <3>1. missed[c] \in [Routers -> 0 .. 2] /\ 0 \in 0 .. 2
      BY LoginsTyped
    <3> QED BY <3>1
  <2>2. logged[c] \cup {m} \subseteq Routers
    BY <1>3, LoginsTyped
  <2> QED BY <1>2, <1>3, <1>4, <2>1, <2>2, LoginsTyped
<1>7. S!TypeOK'
  BY <1>2, <1>3, <1>5, <1>6, LoginsTyped DEF S!TypeOK, S!Enough
<1>8. S!WithinTheRing'
  <2>1. ASSUME NEW d \in Clients
        PROVE  /\ logged'[d] \subseteq ring
               /\ at'[d].st \in {"ask", "drawn"} => at'[d].m \in ring
               /\ at'[d].st \in {"ask", "drawn"} /\ iKey[d] > 0 => at'[d] \in S!ForRequest
               /\ at'[d].st = "drawn" => at'[d].seen > 0
    <3>1. CASE d = c
      BY <1>3, <1>4, <1>6, <3>1, LoginsTyped DEF S!WithinTheRing
    <3>2. CASE d # c
      BY <1>6, <3>2, LoginsTyped DEF S!WithinTheRing
    <3> QED BY <3>1, <3>2
  <2> QED BY <1>2, <2>1, LoginsTyped DEF S!WithinTheRing
<1>9. S!KeysTrue'
  <2>1. ASSUME NEW d \in Clients PROVE IF iKey[d] = 0 THEN logged'[d] = {} ELSE iKey[d] \in given
    <3>1. CASE d = c
      BY <1>2, <1>5, <3>1, LoginsTyped
    <3>2. CASE d # c
      BY <1>6, <3>2, LoginsTyped DEF S!KeysTrue
    <3> QED BY <3>1, <3>2
  <2>2. \A d \in Clients : iKey[d] = i.key => i.of = d \/ i.key \in clash
    BY <1>2, <1>5, LoginsTyped DEF S!KeysTrue
  <2>3. ASSUME NEW j \in inserting'
        PROVE  j.key \in given /\ \A d \in Clients : iKey[d] = j.key => j.of = d \/ j.key \in clash
    <3>1. CASE j = i
      BY <1>5, <2>2, <3>1
    <3>2. CASE j # i
      BY <1>2, <3>2, LoginsTyped DEF S!KeysTrue
    <3> QED BY <3>1, <3>2
  <2> QED BY <1>2, <2>1, <2>3, LoginsTyped DEF S!KeysTrue
<1>10. ASSUME NEW d \in Clients, NEW x \in logged'[d], iKey[d] \notin clash, missed'[d][x] < 2
       PROVE  \/ \E u \in users[x] : u.key = iKey[d] /\ u.of = d /\ u.age <= missed'[d][x] + (IF x \in due[d] THEN 1 ELSE 0)
              \/ [m |-> x, key |-> iKey[d], of |-> d] \in inserting'
  <2>1. CASE d = c /\ x = m
    BY <1>1, <1>2, <2>1
  <2>2. CASE ~(d = c /\ x = m)
    <3>1. x \in logged[d] /\ x \in Routers /\ missed'[d][x] = missed[d][x]
      BY <1>6, <1>10, <2>2, LoginsTyped
    <3> QED BY <1>2, <1>10, <3>1, LoginsTyped DEF S!HeardOf, S!Enough
  <2> QED BY <2>1, <2>2
<1>11. S!HeardOf'
  BY <1>2, <1>10 DEF S!HeardOf, S!Enough
<1> QED BY <1>7, <1>8, <1>9, <1>11 DEF S!SessionsInv

LEMMA InsertKeeps ==
  ASSUME S!SessionsInv, NEW i \in inserting, S!Insert(i)
  PROVE  S!SessionsInv'
<1>1. /\ inserting' = inserting \ {i} /\ users' = [users EXCEPT ![i.m] = S!Inserted(users[i.m], S!UserOf(i.key, i.of))]
      /\ UNCHANGED <<ring, seed, given, clash, iKey, logged, known, at, last, due, missed>>
  BY DEF S!Insert, S!server, S!client, S!alive
<1>2. i \in [m : Routers, key : Nat, of : Clients] /\ i.m \in Routers /\ i.key \in Nat /\ i.of \in Clients
  BY LoginsTyped
<1>3. /\ users' \in [Routers -> SUBSET S!User]
      /\ \A x \in Routers : \A u \in users[x] : u.key # i.key \/ x # i.m => u \in users'[x]
      /\ \E u \in users'[i.m] : u.key = i.key /\ u.of = i.of /\ u.age = 0
  <2>1. Inserts(i.m, i.key, i.of)
    BY <1>1 DEF Inserts
  <2>2. IsInserted(i.m, i.key, i.of)
    BY <1>2, <2>1, InsertEffect
  <2> QED BY <2>2 DEF IsInserted
<1>4. S!TypeOK'
  BY <1>1, <1>3, LoginsTyped DEF S!TypeOK
<1>5. S!WithinTheRing' /\ S!KeysTrue'
  BY <1>1, LoginsTyped DEF S!WithinTheRing, S!KeysTrue
<1>6. ASSUME NEW d \in Clients, NEW x \in logged[d], iKey[d] \notin clash, missed[d][x] < 2
      PROVE  \/ \E u \in users'[x] : u.key = iKey[d] /\ u.of = d /\ u.age <= missed[d][x] + (IF x \in due[d] THEN 1 ELSE 0)
             \/ [m |-> x, key |-> iKey[d], of |-> d] \in inserting'
  <2>1. x \in Routers /\ missed[d][x] \in Nat
    <3>1. missed \in [Clients -> [Routers -> 0 .. 2]] /\ x \in Routers
      BY LoginsTyped
    <3>2. missed[d][x] \in 0 .. 2
      BY <3>1
    <3> QED BY <3>1, <3>2
  <2>2. CASE x = i.m /\ iKey[d] = i.key
    <3>1. i.of = d
      BY <1>6, <2>2, LoginsTyped DEF S!KeysTrue
    <3>2. PICK u \in users'[x] : u.key = iKey[d] /\ u.of = d /\ u.age = 0
      BY <1>3, <2>2, <3>1
    <3> QED BY <2>1, <3>2
  <2>3. CASE ~(x = i.m /\ iKey[d] = i.key)
    <3>1. [m |-> x, key |-> iKey[d], of |-> d] # i
      BY <2>3
    <3>2. \A u \in users[x] : u.key = iKey[d] => u \in users'[x]
      BY <1>3, <2>1, <2>3
    <3>3. \/ \E u \in users[x] : u.key = iKey[d] /\ u.of = d /\ u.age <= missed[d][x] + (IF x \in due[d] THEN 1 ELSE 0)
          \/ [m |-> x, key |-> iKey[d], of |-> d] \in inserting
      BY <1>6, LoginsTyped DEF S!HeardOf, S!Enough
    <3> QED BY <1>1, <3>1, <3>2, <3>3
  <2> QED BY <2>2, <2>3
<1>7. S!HeardOf'
  BY <1>1, <1>6 DEF S!HeardOf, S!Enough
<1> QED BY <1>4, <1>5, <1>7 DEF S!SessionsInv

LEMMA LogoutKeeps ==
  ASSUME S!SessionsInv, NEW c \in Clients, S!Logout(c)
  PROVE  S!SessionsInv'
<1>1. PICK reached : /\ reached \subseteq logged[c]
                     /\ users' = [m \in Routers |-> IF m \in reached /\ S!Known(m, iKey[c], c) THEN {u \in users[m] : u.key # iKey[c]} ELSE users[m]]
  BY DEF S!Logout
<1>2. /\ at[c].st = "idle" /\ iKey[c] > 0
      /\ logged' = [logged EXCEPT ![c] = {}] /\ iKey' = [iKey EXCEPT ![c] = 0] /\ due' = [due EXCEPT ![c] = {}]
      /\ UNCHANGED <<ring, inserting, seed, given, clash, known, at, last, missed>>
  BY DEF S!Logout, S!server, S!Idle
<1>3. /\ users' \in [Routers -> SUBSET S!User]
      /\ \A x \in Routers : \A u \in users[x] : u.key # iKey[c] => u \in users'[x]
  BY <1>1, LoginsTyped
<1>4. /\ iKey' \in [Clients -> Nat] /\ logged' \in [Clients -> SUBSET Routers] /\ due' \in [Clients -> SUBSET Routers]
      /\ iKey'[c] = 0 /\ logged'[c] = {}
      /\ \A d \in Clients : d # c => iKey'[d] = iKey[d] /\ logged'[d] = logged[d] /\ due'[d] = due[d]
  BY <1>2, LoginsTyped
<1>5. S!TypeOK'
  BY <1>2, <1>3, <1>4, LoginsTyped DEF S!TypeOK
<1>6. S!WithinTheRing'
  <2>1. ASSUME NEW d \in Clients
        PROVE  /\ logged'[d] \subseteq ring
               /\ iKey'[d] > 0 => known[d] # {}
               /\ at[d].st \in {"ask", "drawn"} => at[d].m \in ring
               /\ at[d].st \in {"ask", "drawn"} /\ iKey'[d] > 0 => at[d] \in S!ForRequest
               /\ at[d].st = "drawn" => at[d].seen > 0
    <3>1. CASE d = c
      BY <1>2, <1>4, <3>1
    <3>2. CASE d # c
      BY <1>4, <3>2, LoginsTyped DEF S!WithinTheRing
    <3> QED BY <3>1, <3>2
  <2> QED BY <1>2, <2>1, LoginsTyped DEF S!WithinTheRing
<1>7. S!KeysTrue'
  <2>1. \A d \in Clients : IF iKey'[d] = 0 THEN logged'[d] = {} ELSE iKey'[d] \in given
    BY <1>4, LoginsTyped DEF S!KeysTrue
  <2>2. ASSUME NEW d \in Clients, NEW e \in Clients, d # e, iKey'[d] > 0, iKey'[d] = iKey'[e] PROVE iKey'[d] \in clash
    <3>1. d # c /\ e # c
      BY <1>4, <2>2
    <3> QED BY <1>4, <2>2, <3>1, LoginsTyped DEF S!KeysTrue
  <2>3. ASSUME NEW i \in inserting
        PROVE  i.key \in given /\ \A d \in Clients : iKey'[d] = i.key => i.of = d \/ i.key \in clash
    <3>1. i.key \in given /\ \A d \in Clients : iKey[d] = i.key => i.of = d \/ i.key \in clash
      BY LoginsTyped DEF S!KeysTrue
    <3>2. i.key # 0
      BY <3>1, LoginsTyped
    <3> QED BY <1>4, <3>1, <3>2
  <2> QED BY <1>2, <2>1, <2>2, <2>3 DEF S!KeysTrue
<1>8. ASSUME NEW d \in Clients, NEW x \in logged'[d], iKey'[d] \notin clash, missed[d][x] < 2
      PROVE  \/ \E u \in users'[x] : u.key = iKey'[d] /\ u.of = d /\ u.age <= missed[d][x] + (IF x \in due'[d] THEN 1 ELSE 0)
             \/ [m |-> x, key |-> iKey'[d], of |-> d] \in inserting
  <2>1. d # c /\ x \in logged[d] /\ x \in Routers /\ iKey'[d] = iKey[d] /\ due'[d] = due[d]
    BY <1>4, <1>8, LoginsTyped
  <2>2. iKey[d] # iKey[c]
    BY <1>2, <1>8, <2>1, LoginsTyped DEF S!KeysTrue
  <2>3. \/ \E u \in users[x] : u.key = iKey[d] /\ u.of = d /\ u.age <= missed[d][x] + (IF x \in due[d] THEN 1 ELSE 0)
        \/ [m |-> x, key |-> iKey[d], of |-> d] \in inserting
    BY <1>8, <2>1, LoginsTyped DEF S!HeardOf, S!Enough
  <2>4. \A u \in users[x] : u.key = iKey[d] => u \in users'[x]
    BY <1>3, <2>1, <2>2
  <2> QED BY <2>1, <2>3, <2>4
<1>9. S!HeardOf'
  BY <1>2, <1>8 DEF S!HeardOf, S!Enough
<1> QED BY <1>5, <1>6, <1>7, <1>9 DEF S!SessionsInv

LEMMA PeriodKeeps ==
  ASSUME S!SessionsInv, S!Period
  PROVE  S!SessionsInv'
<1> DEFINE Older(u) == [u EXCEPT !.age = IF u.age < 4 THEN u.age + 1 ELSE u.age]
<1>1. /\ \A c \in Clients : due[c] = {}
      /\ users' = [m \in Routers |-> {Older(u) : u \in users[m]}] /\ due' = logged
      /\ UNCHANGED <<ring, inserting, seed, given, clash, iKey, logged, known, at, last, missed>>
  BY DEF S!Period, S!server, S!client, S!MaxAge
<1>2. ASSUME NEW m \in Routers, NEW u \in users[m]
      PROVE  Older(u) \in S!User /\ Older(u).key = u.key /\ Older(u).of = u.of /\ Older(u).age <= u.age + 1 /\ Older(u).age \in Nat /\ u.age \in Nat
  <2>1. u \in [key : Nat, of : Clients, age : Nat]
    BY LoginsTyped DEF S!User
  <2>2. PICK a \in Nat : a = (IF u.age < 4 THEN u.age + 1 ELSE u.age) /\ a <= u.age + 1
    BY <2>1
  <2>3. Older(u) = [u EXCEPT !.age = a]
    BY <2>2
  <2> HIDE DEF Older
  <2> QED BY <2>1, <2>2, <2>3 DEF S!User
<1> HIDE DEF Older
<1>3. users' \in [Routers -> SUBSET S!User] /\ \A m \in Routers : \A u \in users[m] : Older(u) \in users'[m]
  BY <1>1, <1>2
<1>4. S!TypeOK'
  BY <1>1, <1>3, LoginsTyped DEF S!TypeOK
<1>5. S!WithinTheRing' /\ S!KeysTrue'
  BY <1>1, LoginsTyped DEF S!WithinTheRing, S!KeysTrue
<1>6. ASSUME NEW c \in Clients, NEW m \in logged[c], iKey[c] \notin clash, missed[c][m] < 2
      PROVE  \/ \E u \in users'[m] : u.key = iKey[c] /\ u.of = c /\ u.age <= missed[c][m] + (IF m \in due'[c] THEN 1 ELSE 0)
             \/ [m |-> m, key |-> iKey[c], of |-> c] \in inserting
  <2>1. m \in Routers /\ missed[c][m] \in Nat /\ m \in due'[c] /\ m \notin due[c]
    <3>1. missed \in [Clients -> [Routers -> 0 .. 2]] /\ m \in Routers
      BY LoginsTyped
    <3>2. missed[c][m] \in 0 .. 2
      BY <3>1
    <3> QED BY <1>1, <3>1, <3>2
  <2>2. CASE [m |-> m, key |-> iKey[c], of |-> c] \in inserting
    BY <2>2
  <2>3. ASSUME NEW u \in users[m], u.key = iKey[c], u.of = c, u.age <= missed[c][m] + 0
        PROVE  \E w \in users'[m] : w.key = iKey[c] /\ w.of = c /\ w.age <= missed[c][m] + 1
    <3>1. PICK w \in users'[m] : w = Older(u)
      BY <1>3, <2>1
    <3>2. w.key = u.key /\ w.of = u.of /\ w.age <= u.age + 1 /\ w.age \in Nat /\ u.age \in Nat
      BY <1>2, <2>1, <3>1
    <3> QED BY <2>1, <2>3, <3>1, <3>2
  <2> QED BY <1>6, <2>1, <2>2, <2>3, LoginsTyped DEF S!HeardOf, S!Enough
<1>7. S!HeardOf'
  BY <1>1, <1>6 DEF S!HeardOf, S!Enough
<1> QED BY <1>4, <1>5, <1>7 DEF S!SessionsInv

LEMMA CheckInactiveKeeps ==
  ASSUME S!SessionsInv, NEW m \in Routers, S!CheckInactiveUsers(m)
  PROVE  S!SessionsInv'
<1>1. PICK gone : /\ gone \subseteq {u \in users[m] : S!Silent(u)}
                  /\ users' = [users EXCEPT ![m] = users[m] \ gone]
                  /\ UNCHANGED <<ring, inserting, seed, given, clash, iKey, logged, known, at, last, due, missed>>
  BY DEF S!CheckInactiveUsers, S!server, S!client, S!alive
<1>2. /\ users' \in [Routers -> SUBSET S!User]
      /\ \A x \in Routers : \A u \in users[x] : u.age <= 2 => u \in users'[x]
  <2>1. \A u \in gone : u.age \in 3 .. 4
    BY <1>1 DEF S!Silent, S!MaxAge
  <2>2. users' \in [Routers -> SUBSET S!User] /\ \A x \in Routers : \A u \in users[x] : u \notin gone => u \in users'[x]
    BY <1>1, LoginsTyped
  <2>3. \A x \in Routers : \A u \in users[x] : u.age <= 2 => u \notin gone
    BY <2>1
  <2> QED BY <2>2, <2>3
<1>3. S!TypeOK'
  BY <1>1, <1>2, LoginsTyped DEF S!TypeOK
<1>4. S!WithinTheRing' /\ S!KeysTrue'
  BY <1>1, LoginsTyped DEF S!WithinTheRing, S!KeysTrue
<1>5. ASSUME NEW c \in Clients, NEW x \in logged[c], iKey[c] \notin clash, missed[c][x] < 2
      PROVE  \/ \E u \in users'[x] : u.key = iKey[c] /\ u.of = c /\ u.age <= missed[c][x] + (IF x \in due[c] THEN 1 ELSE 0)
             \/ [m |-> x, key |-> iKey[c], of |-> c] \in inserting
  <2>1. x \in Routers /\ missed[c][x] \in 0 .. 1
    <3>1. missed \in [Clients -> [Routers -> 0 .. 2]] /\ x \in Routers
      BY LoginsTyped
    <3>2. missed[c][x] \in 0 .. 2
      BY <3>1
    <3> QED BY <1>5, <3>1, <3>2
  <2>2. CASE [m |-> x, key |-> iKey[c], of |-> c] \in inserting
    BY <2>2
  <2>3. ASSUME NEW u \in users[x], u.key = iKey[c], u.of = c, u.age <= missed[c][x] + (IF x \in due[c] THEN 1 ELSE 0)
        PROVE  u \in users'[x]
    <3>1. u \in S!User
      BY <2>1, LoginsTyped
    <3>2. u.age \in Nat
      BY <3>1 DEF S!User
    <3>3. u.age <= 2
      BY <2>1, <2>3, <3>2
    <3> QED BY <1>2, <2>1, <3>3
  <2> QED BY <1>5, <2>2, <2>3, LoginsTyped DEF S!HeardOf, S!Enough
<1>6. S!HeardOf'
  BY <1>1, <1>5 DEF S!HeardOf, S!Enough
<1> QED BY <1>3, <1>4, <1>6 DEF S!SessionsInv

LEMMA JoinMasterKeeps ==
  ASSUME S!SessionsInv, NEW m \in Routers, S!JoinMaster(m)
  PROVE  S!SessionsInv'
<1>1. PICK from \in ring, age \in {0, 4, 5} :
        /\ m \notin ring /\ ring' = ring \cup {m}
        /\ users' = [users EXCEPT ![m] = {[u EXCEPT !.age = age] : u \in users[from]}]
        /\ UNCHANGED <<inserting, seed, given, clash, iKey, logged, known, at, last, due, missed>>
  BY DEF S!JoinMaster, S!server, S!client, S!alive, S!MaxAge, S!Unset
<1>2. users' \in [Routers -> SUBSET S!User] /\ \A x \in Routers : x # m => users'[x] = users[x]
  <2>1. from \in Routers /\ age \in Nat
    BY LoginsTyped
  <2>2. ASSUME NEW u \in users[from] PROVE [u EXCEPT !.age = age] \in S!User
    <3>1. u \in [key : Nat, of : Clients, age : Nat]
      BY <2>1, LoginsTyped DEF S!User
    <3> QED BY <2>1, <3>1 DEF S!User
  <2>3. PICK U : U = {[u EXCEPT !.age = age] : u \in users[from]} /\ U \subseteq S!User
    BY <2>2
  <2>4. users' = [users EXCEPT ![m] = U]
    BY <1>1, <2>3
  <2> QED BY <2>3, <2>4, LoginsTyped
<1>3. S!TypeOK'
  BY <1>1, <1>2, LoginsTyped DEF S!TypeOK
<1>4. S!WithinTheRing' /\ S!KeysTrue'
  BY <1>1, LoginsTyped DEF S!WithinTheRing, S!KeysTrue
<1>5. S!HeardOf'
  <2>1. \A c \in Clients : \A x \in logged[c] : x \in Routers /\ x # m
    BY <1>1, LoginsTyped DEF S!WithinTheRing
  <2> QED BY <1>1, <1>2, <2>1, LoginsTyped DEF S!HeardOf
<1> QED BY <1>3, <1>4, <1>5 DEF S!SessionsInv

LEMMA SessionsGoOn ==
  ASSUME LoginAssumption, S!SessionsInv, [S!Next]_(S!vars)
  PROVE  S!SessionsInv'
<1>1. ASSUME NEW c \in Clients, S!StartLogin(c) \/ S!ReadSeed(c) \/ S!LogIn(c) \/ S!LogInToo(c) \/ S!Send(c) \/ S!Logout(c)
      PROVE  S!SessionsInv'
  BY <1>1, StartLoginKeeps, ReadSeedKeeps, LogInKeeps, LogInTooKeeps, SendKeeps, LogoutKeeps
<1>2. ASSUME NEW c \in Clients, NEW p \in Paths, NEW op \in {"open", "list"}, S!Request(c, p, op)
      PROVE  S!SessionsInv'
  BY <1>2, RequestKeeps
<1>3. ASSUME NEW c \in Clients, NEW m \in Routers, NEW arrives \in BOOLEAN, S!KeepAlive(c, m, arrives)
      PROVE  S!SessionsInv'
  BY <1>3, KeepAliveKeeps
<1>4. ASSUME NEW i \in inserting, S!Insert(i) PROVE S!SessionsInv'
  BY <1>4, InsertKeeps
<1>5. CASE S!Period
  BY <1>5, PeriodKeeps
<1>6. ASSUME NEW m \in Routers, S!CheckInactiveUsers(m) \/ S!JoinMaster(m) PROVE S!SessionsInv'
  BY <1>6, CheckInactiveKeeps, JoinMasterKeeps
<1>7. CASE UNCHANGED S!vars
  <2>1. UNCHANGED <<ring, users, inserting, seed, given, clash, iKey, logged, known, at, last, due, missed>>
    BY <1>7 DEF S!vars, S!master, S!server, S!client, S!alive
  <2>2. S!TypeOK' /\ S!WithinTheRing' /\ S!KeysTrue'
    BY <2>1, LoginsTyped DEF S!TypeOK, S!WithinTheRing, S!KeysTrue
  <2>3. S!HeardOf'
    BY <2>1, LoginsTyped DEF S!HeardOf
  <2> QED BY <2>2, <2>3 DEF S!SessionsInv
<1> QED BY <1>1, <1>2, <1>3, <1>4, <1>5, <1>6, <1>7 DEF S!Next

\* The masters that a client counts as its own know it, for any number of clients and masters,
\* however logins, requests, logouts, keep-alives and the removal of silent users (login,
\* keepAlive, checkInactiveUsers) follow each other, and whenever masters join.
THEOREM UsersAreKept ==
  ASSUME LoginAssumption
  PROVE  S!Spec => []KeptAlive
<1>1. S!Init => S!SessionsInv
  BY SessionsStart
<1>2. S!SessionsInv /\ [S!Next]_(S!vars) => S!SessionsInv'
  BY SessionsGoOn
<1>3. S!SessionsInv => KeptAlive
  BY DEF S!SessionsInv, S!HeardOf, KeptAlive, S!KeptAlive, S!Known
<1> QED BY <1>1, <1>2, <1>3, PTL DEF S!Spec
=============================================================================
