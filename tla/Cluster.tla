-------------------------------- MODULE Cluster --------------------------------
(***************************************************************************)
(* How masters and slaves find each other (master.cpp: join, run,          *)
(* processSlaveJoin, processMasterJoin, processMCmd; routing.cpp;          *)
(* slavemgmt.cpp; slave.cpp: connect, run, processMCmd).                   *)
(*                                                                         *)
(* The first master is started alone, the others join a running one, which *)
(* hands over its lists and then tells its slaves.  A slave joins the      *)
(* configured master, which hands it the list of the other masters, and    *)
(* then each of those.  The joins are handled by four threads of a master, *)
(* so they interleave.  Once a minute every master probes the others and   *)
(* its slaves.                                                             *)
(*                                                                         *)
(* A process is known by its router key, which the security server never   *)
(* gives out twice, and reached by its address; a master that is started   *)
(* again has the old address and a new key.                                *)
(***************************************************************************)
EXTENDS Naturals, Sequences, FiniteSets

CONSTANTS Masters, Slaves,
          Founder,     \* the master that the configuration of the slaves names
          Mortal,      \* the processes that may die and be started again
          MaxKey,      \* router keys given out
          MaxRetry,    \* probes in vain after which a slave is lost (10 in the code)
          MaxDeaths,   \* bounds the deaths of slaves
          MaxUnreached \* bounds the slaves that miss a message at a time

ASSUME FounderAssumption == Founder \in Masters /\ Masters \cap Slaves = {}
ASSUME MortalAssumption == Mortal \subseteq Masters \cup Slaves /\ Founder \notin Mortal
ASSUME KeyAssumption == MaxKey \in Nat \ {0} /\ MaxRetry \in Nat /\ MaxDeaths \in Nat
ASSUME LossAssumption == MaxUnreached \in Nat

VARIABLES
  nextKey,   \* the security server's generateKey
  key,       \* master -> m_iRouterKey of its process, 0 when it is not running
  routing,   \* master or slave -> m_Routing, its set of masters
  slaves,    \* master -> m_SlaveManager, the slaves by their storage path
  retry,     \* master -> slave -> m_iRetryNum
  joins,     \* the joins of masters that have the lists and are not announced
  slave,     \* slave -> where its process is
  todo,      \* slave -> masters that Slave::connect has still to join
  inbox,     \* slave -> what masters have sent to it, in GMP's queue
  unreached, \* the slaves that a message of a master has not reached
  deaths

vars == <<nextKey, key, routing, slaves, retry, joins, slave, todo, inbox, unreached, deaths>>

Keys == 1 .. MaxKey
Nodes == Masters \cup Slaves
Route == [key : Keys, at : Masters]
Join == [by : Masters, key : Keys, at : Masters, told : SUBSET Masters]
Message == [type : {"new", "lost"}, key : Keys, at : Masters, by : Masters]
Process == [st : {"off", "connect", "checked", "inserted", "on"}, first : BOOLEAN, at : Masters]
Up(m) == key[m] # 0

TypeOK ==
  /\ nextKey \in 1 .. MaxKey + 1
  /\ key \in [Masters -> 0 .. MaxKey]
  /\ routing \in [Nodes -> SUBSET Route]
  /\ slaves \in [Masters -> SUBSET Slaves]
  /\ retry \in [Masters -> [Slaves -> 0 .. MaxRetry + 1]]
  /\ joins \subseteq Join
  /\ slave \in [Slaves -> Process]
  /\ inbox \in [Slaves -> Seq(Message)]
  /\ todo \in [Slaves -> SUBSET Masters]
  /\ unreached \subseteq Slaves
  /\ deaths \in 0 .. MaxDeaths

Off == [st |-> "off", first |-> TRUE, at |-> Founder]

Init ==
  /\ nextKey = 2
  /\ key = [m \in Masters |-> IF m = Founder THEN 1 ELSE 0]
  /\ routing = [n \in Nodes |-> IF n = Founder THEN {[key |-> 1, at |-> Founder]} ELSE {}]
  /\ slaves = [m \in Masters |-> {}]
  /\ retry = [m \in Masters |-> [s \in Slaves |-> 0]]
  /\ joins = {}
  /\ slave = [s \in Slaves |-> Off]
  /\ todo = [s \in Slaves |-> {}]
  /\ inbox = [s \in Slaves |-> <<>>]
  /\ unreached = {}
  /\ deaths = 0

-----------------------------------------------------------------------------
(* Routing. *)

\* A key that is there keeps its address.
inserted(R, r) == IF \E q \in R : q.key = r.key THEN R ELSE R \cup {r}

\* The entry is found by its address.
RemovedAddress(R, k) == {r \in R : \A q \in R : q.key = k => r.at # q.at}

removed(R, k) == {r \in R : r.key # k}

\* The list of masters, without the own key.
Others(m) == {r \in routing[m] : r.key # key[m]}

\* multi_rpc to the slaves of m.  Those that do not run do not get it, and any other may
\* miss it: nobody looks at the failures.
Tell(m, type, r) ==
  \E lost \in SUBSET slaves[m] :
    /\ \A s \in lost : slave[s].st # "off"
    /\ Cardinality(unreached \cup lost) <= MaxUnreached
    /\ unreached' = unreached \cup lost
    /\ inbox' = [s \in Slaves |->
                  IF s \in slaves[m] \ lost /\ slave[s].st # "off"
                    THEN Append(inbox[s], [type |-> type, key |-> r.key, at |-> r.at, by |-> m])
                    ELSE inbox[s]]

-----------------------------------------------------------------------------
(* A master joins. *)

\* What a new master keeps of the list of p: every entry gets the address of p.
Listed(p) == {[key |-> r.key, at |-> p] : r \in Others(p)}

\* The masters that p has in its list.
Told(p) == {r.at : r \in Others(p)} \ {p}

\* p hands its lists over to m, which is to be announced to the masters that p has now.
HandOver(p, m, k) ==
  /\ routing' = [routing EXCEPT ![m] = {[key |-> k, at |-> m], [key |-> key[p], at |-> p]} \cup Listed(p)]
  /\ slaves' = [slaves EXCEPT ![m] = slaves[p]]
  /\ retry' = [retry EXCEPT ![m] = [s \in Slaves |-> 0]]
  /\ joins' = joins \cup {[by |-> p, key |-> k, at |-> m, told |-> Told(p)]}

\* m is started, gets its key, and joins p.
JoinMaster(m, p) ==
  /\ ~Up(m)
  /\ Up(p)
  /\ nextKey \in Keys
  /\ nextKey' = nextKey + 1
  /\ key' = [key EXCEPT ![m] = nextKey]
  /\ HandOver(p, m, nextKey)
  /\ UNCHANGED <<slave, todo, inbox, unreached, deaths>>

\* An announcement that reaches nobody but the master that makes it.
AnnounceToNobody(j) ==
  /\ j \in joins
  /\ joins' = joins \ {j}
  /\ routing' = [routing EXCEPT ![j.by] = inserted(@, [key |-> j.key, at |-> j.at])]
  /\ UNCHANGED <<nextKey, key, slaves, retry, slave, todo, inbox, unreached, deaths>>

\* p tells the masters of its list, of which some may not hear it, lists the new one, and
\* tells its slaves.  It takes less than the probe of a master that has died since.
Announce(j) ==
  /\ j \in joins
  /\ joins' = joins \ {j}
  /\ LET r == [key |-> j.key, at |-> j.at] IN
       /\ \E heard \in SUBSET j.told :
            /\ \A n \in heard : Up(n)
            /\ routing' = [n \in Nodes |->
                 IF n \in heard \cup {j.by} THEN inserted(routing[n], r) ELSE routing[n]]
       /\ Tell(j.by, "new", r)
  /\ UNCHANGED <<nextKey, key, slaves, retry, slave, todo, deaths>>

\* The master at that address answers for another key: several may be started
\* on the same address, one after the other.
Answers(r) == Up(r.at) /\ key[r.at] = r.key

\* A master that is dropped and kept from the slaves.
ProbeQuietly(m, r) ==
  /\ Up(m)
  /\ r \in Others(m)
  /\ ~Answers(r)
  /\ routing' = [routing EXCEPT ![m] = removed(@, r.key)]
  /\ UNCHANGED <<nextKey, key, slaves, retry, joins, slave, todo, inbox, unreached, deaths>>

\* The loop of run: a master that does not answer for its key is dropped, and
\* the slaves are told.
ProbeMaster(m, r) ==
  /\ Up(m)
  /\ r \in Others(m)
  /\ ~Answers(r)
  /\ routing' = [routing EXCEPT ![m] = removed(@, r.key)]
  /\ Tell(m, "lost", r)
  /\ UNCHANGED <<nextKey, key, slaves, retry, joins, slave, todo, deaths>>

-----------------------------------------------------------------------------
(* A slave joins. *)

StartSlave(s) ==
  /\ slave[s].st = "off"
  /\ slave' = [slave EXCEPT ![s] = [Off EXCEPT !.st = "connect"]]
  /\ todo' = [todo EXCEPT ![s] = {Founder}]
  /\ UNCHANGED <<nextKey, key, routing, slaves, retry, joins, inbox, unreached, deaths>>

\* The process of s is gone, with what it knew.
Gone(s) ==
  /\ slave' = [slave EXCEPT ![s] = Off]
  /\ todo' = [todo EXCEPT ![s] = {}]
  /\ routing' = [routing EXCEPT ![s] = {}]
  /\ inbox' = [inbox EXCEPT ![s] = <<>>]
  /\ unreached' = unreached \ {s}

\* There is a slave with the same storage path on the same address.
Duplicate(s, m) == s \in slaves[m]

\* A slave that one of the masters refuses, or that cannot reach it, gives up.
Connect(s, m) ==
  /\ slave[s].st = "connect"
  /\ m \in todo[s]
  /\ \/ /\ Up(m) /\ ~Duplicate(s, m)
        /\ slave' = [slave EXCEPT ![s].st = "checked", ![s].at = m]
        /\ todo' = [todo EXCEPT ![s] = @ \ {m}]
        /\ UNCHANGED <<routing, inbox, unreached>>
     \/ /\ ~Up(m) \/ Duplicate(s, m)
        /\ Gone(s)
  /\ UNCHANGED <<nextKey, key, slaves, retry, joins, deaths>>

\* The master lists the slave.
InsertSlave(s) ==
  /\ slave[s].st = "checked"
  /\ LET m == slave[s].at IN
       /\ slaves' = [slaves EXCEPT ![m] = @ \cup {s}]
       /\ retry' = [retry EXCEPT ![m][s] = 0]
  /\ slave' = [slave EXCEPT ![s].st =
       IF slave[s].first THEN "inserted" ELSE IF todo[s] = {} THEN "on" ELSE "connect"]
  /\ UNCHANGED <<nextKey, key, routing, joins, todo, inbox, unreached, deaths>>

ToJoin(R) == {r.at : r \in R}

\* The first master sends the list of the masters, which the slave is to join.
ListMasters(s) ==
  /\ slave[s].st = "inserted"
  /\ LET m == slave[s].at IN
       /\ routing' = [routing EXCEPT ![s] = {[key |-> key[m], at |-> m]} \cup Others(m)]
       /\ todo' = [todo EXCEPT ![s] = ToJoin(Others(m))]
       /\ slave' = [slave EXCEPT ![s].first = FALSE,
                                 ![s].st = IF Others(m) = {} THEN "on" ELSE "connect"]
  /\ UNCHANGED <<nextKey, key, slaves, retry, joins, inbox, unreached, deaths>>

\* The routing R of a slave after a message of a master.
Obeyed(R, msg) ==
  IF msg.type = "new" THEN inserted(R, [key |-> msg.key, at |-> msg.at]) ELSE removed(R, msg.key)

\* The address a is the one of a master that is listed.
Known(R, a) == \E r \in R : r.at = a

\* The loop of the slave, which leaves out who is no master of its list.
Handle(s) ==
  /\ slave[s].st = "on"
  /\ inbox[s] # <<>>
  /\ routing' = [routing EXCEPT ![s] = IF Known(@, Head(inbox[s]).by) THEN Obeyed(@, Head(inbox[s])) ELSE @]
  /\ inbox' = [inbox EXCEPT ![s] = Tail(@)]
  /\ UNCHANGED <<nextKey, key, slaves, retry, joins, slave, todo, unreached, deaths>>

\* What multi_rpc leaves in the vector of answers: without an answer, the
\* message that the caller put there.
ProbeAnswer(s) == IF slave[s].st = "on" THEN "info" ELSE "empty"

\* An answer resets the retry count, and no message at all would increase it.
Count(m, s) ==
  CASE ProbeAnswer(s) = "info" -> 0
    [] ProbeAnswer(s) = "null" -> retry[m][s] + 1
    [] OTHER -> retry[m][s]

\* Slaves that are removed from the list R.
Without(R, L) == R \ L

checkLost(m) == {s \in slaves[m] : Count(m, s) > MaxRetry}

\* A slave that is lost is removed here, and from the other masters.
ProbeSlaves(m) ==
  /\ Up(m)
  /\ retry' = [retry EXCEPT ![m] =
       [s \in Slaves |-> IF s \in Without(slaves[m], checkLost(m)) THEN Count(m, s) ELSE 0]]
  /\ slaves' = [n \in Masters |-> Without(slaves[n], checkLost(m))]
  /\ UNCHANGED <<nextKey, key, routing, joins, slave, todo, inbox, unreached, deaths>>

-----------------------------------------------------------------------------
\* A process dies.  A master does not die in the middle of a join.
MasterDies(m) ==
  /\ m \in Mortal
  /\ Up(m)
  /\ \A j \in joins : j.by # m
  /\ \A s \in Slaves : slave[s].st \in {"checked", "inserted"} => slave[s].at # m
  /\ key' = [key EXCEPT ![m] = 0]
  /\ routing' = [routing EXCEPT ![m] = {}]
  /\ slaves' = [slaves EXCEPT ![m] = {}]
  /\ UNCHANGED <<nextKey, retry, joins, slave, todo, inbox, unreached, deaths>>

SlaveDies(s) ==
  /\ s \in Mortal
  /\ slave[s].st = "on"
  /\ deaths < MaxDeaths
  /\ deaths' = deaths + 1
  /\ Gone(s)
  /\ UNCHANGED <<nextKey, key, slaves, retry, joins>>

Next ==
  \/ \E m, p \in Masters : JoinMaster(m, p)
  \/ \E j \in joins : Announce(j)
  \/ \E m \in Masters, r \in Route : ProbeMaster(m, r)
  \/ \E s \in Slaves : StartSlave(s) \/ InsertSlave(s) \/ ListMasters(s) \/ Handle(s) \/ SlaveDies(s)
  \/ \E s \in Slaves, m \in Masters : Connect(s, m)
  \/ \E m \in Masters : ProbeSlaves(m) \/ MasterDies(m)

Spec == Init /\ [][Next]_vars

\* The threads of the masters and the slaves that run keep running; nothing is
\* assumed of the starts, the ends and the joins of processes.
Fairness ==
  /\ \A m \in Masters : WF_vars(ProbeSlaves(m)) /\ \A r \in Route : WF_vars(ProbeMaster(m, r))
  /\ \A k \in Keys : WF_vars(\E j \in joins : j.key = k /\ Announce(j))
  /\ \A s \in Slaves : WF_vars(InsertSlave(s)) /\ WF_vars(ListMasters(s)) /\ WF_vars(Handle(s))
  /\ \A s \in Slaves, m \in Masters : WF_vars(Connect(s, m))

FairSpec == Spec /\ Fairness

-----------------------------------------------------------------------------
(* Properties. *)

Announced(m) == Up(m) /\ \A j \in joins : j.key # key[m]

Tells(q, k) == \E i \in DOMAIN q : q[i].type = "new" /\ q[i].key = k
Coming(s, k) == Tells(inbox[s], k)

\* What these promises rest on, beside the types.  Who has an entry, or a message, with the
\* key of a master that runs, has its address too, and nobody is told that it is lost.
Rightful(K, r) == \A m \in Masters : K[m] = r.key => r.at = m

KeysTrue ==
  /\ Up(Founder)
  /\ \A m \in Masters : key[m] < nextKey
  /\ \A m, n \in Masters : Up(m) /\ key[m] = key[n] => m = n
  /\ \A n \in Nodes : \A r \in routing[n] : r.key < nextKey /\ Rightful(key, r)
  /\ \A j \in joins : j.key < nextKey /\ Rightful(key, j)
  /\ \A s \in Slaves : \A i \in DOMAIN inbox[s] :
       /\ inbox[s][i].key < nextKey
       /\ Rightful(key, inbox[s][i])
       /\ inbox[s][i].type = "lost" => \A m \in Masters : key[m] # inbox[s][i].key

\* The others join the first master, which then has them in its list, and announces them.
FounderKnows ==
  /\ \A s \in Slaves : \A i \in DOMAIN inbox[s] : inbox[s][i].type = "new" => inbox[s][i].by = Founder
  /\ \A j \in joins : j.by = Founder /\ j.at # Founder
  /\ \A r \in routing[Founder] : r.key # key[Founder] => r.at # Founder
  /\ \A m \in Masters : Announced(m) => [key |-> key[m], at |-> m] \in routing[Founder]

\* A slave joins the first master first, and not again, and obeys it from then on.
FounderFirstFor(s) ==
  /\ slave[s].st = "inserted" => slave[s].first
  /\ slave[s].st = "on" => ~slave[s].first
  /\ slave[s].st \in {"checked", "inserted"} => (slave[s].first <=> slave[s].at = Founder)
  /\ slave[s].st = "connect" /\ slave[s].first => todo[s] \subseteq {Founder}
  /\ ~slave[s].first => Founder \notin todo[s] /\ [key |-> key[Founder], at |-> Founder] \in routing[s]

FounderFirst == \A s \in Slaves : FounderFirstFor(s)

\* From the list on a slave has every master, or a message about it, if it misses none.
ListsKept ==
  \A s \in Slaves \ unreached, m \in Masters :
    Announced(m) /\ slave[s].st # "off" /\ ~slave[s].first /\ s \in slaves[Founder]
      => Coming(s, key[m]) \/ [key |-> key[m], at |-> m] \in routing[s]

ClusterInv == TypeOK /\ KeysTrue /\ FounderKnows /\ FounderFirst /\ ListsKept

ObeyedBy(s, m) == Coming(s, key[m]) \/ [key |-> key[m], at |-> m] \in routing[s]

\* A slave that no message has missed obeys every master that the first one has made known,
\* or is about to: its own join and that of a master cannot pass by each other so that the
\* slave ignores the commands of the master for ever.
SlavesObeyMasters ==
  \A m \in Masters, s \in Slaves \ unreached :
    Announced(m) /\ slave[s].st = "on" /\ s \in slaves[Founder] => ObeyedBy(s, m)

\* That does not hold of a slave that an announcement does not reach: nobody looks at the
\* answers to it, nor announces the master again.
AllSlavesObeyMasters ==
  \A m \in Masters, s \in Slaves :
    Announced(m) /\ slave[s].st = "on" /\ s \in slaves[Founder] => ObeyedBy(s, m)

\* Whom the masters and the slaves drop is gone.
OnlyLostMastersDropped ==
  [][\A n \in Nodes, m \in Masters :
       /\ Up(m) /\ key'[m] = key[m]
       /\ \E r \in routing[n] : r.key = key[m]
       /\ IF n \in Masters THEN key'[n] = key[n] ELSE slave'[n].st = slave[n].st
       => \E r \in routing'[n] : r.key = key[m]]_vars

\* A master that has died is forgotten in the end, by the other masters and by
\* the slaves that run and have missed no message, those that were joining included.
DeadMastersForgotten ==
  \A k \in Keys :
    (k < nextKey /\ \A m \in Masters : key[m] # k)
      ~> \A n \in Nodes \ unreached : \A r \in routing[n] : r.key # k

\* A slave that has died is forgotten in the end, and can join again.
DeadSlavesForgotten ==
  \A s \in Slaves : (slave[s].st = "off" /\ s \in slaves[Founder])
                      ~> (slave[s].st # "off" \/ s \notin slaves[Founder])
=============================================================================
