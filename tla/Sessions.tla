------------------------------- MODULE Sessions -------------------------------
(***************************************************************************)
(* The sessions of clients with masters (client.cpp; processUserJoin,      *)
(* process and processSysCmd of master.cpp; user.cpp): keys given out by   *)
(* the security server (security.cpp), logins at the master that the       *)
(* client was configured with and, as its requests need them, at the       *)
(* others, keep-alives, logouts, and the masters' removal of users that    *)
(* are silent.  Requests go to the master that is responsible for the path *)
(* (routing.cpp), by the list of masters that the client was given.        *)
(*                                                                         *)
(* A master is the number of its router key.  Time goes by periods of ten  *)
(* minutes, in which a client sends its keep-alives; a master removes      *)
(* users after thirty.  Masters join here and do not fail (see Cluster).   *)
(***************************************************************************)
EXTENDS Naturals, FiniteSets

CONSTANTS Clients, Masters, Paths,
          Entry,      \* the master that clients are configured with
          Founders,   \* the masters at the start; the others join later
          Hash,       \* of a path
          MaxKey      \* keys given out

VARIABLES
  ring,      \* the masters
  users,     \* master -> m_mActiveUsers
  seed,      \* m_iKeySeed of the security server
  given,     \* the keys that users were given
  clash,     \* those that were given twice
  inserting, \* users that a master has answered and not inserted yet
  iKey, logged, routing,   \* of a client: m_iKey, m_sMasters, m_Routing
  at,        \* where the thread of a client is
  due,       \* masters that the keep-alive thread has not come to in this period
  missed,    \* by client and master: keep-alives in a row that did not arrive; Enough stays
  last       \* by client and path: what became of the last request

master == <<ring, users, inserting>>
server == <<seed, given, clash>>
client == <<iKey, logged, routing, at, last>>
alive == <<due, missed>>
vars == <<master, server, client, alive>>

MaxAge == 4    \* periods after which a user has been silent for thirty minutes
Unset == 5     \* a time of the last message that was never set, and lies ahead
Enough == 2    \* keep-alives missed in a row after which a user may be taken for silent
Idle == [st |-> "idle"]

\* The finger table has the masters with the greatest key first; whom it makes responsible.
Place(S, m) == Cardinality({x \in S : x > m})
Responsible(S, p) == CHOOSE m \in S : Place(S, m) = Hash[p] % Cardinality(S)

UserOf(k, c) == [key |-> k, of |-> c, age |-> 0]
Known(m, k, c) == \E u \in users[m] : u.key = k /\ u.of = c
Inserted(U, u) == {v \in U : v.key # u.key} \cup {u}
RefreshedAll(U, k) == {[u EXCEPT !.age = 0] : u \in U}
Refreshed(U, k) == {IF u.key = k THEN [u EXCEPT !.age = 0] ELSE u : u \in U}

Init ==
  /\ ring = Founders /\ users = [m \in Masters |-> {}] /\ inserting = {}
  /\ seed = 1 /\ given = {} /\ clash = {}
  /\ iKey = [c \in Clients |-> 0] /\ logged = [c \in Clients |-> {}] /\ routing = [c \in Clients |-> {}]
  /\ at = [c \in Clients |-> Idle]
  /\ due = [c \in Clients |-> {}] /\ missed = [c \in Clients |-> [m \in Masters |-> 0]]
  /\ last = [c \in Clients |-> [p \in Paths |-> "none"]]

-----------------------------------------------------------------------------
(* Logins. *)

\* login, the user's: a session that there is, is kept.
StartLogin(c) ==
  /\ at[c] = Idle /\ iKey[c] = 0 /\ seed <= MaxKey
  /\ at' = [at EXCEPT ![c] = [st |-> "ask", m |-> Entry, seen |-> 0]]
  /\ UNCHANGED <<master, server, iKey, logged, routing, last, alive>>

\* generateKey is called by a thread for each master's connection, with no lock.
ReadSeed(c) ==
  /\ at[c].st = "ask"
  /\ at' = [at EXCEPT ![c].st = "drawn", ![c].seen = seed]
  /\ UNCHANGED <<master, server, iKey, logged, routing, last, alive>>

\* The key that was drawn is the user's, who has none.
LogIn(c) ==
  LET m == at[c].m k == at[c].seen IN
  /\ at[c].st = "drawn" /\ iKey[c] = 0
  /\ seed' = k + 1 /\ given' = given \cup {k}
  /\ clash' = IF k \in given THEN clash \cup {k} ELSE clash
  /\ users' = [users EXCEPT ![m] = Inserted(@, UserOf(k, c))]
  /\ iKey' = [iKey EXCEPT ![c] = k] /\ logged' = [logged EXCEPT ![c] = @ \cup {m}]
  /\ routing' = [routing EXCEPT ![c] = @ \cup ring]
  /\ at' = [at EXCEPT ![c] = Idle]
  /\ missed' = [missed EXCEPT ![c] = [x \in Masters |-> 0]]
  /\ UNCHANGED <<ring, inserting, last, due>>

\* At another master the user shows the key; the client takes the size of the
\* topology for the end of the exchange, and the master inserts the user then.
LogInToo(c) ==
  LET m == at[c].m k == at[c].seen IN
  /\ at[c].st = "drawn" /\ iKey[c] > 0
  /\ seed' = k + 1
  /\ inserting' = inserting \cup {[m |-> m, key |-> iKey[c], of |-> c]}
  /\ logged' = [logged EXCEPT ![c] = @ \cup {m}]
  /\ missed' = [missed EXCEPT ![c][m] = 0]
  /\ at' = [at EXCEPT ![c] = [st |-> "send", m |-> m, p |-> @.p]]
  /\ UNCHANGED <<ring, users, given, clash, iKey, routing, last, due>>

Insert(i) ==
  /\ inserting' = inserting \ {i}
  /\ users' = [users EXCEPT ![i.m] = Inserted(@, UserOf(i.key, i.of))]
  /\ UNCHANGED <<ring, server, client, alive>>

-----------------------------------------------------------------------------
(* Requests. *)

RequestUnknown(c, p, op) ==
  /\ at[c] = Idle /\ iKey[c] > 0
  /\ at' = [at EXCEPT ![c] = [st |-> "send", m |-> Responsible(routing[c], p), p |-> p]]
  /\ UNCHANGED <<master, server, iKey, logged, routing, last, alive>>

\* list, stat and the others log in where they have to; open does not.
Request(c, p, op) ==
  LET m == Responsible(routing[c], p) IN
  /\ at[c] = Idle /\ iKey[c] > 0
  /\ at' = [at EXCEPT ![c] = IF op = "open" \/ m \in logged[c] THEN [st |-> "send", m |-> m, p |-> p]
                                                              ELSE [st |-> "ask", m |-> m, p |-> p, seen |-> 0]]
  /\ UNCHANGED <<master, server, iKey, logged, routing, last, alive>>

\* process, and what the handlers ask first.
Outcome(c, m, p) ==
  IF \A u \in users[m] : u.key # iKey[c] THEN "expired"
  ELSE IF ~Known(m, iKey[c], c) THEN "security"
  ELSE IF Responsible(ring, p) # m THEN "master" ELSE "served"

\* A message of the user to a master that knows it there.
Message(c, m) == users' = [users EXCEPT ![m] = IF Known(m, iKey[c], c) THEN Refreshed(@, iKey[c]) ELSE @]

Send(c) ==
  /\ at[c].st = "send"
  /\ last' = [last EXCEPT ![c][at[c].p] = Outcome(c, at[c].m, at[c].p)]
  /\ Message(c, at[c].m)
  /\ at' = [at EXCEPT ![c] = Idle]
  /\ UNCHANGED <<ring, inserting, server, iKey, logged, routing, alive>>

\* logout: the masters that the message reaches forget the user.
Logout(c) ==
  /\ at[c] = Idle /\ iKey[c] > 0
  /\ \E reached \in SUBSET logged[c] :
       users' = [m \in Masters |-> IF m \in reached /\ Known(m, iKey[c], c) THEN {u \in users[m] : u.key # iKey[c]} ELSE users[m]]
  /\ logged' = [logged EXCEPT ![c] = {}] /\ iKey' = [iKey EXCEPT ![c] = 0] /\ due' = [due EXCEPT ![c] = {}]
  /\ UNCHANGED <<ring, inserting, server, routing, at, last, missed>>

-----------------------------------------------------------------------------
(* Time. *)

\* Ten minutes: the keep-alive threads have done what they had to.
Period ==
  /\ \A c \in Clients : due[c] = {}
  /\ users' = [m \in Masters |-> {[u EXCEPT !.age = IF @ < MaxAge THEN @ + 1 ELSE @] : u \in users[m]}]
  /\ due' = logged
  /\ UNCHANGED <<ring, inserting, server, client, missed>>

KeepAlive(c, m, arrives) ==
  /\ m \in due[c]
  /\ due' = [due EXCEPT ![c] = @ \ {m}]
  /\ missed' = [missed EXCEPT ![c][m] = IF @ = Enough THEN @ ELSE IF arrives THEN 0 ELSE @ + 1]
  /\ IF arrives THEN Message(c, m) ELSE UNCHANGED users
  /\ UNCHANGED <<ring, inserting, server, client>>

\* checkInactiveUsers: three periods may be thirty minutes, four are more.
SilentSoon(u) == u.age \in MaxAge - 2 .. MaxAge
Silent(u) == u.age \in MaxAge - 1 .. MaxAge
CheckInactiveUsers(m) ==
  /\ \E gone \in SUBSET {u \in users[m] : Silent(u)} :
       /\ {u \in users[m] : u.age = MaxAge} \subseteq gone
       /\ gone # {}
       /\ users' = [users EXCEPT ![m] = @ \ gone]
  /\ UNCHANGED <<ring, inserting, server, client, alive>>

\* A master that joins is handed the users of the one it joins, not their times.
JoinMaster(m) ==
  /\ m \notin ring /\ ring' = ring \cup {m}
  /\ \E from \in ring, age \in {0, MaxAge, Unset} :
       users' = [users EXCEPT ![m] = {[u EXCEPT !.age = age] : u \in users[from]}]
  /\ UNCHANGED <<inserting, server, client, alive>>

Next ==
  \/ \E c \in Clients :
       \/ StartLogin(c) \/ ReadSeed(c) \/ LogIn(c) \/ LogInToo(c) \/ Send(c) \/ Logout(c)
       \/ \E p \in Paths, op \in {"open", "list"} : Request(c, p, op)
       \/ \E m \in Masters, arrives \in BOOLEAN : KeepAlive(c, m, arrives)
  \/ \E i \in inserting : Insert(i)
  \/ Period
  \/ \E m \in Masters : CheckInactiveUsers(m) \/ JoinMaster(m)

Spec == Init /\ [][Next]_vars

\* Every thread goes on with what it has begun, keep-alives are sent, masters
\* look for silent users, time goes by, and clients ask again.
Fairness ==
  /\ \A c \in Clients :
       /\ WF_vars(ReadSeed(c)) /\ WF_vars(LogIn(c)) /\ WF_vars(LogInToo(c)) /\ WF_vars(Send(c))
       /\ \A p \in Paths : SF_vars(Request(c, p, "list"))
       /\ \A m \in Masters : WF_vars(\E arrives \in BOOLEAN : KeepAlive(c, m, arrives))
  /\ WF_vars(Period)
  /\ \A m \in Masters : WF_vars(CheckInactiveUsers(m)) /\ WF_vars(\E i \in inserting : i.m = m /\ Insert(i))

FairSpec == Spec /\ Fairness

-----------------------------------------------------------------------------

\* A master that a client counts among those it is logged in at knows the
\* user, or is about to, as long as no two keep-alives in a row are lost, even
\* though a user is not told when it is removed (checkInactiveUsers,
\* keepAlive); unless the key was given twice (generateKey).
KeptAlive ==
  \A c \in Clients : \A m \in logged[c] :
    iKey[c] \notin clash /\ missed[c][m] < Enough =>
      Known(m, iKey[c], c) \/ [m |-> m, key |-> iKey[c], of |-> c] \in inserting

\* What makes it inductive.  Types: a login that a request needs goes on with the request.
User == [key : Nat, of : Clients, age : Nat]
ForRequest == [st : {"ask", "drawn"}, m : Masters, p : Paths, seen : Nat]
Call == {Idle} \cup [st : {"ask", "drawn"}, m : Masters, seen : Nat] \cup ForRequest \cup [st : {"send"}, m : Masters, p : Paths]
TypeOK ==
  /\ ring \subseteq Masters /\ users \in [Masters -> SUBSET User]
  /\ seed \in Nat \ {0} /\ given \subseteq Nat \ {0} /\ clash \subseteq given
  /\ inserting \subseteq [m : Masters, key : Nat, of : Clients]
  /\ iKey \in [Clients -> Nat] /\ logged \in [Clients -> SUBSET Masters] /\ routing \in [Clients -> SUBSET Masters]
  /\ at \in [Clients -> Call] /\ due \in [Clients -> SUBSET Masters] /\ missed \in [Clients -> [Masters -> 0 .. Enough]]
  /\ last \in [Clients -> [Paths -> {"none", "expired", "security", "master", "served"}]]

\* Whom a client knows, logs in at and asks is a master that has joined.
WithinTheRing ==
  /\ Founders \subseteq ring
  /\ \A c \in Clients :
       /\ logged[c] \subseteq ring /\ routing[c] \subseteq ring
       /\ iKey[c] > 0 => routing[c] # {}
       /\ at[c].st \in {"ask", "drawn"} => at[c].m \in ring
       /\ at[c].st \in {"ask", "drawn"} /\ iKey[c] > 0 => at[c] \in ForRequest
       /\ at[c].st = "drawn" => at[c].seen > 0

\* A key that was given once is that of one client, and only he is inserted with it.
KeysTrue ==
  /\ \A c \in Clients : IF iKey[c] = 0 THEN logged[c] = {} ELSE iKey[c] \in given
  /\ \A c, d \in Clients : c # d /\ iKey[c] > 0 /\ iKey[c] = iKey[d] => iKey[c] \in clash
  /\ \A i \in inserting : i.key \in given /\ \A c \in Clients : iKey[c] = i.key => i.of = c \/ i.key \in clash

\* A user has been silent for the keep-alives that were missed, and the one that is due.
HeardOf ==
  \A c \in Clients : \A m \in logged[c] :
    iKey[c] \notin clash /\ missed[c][m] < Enough =>
      \/ \E u \in users[m] : u.key = iKey[c] /\ u.of = c /\ u.age <= missed[c][m] + (IF m \in due[c] THEN 1 ELSE 0)
      \/ [m |-> m, key |-> iKey[c], of |-> c] \in inserting

SessionsInv == TypeOK /\ WithinTheRing /\ KeysTrue /\ HeardOf

\* No two clients have the same key.  It does not hold (generateKey).
KeysUnique == \A c, d \in Clients : c # d /\ iKey[c] > 0 => iKey[c] # iKey[d]

\* A user whose client is gone, the logout having been lost or overtaken by
\* the login, does not stay (checkInactiveUsers).
SessionsEnd ==
  []<>(\A m \in Masters : \A u \in users[m] : u.age = Unset \/ \E c \in Clients : iKey[c] = u.key)

\* What may keep a client from being served.
Lost(c) == iKey[c] = 0 \/ iKey[c] \in clash \/ \E m \in logged[c] : missed[c][m] >= Enough

\* A client that goes on asking is served again and again, as long as it knows
\* the masters that there are.
ServedAgain == \A c \in Clients, p \in Paths : []<>(last[c][p] = "served" \/ Lost(c) \/ routing[c] # ring)

\* And that also when a master has joined.  It does not hold: nobody tells the client.
ServedAfterJoin == \A c \in Clients, p \in Paths : []<>(last[c][p] = "served" \/ Lost(c))
=============================================================================
