------------------------------ MODULE RemoteCalls ------------------------------
(***************************************************************************)
(* What the master, the slaves and the clients take CGMP::rpc and          *)
(* multi_rpc to promise: a request is handled by its server at most once   *)
(* while the server runs, and an answer is the answer to that request, so  *)
(* the server has handled it.  A call that fails says nothing.             *)
(***************************************************************************)
EXTENDS Naturals

CONSTANTS Requests, Servers

VARIABLES
  asked,     \* the requests sent, each with its server
  handled,   \* server -> request -> how often it has been handled since the start
  everDone,  \* the requests handled by any server, ever
  outcome    \* request -> what its call returned

callVars == <<asked, handled, everDone, outcome>>

Init ==
  /\ asked = {}
  /\ handled = [s \in Servers |-> [q \in Requests |-> 0]]
  /\ everDone = {}
  /\ outcome = [q \in Requests |-> "none"]

Ask(q, s) ==
  /\ \A a \in asked : a[1] # q
  /\ asked' = asked \cup {<<q, s>>}
  /\ UNCHANGED <<handled, everDone, outcome>>

\* Server s handles q, for the first time since it was started.
Handle(q, s) ==
  /\ <<q, s>> \in asked
  /\ handled[s][q] = 0
  /\ handled' = [handled EXCEPT ![s][q] = 1]
  /\ everDone' = everDone \cup {q}
  /\ UNCHANGED <<asked, outcome>>

Restart(s) ==
  /\ handled' = [handled EXCEPT ![s] = [q \in Requests |-> 0]]
  /\ UNCHANGED <<asked, everDone, outcome>>

Answer(q) ==
  /\ q \in everDone
  /\ outcome[q] = "none"
  /\ outcome' = [outcome EXCEPT ![q] = "ok"]
  /\ UNCHANGED <<asked, handled, everDone>>

Fail(q) ==
  /\ outcome[q] = "none"
  /\ outcome' = [outcome EXCEPT ![q] = "failed"]
  /\ UNCHANGED <<asked, handled, everDone>>

Next ==
  \/ \E q \in Requests, s \in Servers : Ask(q, s) \/ Handle(q, s)
  \/ \E s \in Servers : Restart(s)
  \/ \E q \in Requests : Answer(q) \/ Fail(q)

Spec == Init /\ [][Next]_callVars
=============================================================================
