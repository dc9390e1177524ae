------------------------------- MODULE MCCluster -------------------------------
(***************************************************************************)
(* Model checking of Cluster and of Sessions, one part in each behaviour.  *)
(***************************************************************************)
EXTENDS Logins

CONSTANTS p1, s1

VARIABLE part

loginVars == <<ring, users, seed, given, clash, inserting, iKey, logged, known, at, due, missed, last>>

MCHash == [p \in {p1} |-> 0]

MCInit == part \in {"members", "losses", "logins"} /\ Init /\ S!Init

\* Messages reach every slave but in a part of its own, with one slave.
MCNext ==
  /\ UNCHANGED part
  /\ \/ part = "members" /\ Next /\ unreached' = {} /\ UNCHANGED loginVars
     \/ part = "losses" /\ Next /\ (\A s \in Slaves \ {s1} : slave'[s] = Off) /\ UNCHANGED loginVars
     \/ part = "logins" /\ S!Next /\ UNCHANGED vars

MCSpec == MCInit /\ [][MCNext]_<<part, vars, loginVars>>

-----------------------------------------------------------------------------
(* Properties of liveness are under the fairness of their part. *)

\* A master that has died is forgotten by those that run (the probe loop).
DeadForgotten == part \in {"members", "losses"} /\ Fairness => DeadMastersForgotten

\* The users of clients that are gone do not stay on any master (the probe loop), and a client
\* that goes on asking is served in the end (lookup and login).
ClientsComeAndGo == part = "logins" /\ S!Fairness => S!SessionsEnd /\ S!ServedAgain
=============================================================================
