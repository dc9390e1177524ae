-------------------------------- MODULE Logins --------------------------------
(***************************************************************************)
(* The users of several masters, beside the membership of the masters and  *)
(* slaves (Cluster): the names of Sessions that Cluster has too are new.   *)
(***************************************************************************)
EXTENDS Cluster

CONSTANTS Clients, Routers, Paths, Entry, Founders, Hash, MaxUserKey
VARIABLES ring, users, seed, given, clash, inserting, iKey, logged, known, at, due, missed, last

S == INSTANCE Sessions WITH Masters <- Routers, MaxKey <- MaxUserKey, routing <- known

\* The masters that a client counts as its own know it or are about to, as long as no two
\* keep-alives in a row are lost and its key was not given twice (client.cpp, user.cpp);
\* with what makes that inductive.
KeptAlive == S!SessionsInv /\ S!KeptAlive
=============================================================================
