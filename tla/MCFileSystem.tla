---------------------------- MODULE MCFileSystem ----------------------------
(***************************************************************************)
(* Model checking of the safety of the parts of the file system that       *)
(* FileTransactions leaves out, one part in each behaviour: a file that is *)
(* written while it is replicated (the constants of the .cfg), replicas    *)
(* and copies, the name space and the files of a client.                   *)
(***************************************************************************)
EXTENDS MCReplication, OpenFiles

CONSTANTS s1, s2

VARIABLES
  part,
  rMeta, rDisk, rLocal, rQueue, rOnReplicate, rTrans, rNextTrans, rReplica, rCopier, rWriter, rClock,
  tree, joined, nDisk, attic, msgs, ops, lost

\* Replicas and copies of files with index files and of a directory, with deletes, an
\* old copy that the master does not know and every kind of failure.
Copied == {"a", "a.idx", "b", "b.idx"}
Replicas ==
  INSTANCE Replication WITH
    Slaves <- {1, 2}, ReplicaNum <- 2, Files <- Copied, Dirs <- {"d"}, FileOrder <- <<"a", "a.idx", "b", "b.idx">>,
    Index <- [f \in Copied |-> CASE f = "a" -> "a.idx" [] f = "b" -> "b.idx" [] OTHER -> NoFile],
    Holders <- [f \in Copied |-> IF f \in {"a", "a.idx"} THEN {1} ELSE {}], Leftovers <- {<<2, "a">>},
    Copies <- {[src |-> s, targets |-> <<"b">>] : s \in {"a", "d"}},
    Writable <- {}, Deletable <- {"a"}, Faults <- {"rpc", "transfer", "report"}, Stamps <- 1 .. 3, MaxTrans <- 2,
    meta <- rMeta, disk <- rDisk, local <- rLocal, queue <- rQueue, onReplicate <- rOnReplicate,
    trans <- rTrans, nextTrans <- rNextTrans, replica <- rReplica, copier <- rCopier,
    writer <- rWriter, clock <- rClock

NameSpace ==
  INSTANCE Namespace WITH
    Slaves <- {s1, s2}, Names <- {1, 2}, Stamps <- {1, 2}, ReplicaNum <- 2, MaxOps <- 3, MaxLost <- 1,
    disk <- nDisk

replicaVars == <<rMeta, rDisk, rLocal, rQueue, rOnReplicate, rTrans, rNextTrans, rReplica, rCopier, rWriter, rClock>>
nameVars == <<tree, joined, nDisk, attic, msgs, ops, lost>>
clientVars == <<file, known, other, found, opened, asked, up, toSlave, toClient, slave, ending, late, cache, stats, download,
                mixed, view, out, skew, did, breaks>>

MCInit ==
  /\ part \in {"replicas", "writes", "names", "client"}
  /\ Init /\ Replicas!Init /\ NameSpace!Init /\ C!Init

MCNext ==
  /\ UNCHANGED part
  /\ \/ part = "replicas" /\ Replicas!Next /\ UNCHANGED <<vars, nameVars, clientVars>>
     \/ part = "writes" /\ Next /\ UNCHANGED <<replicaVars, nameVars, clientVars>>
     \/ part = "names" /\ NameSpace!Next /\ UNCHANGED <<vars, replicaVars, clientVars>>
     \/ part = "client" /\ C!Next /\ UNCHANGED <<vars, replicaVars, nameVars>>

MCSpec == MCInit /\ [][MCNext]_<<part, vars, replicaVars, nameVars, clientVars>>

-----------------------------------------------------------------------------
(* The properties of the parts are stated in their modules. *)

\* What a slave that joins has is in the name space or put away (Index::merge).
JoinAccountsForAll == NameSpace!JoinAccountsForAll

\* The report of a copy, whatever fails, is of a transaction that the master has (as in
\* CopyInv: the parts of the invariant on transactions, transaction.cpp, replica).
ReportsAnswered ==
  part = "replicas" => Replicas!ReportsFindTransaction /\ Replicas!ReplicaAtWork /\ Replicas!CopiersAtWork
=============================================================================
