------------------------------- MODULE MCLive -------------------------------
(***************************************************************************)
(* Model checking of DataChannel, and of the liveness of file transactions *)
(* and of replication when nothing fails, one part in each behaviour.      *)
(***************************************************************************)
EXTENDS Channels, Chains

CONSTANTS u1, f1, w1, w2, NoFile, NoUser

VARIABLES
  part,
  meta, locks, trans, nextTrans, fPc, job, disk, reports, deletions,                 \* files
  rMeta, rDisk, local, rQueue, onReplicate, rTrans, rNextTrans, replica, copier, writer, clock

channelVars == <<toSelf, sent, line, connected, queue, rcvLock, pc, call, hand, received>>
fileVars == <<meta, locks, trans, nextTrans, fPc, job, handler, disk, reports, deletions>>
replicaVars == <<rMeta, rDisk, local, rQueue, onReplicate, rTrans, rNextTrans, replica, copier, writer, clock>>

\* One client writes a file on a chain of two slaves.
Chain(faults) ==
  INSTANCE FileTransactions WITH
    Slaves <- {1, 2}, Users <- {u1}, Files <- {f1}, Workers <- {w1, w2}, Stamps <- {1}, ReplicaNum <- 2,
    Modes <- {{"READ", "WRITE", "HiRELIABLE"}}, InitialHolders <- {{1, 2}}, Deletes <- FALSE,
    Faults <- faults, MaxTrans <- 2, pc <- fPc

\* Two files, each with one replica, on three slaves.
Replicas ==
  INSTANCE Replication WITH
    Slaves <- {1, 2, 3}, Users <- {}, Stamps <- {1, 2}, ReplicaNum <- 2, Files <- {"a", "b"}, Dirs <- {},
    FileOrder <- <<"a", "b">>, Index <- [f \in {"a", "b"} |-> NoFile], Holders <- [f \in {"a", "b"} |-> {1}],
    Leftovers <- {}, Copies <- {}, Writable <- {}, Deletable <- {}, Faults <- {}, MaxTrans <- 2,
    meta <- rMeta, disk <- rDisk, queue <- rQueue, trans <- rTrans, nextTrans <- rNextTrans

MCInit ==
  /\ part \in {"channel", "files", "chain", "replicas"}
  /\ Ch!Init /\ (part # "channel" => ~toSelf)
  /\ Chain({})!Init /\ Replicas!Init

MCNext ==
  /\ UNCHANGED part
  /\ \/ part = "channel" /\ Ch!Next /\ UNCHANGED <<fileVars, replicaVars>>
     \/ part = "files" /\ Chain({})!Next /\ UNCHANGED <<channelVars, replicaVars>>
     \* Some slaves cannot be reached, and some do not report.
     \/ part = "chain" /\ Chain({"connect", "report"})!Next /\ UNCHANGED <<channelVars, replicaVars>>
     \/ part = "replicas" /\ Replicas!Next /\ UNCHANGED <<channelVars, fileVars>>

MCSpec == MCInit /\ [][MCNext]_<<part, channelVars, fileVars, replicaVars>>

-----------------------------------------------------------------------------
(* The properties of the parts are stated in their modules; those of liveness   *)
(* are under the fairness of the part.                                         *)

\* No thread waits for a block that is in the queue already (DataChn::recv).
AllReceived == part = "channel" /\ Ch!Fairness => Ch!EveryBlockReceived

\* Every transaction leaves the list, and every write lock is released (the report of
\* case 1, updateSlave).
FilesReleased ==
  part = "files" /\ Chain({})!Fairness => Chain({})!TransactionsRetired /\ Chain({})!WriteLockReleased

\* Files get the replicas that they lack (the replica thread).
ReplicasMade == part = "replicas" /\ Replicas!Fairness => Replicas!ReplicasMade
=============================================================================
