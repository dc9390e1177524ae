-------------------------- MODULE ReplicationProofs --------------------------
(***************************************************************************)
(* Theorems about Replication, for any number of slaves, files and copies. *)
(*                                                                         *)
(*   CopyInv is inductive: types, what the replica thread has at hand, and *)
(*     what is known of each copy thread and its report.                   *)
(*   Marked, beside CopyInv: a file whose replica is in the making is in   *)
(*     m_sstrOnReplicate, or about to be.                                  *)
(*   HolderInv, beside both: replicas are made on slaves that neither a    *)
(*     location nor an open session counts on, so that the slaves that had *)
(*     the file first always agree with each other and with the master.    *)
(*   DatedInv, beside the three: a copy that the master does not know is   *)
(*     older than its file, or faithful, so that a report of it is refused *)
(*     or right.                                                           *)
(***************************************************************************)
EXTENDS Replication, FiniteSetTheorems, WellFoundedInduction, TLAPS

\* create() and update() keep an entry an entry.
LEMMA EntryType ==
  ASSUME NEW e \in Entry, NEW s \in Slaves, NEW v \in Stamps \cup {0}, NEW change \in 0 .. 3
  PROVE  Created(e) \in Entry /\ Updated(e, s, v, change) \in Entry
  BY DEF Entry, Created, Updated

-----------------------------------------------------------------------------
(* The tasks that are queued are tasks: the positions of the index that need *)
(* a replica have an element of every rank up to their number.              *)

UpTo(P, k) == {j \in P : j <= k}

\* A set of numbers has a least one.
LEMMA LeastNumber ==
  ASSUME NEW T \in SUBSET Nat, T # {}
  PROVE  \E k \in T : \A m \in T : ~(m < k)
<1>1. PICK k \in T : \A m \in T : <<m, k>> \notin OpToRel(<, Nat)
  <2>1. \E x \in T : \A y \in T : ~(<<y, x>> \in OpToRel(<, Nat))
    BY NatLessThanWellFounded, WFMin
  <2> QED BY <2>1
<1> QED BY <1>1 DEF OpToRel

\* Going one number up adds this number, if it is a member, and nothing else.
LEMMA UpToNext ==
  ASSUME NEW L \in Nat, NEW P \in SUBSET (1 .. L)
  PROVE  /\ UpTo(P, 0) = {} /\ UpTo(P, L) = P
         /\ \A k \in Nat \ {0} :
              IF k \in P THEN UpTo(P, k) = UpTo(P, k - 1) \cup {k} /\ k \notin UpTo(P, k - 1)
                         ELSE UpTo(P, k) = UpTo(P, k - 1)
<1>1. \A j \in P : j \in Nat \ {0} /\ j <= L
  OBVIOUS
<1>2. UpTo(P, 0) = {}
  <2>1. \A j \in P : ~(j <= 0)
    BY <1>1
  <2> QED BY <2>1, Zenon DEF UpTo
<1>3. UpTo(P, L) = P
  <2>1. \A j : j \in UpTo(P, L) <=> j \in P
    BY <1>1 DEF UpTo
  <2> QED BY <2>1, Zenon
<1>4. ASSUME NEW k \in Nat \ {0}
      PROVE  /\ k \in P => UpTo(P, k) = UpTo(P, k - 1) \cup {k} /\ k \notin UpTo(P, k - 1)
             /\ k \notin P => UpTo(P, k) = UpTo(P, k - 1)
  <2>1. \A j \in P : (j <= k <=> j <= k - 1 \/ j = k) /\ ~(k <= k - 1)
    BY <1>1
  <2>2. \A j : j \in UpTo(P, k) <=> j \in UpTo(P, k - 1) \/ (j = k /\ k \in P)
    BY <2>1 DEF UpTo
  <2>3. k \notin UpTo(P, k - 1)
    BY DEF UpTo
  <2>4. CASE k \in P
    <3>1. UpTo(P, k) = UpTo(P, k - 1) \cup {k}
      BY <2>2, <2>4
    <3> QED BY <3>1, <2>3, <2>4
  <2>5. CASE k \notin P
    <3>1. UpTo(P, k) = UpTo(P, k - 1)
      BY <2>2, <2>5
    <3> QED BY <3>1, <2>5
  <2> QED BY <2>4, <2>5
<1> QED BY <1>2, <1>3, <1>4

\* A set of numbers up to some L has an element of every rank.
LEMMA RankExists ==
  ASSUME NEW L \in Nat, NEW P \in SUBSET (1 .. L), NEW n \in 1 .. Cardinality(P)
  PROVE  \E i \in P : Cardinality(UpTo(P, i)) = n
<1> DEFINE T == {k \in Nat : Cardinality(UpTo(P, k)) >= n}
<1>1. IsFiniteSet(P)
  <2>1. IsFiniteSet(1 .. L)
    BY FS_Interval
  <2> QED BY <2>1, FS_Subset
<1>2. \A k \in Nat : IsFiniteSet(UpTo(P, k)) /\ Cardinality(UpTo(P, k)) \in Nat
  <2>1. \A k \in Nat : UpTo(P, k) \subseteq P
    BY DEF UpTo
  <2> QED BY <1>1, <2>1, FS_Subset, FS_CardinalityType
<1>3. n \in Nat /\ n > 0 /\ n <= Cardinality(P)
  BY <1>1, FS_CardinalityType
<1>4. L \in T
  BY <1>2, <1>3, UpToNext
<1>5. PICK k \in T : \A m \in T : ~(m < k)
  BY <1>4, LeastNumber
<1>6. Cardinality(UpTo(P, 0)) = 0
  BY UpToNext, FS_EmptySet
<1>7. k \in Nat \ {0}
  BY <1>3, <1>6, <1>5
<1>8. Cardinality(UpTo(P, k - 1)) < n
  <2>1. k - 1 \in Nat /\ k - 1 \notin T
    BY <1>5, <1>7
  <2> QED BY <2>1, <1>2, <1>3
<1>9. k \in P
  <2>1. Cardinality(UpTo(P, k)) # Cardinality(UpTo(P, k - 1))
    BY <1>3, <1>2, <1>5, <1>7, <1>8
  <2> QED BY <2>1, <1>7, UpToNext
<1>10. Cardinality(UpTo(P, k)) = Cardinality(UpTo(P, k - 1)) + 1
  <2>1. UpTo(P, k) = UpTo(P, k - 1) \cup {k} /\ k \notin UpTo(P, k - 1)
    BY <1>7, <1>9, UpToNext
  <2>2. IsFiniteSet(UpTo(P, k - 1))
    BY <1>2, <1>7
  <2> QED BY <2>1, <2>2, FS_AddElement
<1>11. Cardinality(UpTo(P, k)) = n
  BY <1>2, <1>3, <1>7, <1>8, <1>10
<1> QED BY <1>9, <1>11

\* The queue that getUnderReplicated fills holds replicas of listed files.
LEMMA TasksAtType ==
  ASSUME NEW P \in SUBSET DOMAIN FileOrder
  PROVE  /\ TasksAt(P) \in Seq(Task)
         /\ \A n \in DOMAIN TasksAt(P) : TasksAt(P)[n].src = TasksAt(P)[n].dst
<1> DEFINE rank(n) == CHOOSE i \in P : Cardinality({j \in P : j <= i}) = n
<1>1. Len(FileOrder) \in Nat /\ P \in SUBSET (1 .. Len(FileOrder))
  BY OrderAssumption
<1>2. Cardinality(P) \in Nat
  <2>1. IsFiniteSet(1 .. Len(FileOrder))
    BY <1>1, FS_Interval
  <2> QED BY <1>1, <2>1, FS_Subset, FS_CardinalityType
<1>3. ASSUME NEW n \in 1 .. Cardinality(P)
      PROVE  FileOrder[rank(n)] \in Files
  <2>1. \E i \in P : Cardinality(UpTo(P, i)) = n
    BY <1>1, RankExists
  <2>2. \E i \in P : Cardinality({j \in P : j <= i}) = n
    BY <2>1 DEF UpTo
  <2>3. rank(n) \in P
    BY <2>2
  <2> QED BY <2>3, OrderAssumption
<1>4. TasksAt(P) = [n \in 1 .. Cardinality(P) |-> [src |-> FileOrder[rank(n)], dst |-> FileOrder[rank(n)]]]
  BY DEF TasksAt
<1>5. \A n \in 1 .. Cardinality(P) : [src |-> FileOrder[rank(n)], dst |-> FileOrder[rank(n)]] \in Task
  BY <1>3 DEF Task
<1> HIDE DEF rank
<1>6. TasksAt(P) \in [1 .. Cardinality(P) -> Task]
  BY <1>4, <1>5
<1> QED BY <1>2, <1>4, <1>6

\* What the replica thread and the copy threads use when a copy is made.
LEMMA InitCopyInv == Init => CopyInv
<1> SUFFICES ASSUME Init PROVE CopyInv
  OBVIOUS
<1>1. meta \in [Files -> Entry]
  BY HoldersAssumption, BoundsAssumption DEF Init, Entry, Absent
<1>2. disk \in [Slaves -> [Files -> Copy]]
  BY BoundsAssumption DEF Init, Copy, NoCopy
<1>3. TypeOK
  <2>1. NoCopier \in Copier
    BY DEF NoCopier, Copier
  <2>2. replica \in Replica
    BY DEF Init, Replica
  <2>3. NoWriter \in Writer /\ Unlisted \in Trans
    BY DEF NoWriter, Writer, Unlisted, Trans
  <2>4. queue \in Seq(Task)
    BY DEF Init
  <2> QED BY <1>1, <1>2, <2>1, <2>2, <2>3, <2>4, BoundsAssumption DEF Init, TypeOK, TransIds
<1>4. ReplicaAtWork
  BY DEF Init, ReplicaAtWork
<1>5. CopiersAtWork
  BY BoundsAssumption DEF Init, CopiersAtWork, NoCopier, TransIds
<1> QED BY <1>3, <1>4, <1>5 DEF CopyInv

-----------------------------------------------------------------------------
(* Types, and what reports rest on. *)

\* A step that keeps the threads' state keeps their invariants.
LEMMA QueueStep ==
  ASSUME CopyInv, CheckReplicas \/ (\E c \in Copies : CopyRequest(c)) \/ TakeLock \/ Wait \/ Skip \/ CannotReplicate
  PROVE  CopyInv'
<1>1. queue \in Seq(Task) /\ replica \in Replica /\ TypeOK /\ \A i \in DOMAIN queue : IndexNamed(queue[i])
  BY DEF CopyInv, TypeOK, ReplicaAtWork
<1>2. queue' \in Seq(Task) /\ \A i \in DOMAIN queue' : IndexNamed(queue'[i])
  <2>1. CASE CheckReplicas
    <3>1. PICK P \in SUBSET DOMAIN FileOrder : getUnderReplicated = TasksAt(P)
      BY DEF getUnderReplicated
    <3>2. TasksAt(P) \in Seq(Task)
      BY TasksAtType
    <3>3. ASSUME NEW i \in DOMAIN TasksAt(P) PROVE IndexNamed(TasksAt(P)[i])
      <4>1. TasksAt(P)[i].src = TasksAt(P)[i].dst /\ TasksAt(P)[i] \in Task
        BY <3>2, TasksAtType
      <4> QED BY <4>1, FilesAssumption DEF IndexNamed, IndexOf, Task
    <3> QED BY <2>1, <3>1, <3>2, <3>3, <1>1 DEF CheckReplicas
  <2>2. CASE \E c \in Copies : CopyRequest(c)
    <3>1. PICK c \in Copies : CopyRequest(c)
      BY <2>2
    <3> DEFINE n == Len(c.targets)
               new == [i \in 1 .. n |-> [src |-> c.src, dst |-> c.targets[n + 1 - i]]]
    <3>2. c.src \in Files \cup Dirs /\ c.targets \in Seq(Files) /\ n \in Nat
      BY CopiesAssumption
    <3>3. ASSUME NEW i \in 1 .. n
          PROVE  c.targets[n + 1 - i] \in Files
                 /\ IndexNamed([src |-> c.src, dst |-> c.targets[n + 1 - i]])
      <4>1. n + 1 - i \in DOMAIN c.targets
        BY <3>2
      <4> QED BY <4>1, <3>2, CopiesAssumption DEF IndexNamed, IndexOf
    <3>4. new \in Seq(Task) /\ Len(new) = n /\ \A i \in 1 .. n : IndexNamed(new[i])
      BY <3>2, <3>3 DEF Task
    <3>5. queue' = new \o queue
      BY <3>1 DEF CopyRequest
    <3> HIDE DEF new
    <3> QED BY <3>4, <3>5, <1>1
  <2>3. CASE TakeLock \/ Wait
    BY <2>3, <1>1 DEF TakeLock, Wait
  <2>4. CASE Skip \/ CannotReplicate
    <3>1. queue # <<>> /\ queue' = Tail(queue)
      BY <2>4 DEF Skip, CannotReplicate, Scanning
    <3> QED BY <3>1, <1>1
  <2> QED BY <2>1, <2>2, <2>3, <2>4
<1>3. /\ replica' = [replica EXCEPT !.pc = replica'.pc]
      /\ replica'.pc \in {replica.pc, "asleep", "awake", "scan"}
  BY <1>1 DEF CheckReplicas, CopyRequest, TakeLock, Wait, Skip, CannotReplicate, Woken, Replica
<1>4. UNCHANGED <<meta, disk, local, onReplicate, trans, nextTrans, copier, writer, clock>>
  BY DEF CheckReplicas, CopyRequest, TakeLock, Wait, Skip, CannotReplicate
<1>5. TypeOK'
  BY <1>1, <1>2, <1>3, <1>4 DEF TypeOK, Replica
<1>6. ReplicaAtWork'
  BY <1>1, <1>2, <1>3, <1>4 DEF CopyInv, ReplicaAtWork, Replica
<1>7. CopiersAtWork'
  BY <1>4 DEF CopyInv, CopiersAtWork
<1> QED BY <1>5, <1>6, <1>7 DEF CopyInv

\* A transaction that begins is new, and no copy thread serves it yet.
LEMMA BeginCopyStep ==
  ASSUME CopyInv, NEW k \in Task, NEW n \in Slaves, NEW companion \in BOOLEAN, BeginCopy(k, n, companion),
         companion \/ IndexNamed(k),
         UNCHANGED <<meta, disk, local, onReplicate, copier, writer, clock>>,
         queue' \in Seq(Task), \A i \in DOMAIN queue' : IndexNamed(queue'[i])
  PROVE  CopyInv'
<1>1. TypeOK /\ ReplicaAtWork /\ CopiersAtWork
  BY DEF CopyInv
<1>2. nextTrans \in TransIds /\ TimeOf(k.src) \in Stamps \cup {0}
  BY <1>1 DEF BeginCopy, TimeOf, TypeOK, Entry, Task
<1>3. replica' \in Replica
  BY <1>2 DEF BeginCopy, Replica, TransIds
<1>4. TypeOK'
  <2>1. trans' \in [TransIds -> Trans]
    BY <1>1, <1>2 DEF BeginCopy, TypeOK, Trans
  <2>2. nextTrans' \in 1 .. MaxTrans + 1
    BY <1>2, BoundsAssumption DEF BeginCopy, TransIds
  <2> QED BY <1>1, <1>3, <2>1, <2>2 DEF TypeOK
<1>5. ReplicaAtWork'
  BY <1>1, <1>2, <1>3, BoundsAssumption DEF BeginCopy, ReplicaAtWork, CopiersAtWork, TransIds, TypeOK
<1>6. CopiersAtWork'
  BY <1>1, <1>2, BoundsAssumption DEF BeginCopy, CopiersAtWork, TypeOK, TransIds, NoCopier
<1> QED BY <1>4, <1>5, <1>6 DEF CopyInv

LEMMA createReplicaStep ==
  ASSUME CopyInv, createReplica
  PROVE  CopyInv'
<1>1. TypeOK /\ \A i \in DOMAIN queue : IndexNamed(queue[i])
  BY DEF CopyInv, ReplicaAtWork
<1>2. queue \in Seq(Task) /\ queue # <<>>
  BY <1>1 DEF createReplica, Scanning, TypeOK
<1>3. Head(queue) \in Task /\ IndexNamed(Head(queue)) /\ Tail(queue) \in Seq(Task)
      /\ \A i \in DOMAIN Tail(queue) : IndexNamed(Tail(queue)[i])
  BY <1>1, <1>2
<1>4. PICK n \in chooseReplicaNode(Head(queue)) : BeginCopy(Head(queue), n, FALSE)
  BY DEF createReplica
<1>5. n \in Slaves
  BY DEF chooseReplicaNode
<1> QED BY <1>3, <1>4, <1>5, BeginCopyStep DEF createReplica

\* The index file of a file with a target that has a name for one.
LEMMA CopyIndexStep ==
  ASSUME CopyInv, CopyIndex
  PROVE  CopyInv'
<1> DEFINE k == replica.task
<1>1. TypeOK /\ ReplicaAtWork
  BY DEF CopyInv
<1>2. k \in Task /\ IndexNamed(k) /\ replica.node \in Slaves /\ HasIndex(k)
  BY <1>1 DEF ReplicaAtWork, CopyIndex
<1>3. [src |-> Index[k.src], dst |-> Index[k.dst]] \in Task
  BY <1>2, IndexAssumption, FilesAssumption DEF HasIndex, IndexNamed, IndexOf, Task
<1>4. queue' \in Seq(Task) /\ \A i \in DOMAIN queue' : IndexNamed(queue'[i])
  BY <1>1 DEF CopyIndex, TypeOK, ReplicaAtWork
<1> QED BY <1>2, <1>3, <1>4, BeginCopyStep DEF CopyIndex

\* The slave starts its copy thread, whether the answer comes or not.
LEMMA RpcStep ==
  ASSUME CopyInv, Rpc \/ RpcFails
  PROVE  CopyInv'
<1>1. TypeOK /\ ReplicaAtWork /\ CopiersAtWork
  BY DEF CopyInv
<1>2. /\ replica.pc = "rpc" /\ replica.task \in Task /\ replica.node \in Slaves
      /\ replica.trans \in 1 .. nextTrans - 1 /\ copier[replica.trans] = NoCopier
  BY <1>1 DEF Rpc, RpcFails, ReplicaAtWork
<1>3. replica.trans \in TransIds /\ nextTrans \in 1 .. MaxTrans + 1
  BY <1>1, <1>2, BoundsAssumption DEF TypeOK, TransIds
<1>4. StartedCopier \in Copier /\ StartedCopier.st = "started" /\ StartedCopier.report = "no"
      /\ StartedCopier.task = replica.task /\ StartedCopier.node = replica.node
  BY <1>1, <1>2 DEF StartedCopier, NoCopier, Copier, TypeOK, Replica
<1>5. copier' \in {copier, [copier EXCEPT ![replica.trans] = StartedCopier]}
  BY DEF Rpc, RpcFails
<1>6. replica' = [replica EXCEPT !.pc = replica'.pc] /\ replica'.pc \in {"addSlave", "scan"}
  BY <1>1 DEF Rpc, RpcFails, TypeOK, Replica
<1>7. UNCHANGED <<meta, disk, local, queue, onReplicate, trans, nextTrans, writer, clock>>
  BY DEF Rpc, RpcFails
<1>8. TypeOK'
  <2>1. copier' \in [TransIds -> Copier]
    BY <1>1, <1>3, <1>4, <1>5 DEF TypeOK
  <2>2. replica' \in Replica
    BY <1>1, <1>6 DEF TypeOK, Replica
  <2> QED BY <1>1, <1>7, <2>1, <2>2 DEF TypeOK
<1>9. ReplicaAtWork'
  BY <1>1, <1>2, <1>6, <1>7 DEF ReplicaAtWork, TypeOK, Replica
<1>10. CopiersAtWork'
  <2> SUFFICES ASSUME NEW t \in TransIds, copier'[t] # copier[t]
               PROVE  copier'[t] = StartedCopier /\ ~(t >= nextTrans) /\ trans[t].listed
    <3>1. \A t \in TransIds :
            copier'[t] = copier[t] \/ (copier'[t] = StartedCopier /\ ~(t >= nextTrans) /\ trans[t].listed)
      OBVIOUS
    <3> QED BY <1>1, <1>2, <1>4, <1>7, <3>1 DEF CopiersAtWork
  <2> QED BY <1>1, <1>2, <1>3, <1>5 DEF CopiersAtWork, TypeOK, NoCopier
<1> QED BY <1>8, <1>9, <1>10 DEF CopyInv

\* What follows the answer touches the transaction, the list and the label.
LEMMA AnsweredStep ==
  ASSUME CopyInv, AddSlave \/ Insert \/ NoIndex
  PROVE  CopyInv'
<1>1. TypeOK /\ ReplicaAtWork /\ CopiersAtWork
  BY DEF CopyInv
<1>2. /\ replica.pc \in {"addSlave", "insert", "index"} /\ replica.task \in Task /\ replica.node \in Slaves
      /\ replica.trans \in 1 .. nextTrans - 1
  BY <1>1 DEF AddSlave, Insert, NoIndex, ReplicaAtWork
<1>3. /\ replica' = [replica EXCEPT !.pc = replica'.pc] /\ replica'.pc \in {"insert", "index", "scan"}
      /\ replica'.pc = "index" => ~replica.companion
  BY <1>1 DEF AddSlave, Insert, NoIndex, TypeOK, Replica
<1>4. UNCHANGED <<meta, disk, local, queue, nextTrans, copier, writer, clock>>
  BY DEF AddSlave, Insert, NoIndex
<1>5. onReplicate' \subseteq Files
  BY <1>1, <1>2, FilesAssumption DEF AddSlave, Insert, NoIndex, TypeOK, Task
<1>6. trans' \in [TransIds -> Trans] /\ \A t \in TransIds : trans[t].listed => trans'[t].listed
  <2>1. CASE AddSlave
    <3>1. trans \in [TransIds -> Trans] /\ replica.trans \in TransIds
      BY <1>1, <1>2, BoundsAssumption DEF TypeOK, TransIds
    <3>2. trans' = [trans EXCEPT ![replica.trans] =
                      [listed |-> TRUE, slaves |-> trans[replica.trans].slaves \cup {replica.node}]]
      BY <2>1 DEF AddSlave
    <3> QED BY <3>1, <3>2, <1>2 DEF Trans
  <2>2. CASE Insert \/ NoIndex
    BY <2>2, <1>1 DEF Insert, NoIndex, TypeOK
  <2> QED BY <2>1, <2>2
<1>7. TypeOK'
  BY <1>1, <1>3, <1>4, <1>5, <1>6 DEF TypeOK, Replica
<1>8. ReplicaAtWork'
  BY <1>1, <1>2, <1>3, <1>4 DEF ReplicaAtWork, TypeOK, Replica
<1>9. CopiersAtWork'
  BY <1>1, <1>4, <1>6 DEF CopiersAtWork
<1> QED BY <1>7, <1>8, <1>9 DEF CopyInv

\* A step of a copy thread, or of the master for its report, keeps the
\* invariant if it leaves the thread served and its transaction listed.
LEMMA CopierStep ==
  ASSUME CopyInv, NEW t \in TransIds, copier[t].st # "none",
         \A u \in TransIds \ {t} : copier'[u] = copier[u] /\ trans'[u] = trans[u],
         copier' \in [TransIds -> Copier], trans' \in [TransIds -> Trans], copier'[t].st # "none",
         LET c == copier'[t] IN
           /\ c.task = copier[t].task /\ c.node = copier[t].node
           /\ c.st = "fetching" => c.task.src \in Files /\ c.from \in Slaves
           /\ c.st \in {"started", "fetching", "installed"} => c.report = "no"
           /\ c.st = "reporting" => c.report # "no"
           /\ c.report # "answered" => copier[t].report # "answered" /\ trans'[t].listed = trans[t].listed,
         nextTrans' = nextTrans, queue' = queue,
         replica' = Woken(queue) \/ replica' = replica,
         meta' \in [Files -> Entry], disk' \in [Slaves -> [Files -> Copy]], local' \in [Slaves -> SUBSET Files],
         onReplicate' \subseteq Files, clock' \in Stamps, writer' = writer
  PROVE  CopyInv'
<1>1. TypeOK /\ ReplicaAtWork /\ CopiersAtWork
  BY DEF CopyInv
<1>2. replica' = [replica EXCEPT !.pc = replica'.pc] /\ (replica'.pc = replica.pc \/ replica'.pc = "awake")
  BY <1>1 DEF Woken, TypeOK, Replica
<1>3. /\ copier[t] # NoCopier /\ t < nextTrans
      /\ replica.pc \in {"rpc", "addSlave", "insert", "index"} => replica.trans \in TransIds
  BY <1>1, BoundsAssumption DEF NoCopier, TypeOK, CopiersAtWork, ReplicaAtWork, TransIds
<1>4. TypeOK'
  BY <1>1, <1>2 DEF TypeOK, Replica
<1>5. ReplicaAtWork'
  BY <1>1, <1>2, <1>3 DEF ReplicaAtWork, TypeOK, Replica
<1>6. CopiersAtWork'
  <2> SUFFICES ASSUME NEW u \in TransIds
               PROVE  LET c == copier'[u] IN
                      /\ u >= nextTrans => c.st = "none"
                      /\ c.st = "none" => c = NoCopier
                      /\ c.st # "none" => c.task \in Task /\ c.node \in Slaves
                      /\ c.st = "fetching" => c.task.src \in Files /\ c.from \in Slaves
                      /\ c.st \in {"started", "fetching", "installed"} => c.report = "no"
                      /\ c.st = "reporting" => c.report # "no"
                      /\ u < nextTrans /\ c.report # "answered" => trans'[u].listed
    BY DEF CopiersAtWork
  <2>1. CASE u # t
    BY <2>1, <1>1 DEF CopiersAtWork
  <2>2. CASE u = t
    BY <2>2, <1>1, <1>3, BoundsAssumption DEF CopiersAtWork, TypeOK, TransIds
  <2> QED BY <2>1, <2>2
<1> QED BY <1>4, <1>5, <1>6 DEF CopyInv

\* What the change of one copy on a disk leaves alone.
LEMMA OneCopy ==
  ASSUME disk \in [Slaves -> [Files -> Copy]], NEW s \in Slaves, NEW f \in Files, NEW v \in Copy
  PROVE  /\ [disk EXCEPT ![s][f] = v] \in [Slaves -> [Files -> Copy]]
         /\ \A x \in Slaves, g \in Files :
              [disk EXCEPT ![s][f] = v][x][g] = IF x = s /\ g = f THEN v ELSE disk[x][g]
  OBVIOUS

\* Who takes a step for transaction t serves it, with a task and a node.
LEMMA Served ==
  ASSUME CopyInv, NEW t \in TransIds, CopyThread(t) \/ Reporting(t)
  PROVE  /\ copier[t].st # "none" /\ copier[t].task \in Task /\ copier[t].node \in Slaves
         /\ copier[t] \in Copier /\ copier[t].task.dst \in Files /\ copier[t].task.src \in Files \cup Dirs
<1>1. copier[t] \in Copier /\ (copier[t].st = "none" => copier[t] = NoCopier)
  BY DEF CopyInv, TypeOK, CopiersAtWork
<1>2. copier[t].st # "none"
  <2>1. NoCopier.st = "none" /\ NoCopier.report = "no" /\ NoCopier.read = "no"
    BY DEF NoCopier
  <2>2. \/ copier[t].st \in {"started", "fetching", "installed", "reporting"}
        \/ copier[t].report \in {"sent", "updated", "erased"} \/ copier[t].read = "open"
    BY DEF CopyThread, Reporting, CopyLocal, CopyOpen, Fetch, FetchFails, SendReport, ReportFails, Answered,
           ReportUpdate, ReportErase, ReportRetire, ReadRetired
  <2> QED BY <1>1, <2>1, <2>2
<1> QED BY <1>1, <1>2 DEF CopyInv, CopiersAtWork, Task

LEMMA CopyingStep ==
  ASSUME CopyInv, NEW t \in TransIds, CopyLocal(t) \/ CopyOpen(t) \/ Fetch(t) \/ FetchFails(t)
  PROVE  CopyInv'
<1> DEFINE c == copier[t]
<1>1. TypeOK /\ CopiersAtWork
  BY DEF CopyInv
<1>2. c.st # "none" /\ c.task \in Task /\ c.node \in Slaves /\ c \in Copier /\ c.task.dst \in Files
      /\ c.task.src \in Files \cup Dirs
  BY Served DEF CopyThread
<1>3. c.st \in {"started", "fetching"} /\ c.report = "no"
  BY <1>1 DEF CopyLocal, CopyOpen, Fetch, FetchFails, CopiersAtWork
<1>4. /\ \A u \in TransIds \ {t} : copier'[u] = copier[u]
      /\ copier' \in [TransIds -> Copier]
      /\ copier'[t].st \in {"fetching", "installed", "done"} /\ copier'[t].report = "no"
      /\ copier'[t].task = c.task /\ copier'[t].node = c.node
      /\ copier'[t].st = "fetching" => c.task.src \in Files /\ copier'[t].from \in Slaves
  <2>1. CASE CopyLocal(t)
    BY <2>1, <1>1, <1>2, <1>3 DEF CopyLocal, TypeOK, Copier
  <2>2. CASE CopyOpen(t)
    <3>1. CASE copier' = [copier EXCEPT ![t].st = "done", ![t].read = "orphan"]
      BY <3>1, <1>1, <1>2, <1>3 DEF TypeOK, Copier
    <3>2. CASE copier' = [copier EXCEPT ![t].st = "done"]
      BY <3>2, <1>1, <1>2, <1>3 DEF TypeOK, Copier
    <3>3. CASE /\ c.task.src \in Files
               /\ \E x \in meta[c.task.src].locs :
                    copier' = [copier EXCEPT ![t].st = "fetching", ![t].from = x, ![t].read = "open"]
      <4>1. PICK x \in Slaves : copier' = [copier EXCEPT ![t].st = "fetching", ![t].from = x, ![t].read = "open"]
        BY <3>3, <1>1 DEF TypeOK, Entry
      <4> QED BY <3>3, <4>1, <1>1, <1>2, <1>3 DEF TypeOK, Copier
    <3> QED BY <3>1, <3>2, <3>3, <2>2, <1>2 DEF CopyOpen
  <2>3. CASE Fetch(t)
    BY <2>3, <1>1, <1>2, <1>3 DEF Fetch, TypeOK, Copier
  <2>4. CASE FetchFails(t)
    <3>1. PICK st \in {"done", "installed"} : copier' = [copier EXCEPT ![t].st = st]
      BY <2>4 DEF FetchFails
    <3> QED BY <3>1, <1>1, <1>2, <1>3 DEF TypeOK, Copier
  <2> QED BY <2>1, <2>2, <2>3, <2>4
<1>5. disk' \in [Slaves -> [Files -> Copy]] /\ clock' \in Stamps
  <2>1. CASE CopyLocal(t)
    <3>1. CASE UNCHANGED <<disk, clock>>
      BY <3>1, <1>1 DEF TypeOK
    <3>2. CASE ~UNCHANGED <<disk, clock>>
      <4> DEFINE v == [disk[c.node][c.task.src] EXCEPT !.time = clock']
      <4>1. c.task.src \in Files /\ disk[c.node][c.task.src] \in Copy
        BY <2>1, <3>2, <1>1, <1>2 DEF CopyLocal, TypeOK
      <4>2. clock' \in Stamps /\ disk' = [disk EXCEPT ![c.node][c.task.dst] = v]
        BY <2>1, <3>2 DEF CopyLocal, NextSeconds
      <4>3. v \in Copy
        BY <4>1, <4>2 DEF Copy
      <4> HIDE DEF v
      <4> QED BY <4>2, <4>3, <1>1, <1>2, OneCopy DEF TypeOK
    <3> QED BY <3>1, <3>2
  <2>2. CASE Fetch(t)
    <3>1. disk[c.from][c.task.src] \in Copy
      BY <2>2, <1>1 DEF Fetch, CopiersAtWork, TypeOK
    <3> QED BY <2>2, <3>1, <1>1, <1>2 DEF Fetch, TypeOK, Copy, Copier
  <2>3. CASE CopyOpen(t) \/ FetchFails(t)
    BY <2>3, <1>1 DEF CopyOpen, FetchFails, TypeOK
  <2> QED BY <2>1, <2>2, <2>3
<1>6. UNCHANGED <<meta, local, queue, onReplicate, trans, nextTrans, replica, writer>>
  BY DEF CopyLocal, CopyOpen, Fetch, FetchFails
<1> HIDE DEF c
<1> QED BY <1>1, <1>2, <1>3, <1>4, <1>5, <1>6, CopierStep DEF c, TypeOK

LEMMA EndingStep ==
  ASSUME CopyInv, NEW t \in TransIds, SendReport(t) \/ ReportFails(t) \/ Answered(t) \/ ReadRetired(t)
  PROVE  CopyInv'
<1> DEFINE c == copier[t]
<1>1. TypeOK /\ CopiersAtWork
  BY DEF CopyInv
<1>2. c.st # "none" /\ c.task \in Task /\ c.node \in Slaves /\ c \in Copier /\ c.task.dst \in Files
  BY Served DEF CopyThread, Reporting
<1>3. disk[c.node][c.task.dst] \in Copy
  BY <1>1, <1>2 DEF TypeOK
<1>4. /\ \A u \in TransIds \ {t} : copier'[u] = copier[u]
      /\ copier' \in [TransIds -> Copier] /\ copier'[t].st # "none"
      /\ copier'[t].task = c.task /\ copier'[t].node = c.node
      /\ copier'[t].st = "fetching" => c.task.src \in Files /\ copier'[t].from \in Slaves
      /\ copier'[t].st \in {"started", "fetching", "installed"} => copier'[t].report = "no"
      /\ copier'[t].st = "reporting" => copier'[t].report # "no"
      /\ copier'[t].report # "answered" => c.report # "answered"
  <2>1. CASE SendReport(t)
    <3>1. CASE copier' = [copier EXCEPT ![t].st = "done"]
      BY <3>1, <1>1, <1>2 DEF TypeOK, Copier
    <3>2. CASE copier' = [copier EXCEPT ![t].st = "reporting", ![t].report = "sent",
                                        ![t].stamp = disk[c.node][c.task.dst].time]
      <4>1. c.report = "no" /\ disk[c.node][c.task.dst].time \in Stamps \cup {0}
        BY <2>1, <1>1, <1>3 DEF SendReport, CopiersAtWork, Copy
      <4> QED BY <3>2, <4>1, <1>1, <1>2 DEF TypeOK, Copier
    <3> QED BY <2>1, <3>1, <3>2 DEF SendReport
  <2>2. CASE ReportFails(t)
    <3>1. CASE copier' = [copier EXCEPT ![t].st = "done"]
      BY <3>1, <1>1, <1>2 DEF TypeOK, Copier
    <3>2. CASE c.report = "sent" /\ copier' = [copier EXCEPT ![t].st = "done", ![t].report = "no"]
      BY <3>2, <1>1, <1>2 DEF TypeOK, Copier
    <3> QED BY <2>2, <3>1, <3>2 DEF ReportFails
  <2>3. CASE Answered(t)
    BY <2>3, <1>1, <1>2 DEF Answered, TypeOK, Copier, CopiersAtWork
  <2>4. CASE ReadRetired(t)
    BY <2>4, <1>1, <1>2 DEF ReadRetired, TypeOK, Copier, CopiersAtWork
  <2> QED BY <2>1, <2>2, <2>3, <2>4
<1>5. disk' \in [Slaves -> [Files -> Copy]]
  <2>1. disk' = disk \/ \E v \in Copy : disk' = [disk EXCEPT ![c.node][c.task.dst] = v]
    <3>1. NoCopy \in Copy /\ [disk[c.node][c.task.dst] EXCEPT !.time = c.time] \in Copy
      BY <1>2, <1>3 DEF NoCopy, Copy, Copier
    <3>2. CASE Answered(t)
      <4>1. \/ disk' = disk
            \/ disk' = [disk EXCEPT ![c.node][c.task.dst] = [disk[c.node][c.task.dst] EXCEPT !.time = c.time]]
        BY <3>2, <1>1, <1>2 DEF Answered, TypeOK
      <4> QED BY <3>1, <4>1
    <3>3. CASE SendReport(t) \/ ReportFails(t) \/ ReadRetired(t)
      BY <3>1, <3>3 DEF SendReport, ReportFails, ReadRetired
    <3> QED BY <3>2, <3>3
  <2>2. disk \in [Slaves -> [Files -> Copy]]
    BY <1>1 DEF TypeOK
  <2>3. ASSUME NEW v \in Copy PROVE [disk EXCEPT ![c.node][c.task.dst] = v] \in [Slaves -> [Files -> Copy]]
    BY <2>2, <1>2, OneCopy
  <2> QED BY <2>1, <2>2, <2>3
<1>6. local' \in [Slaves -> SUBSET Files]
  <2>1. local' = local \/ local' = [local EXCEPT ![c.node] = @ \cup {c.task.dst}]
    BY DEF SendReport, ReportFails, Answered, ReadRetired
  <2> QED BY <2>1, <1>1, <1>2 DEF TypeOK
<1>7. UNCHANGED <<meta, queue, onReplicate, trans, nextTrans, writer, clock>>
      /\ (replica' = replica \/ replica' = Woken(queue))
  BY DEF SendReport, ReportFails, Answered, ReadRetired
<1> HIDE DEF c
<1> QED BY <1>1, <1>2, <1>4, <1>5, <1>6, <1>7, CopierStep DEF c, TypeOK

LEMMA ReportStep ==
  ASSUME CopyInv, NEW t \in TransIds, ReportUpdate(t) \/ ReportErase(t) \/ ReportRetire(t)
  PROVE  CopyInv'
<1> DEFINE c == copier[t]
<1>1. TypeOK /\ CopiersAtWork
  BY DEF CopyInv
<1>2. c.st # "none" /\ c.task \in Task /\ c.node \in Slaves /\ c \in Copier /\ c.task.dst \in Files
  BY Served DEF Reporting
<1>3. c.report \in {"sent", "updated", "erased"} /\ c.st \notin {"started", "fetching", "installed"}
  BY <1>1, <1>2 DEF ReportUpdate, ReportErase, ReportRetire, CopiersAtWork, Copier
<1>4. /\ \A u \in TransIds \ {t} : copier'[u] = copier[u]
      /\ copier' \in [TransIds -> Copier] /\ copier'[t].st = c.st
      /\ copier'[t].task = c.task /\ copier'[t].node = c.node
      /\ copier'[t].report \in {"updated", "erased", "answered"}
  <2>1. PICK r \in {"updated", "erased", "answered"} : copier' = [copier EXCEPT ![t].report = r]
    BY DEF ReportUpdate, ReportErase, ReportRetire
  <2> QED BY <2>1, <1>1, <1>2 DEF TypeOK, Copier
<1>5. meta' \in [Files -> Entry]
  <2>1. CASE ReportUpdate(t)
    <3>1. Updated(meta[c.task.dst], c.node, c.stamp, Change(c.task)) \in Entry
      <4>1. meta[c.task.dst] \in Entry /\ c.stamp \in Stamps \cup {0} /\ Change(c.task) \in 0 .. 3
        BY <1>1, <1>2 DEF TypeOK, Change, Copier
      <4> QED BY <4>1, <1>2, EntryType
    <3> QED BY <2>1, <3>1, <1>1, <1>2 DEF ReportUpdate, TypeOK
  <2>2. CASE ReportErase(t) \/ ReportRetire(t)
    BY <2>2, <1>1 DEF ReportErase, ReportRetire, TypeOK
  <2> QED BY <2>1, <2>2
<1>6. onReplicate' \subseteq Files
  BY <1>1 DEF ReportUpdate, ReportErase, ReportRetire, TypeOK
<1>7. /\ trans' \in [TransIds -> Trans] /\ \A u \in TransIds \ {t} : trans'[u] = trans[u]
      /\ copier'[t].report # "answered" => trans'[t].listed = trans[t].listed
  <2>1. CASE ReportRetire(t)
    <3>1. \E x \in Trans : trans' = [trans EXCEPT ![t] = x]
      <4>1. [trans[t] EXCEPT !.slaves = trans[t].slaves \ {c.node}] \in Trans /\ Unlisted \in Trans
        BY <1>1 DEF TypeOK, Trans, Unlisted
      <4> QED BY <2>1, <4>1 DEF ReportRetire
    <3>2. copier'[t].report = "answered"
      BY <2>1, <1>1 DEF ReportRetire, TypeOK
    <3> QED BY <3>1, <3>2, <1>1 DEF TypeOK
  <2>2. CASE ReportUpdate(t) \/ ReportErase(t)
    BY <2>2, <1>1 DEF ReportUpdate, ReportErase, TypeOK
  <2> QED BY <2>1, <2>2
<1>8. UNCHANGED <<disk, local, queue, nextTrans, writer, clock>>
      /\ (replica' = replica \/ replica' = Woken(queue))
  BY DEF ReportUpdate, ReportErase, ReportRetire
<1> HIDE DEF c
<1> QED BY <1>1, <1>2, <1>3, <1>4, <1>5, <1>6, <1>7, <1>8, CopierStep DEF c, TypeOK

LEMMA ClientStep ==
  ASSUME CopyInv, NEW f \in Files, WriteOpen(f) \/ WriteData(f) \/ WriteClose(f) \/ Delete(f)
  PROVE  CopyInv'
<1>1. TypeOK /\ ReplicaAtWork /\ CopiersAtWork
  BY DEF CopyInv
<1>2. UNCHANGED <<queue, onReplicate, trans, nextTrans, copier>>
  BY DEF WriteOpen, WriteData, WriteClose, Delete
<1>3. replica' = [replica EXCEPT !.pc = replica'.pc] /\ (replica'.pc = replica.pc \/ replica'.pc = "awake")
  BY <1>1 DEF WriteOpen, WriteData, WriteClose, Delete, Woken, TypeOK, Replica
<1>4. meta' \in [Files -> Entry] /\ disk' \in [Slaves -> [Files -> Copy]] /\ local' \in [Slaves -> SUBSET Files]
      /\ writer' \in [Files -> Writer] /\ clock' \in Stamps
  <2>1. CASE WriteOpen(f)
    <3>1. [open |-> TRUE, wrote |-> FALSE, chain |-> meta[f].locs] \in Writer
      BY <1>1 DEF TypeOK, Entry, Writer
    <3> QED BY <2>1, <3>1, <1>1 DEF WriteOpen, TypeOK
  <2>2. CASE WriteData(f)
    <3>1. /\ clock' \in Stamps
          /\ \A s \in Slaves : [disk[s] EXCEPT ![f] = [data |-> clock', again |-> clock' = clock, time |-> clock']] \in [Files -> Copy]
      BY <2>2, <1>1 DEF WriteData, NextSeconds, TypeOK, Copy
    <3>2. disk' \in [Slaves -> [Files -> Copy]]
      BY <2>2, <3>1, <1>1 DEF WriteData, TypeOK
    <3>3. writer' \in [Files -> Writer]
      BY <2>2, <1>1 DEF WriteData, TypeOK, Writer
    <3> QED BY <2>2, <3>1, <3>2, <3>3, <1>1 DEF WriteData, TypeOK
  <2>3. CASE WriteClose(f)
    <3>1. meta' \in [Files -> Entry]
      <4>1. ASSUME NEW s \in writer[f].chain, NEW change \in {0, 2}
            PROVE  Updated(meta[f], s, disk[s][f].time, change) \in Entry
        <5>1. s \in Slaves /\ disk[s][f] \in Copy /\ meta[f] \in Entry
          BY <1>1 DEF TypeOK, Writer
        <5>2. disk[s][f].time \in Stamps \cup {0} /\ change \in 0 .. 3
          BY <5>1 DEF Copy
        <5> QED BY <5>1, <5>2, EntryType
      <4>2. meta' = meta \/ \E e \in Entry : meta' = [meta EXCEPT ![f] = e]
        BY <2>3, <4>1 DEF WriteClose
      <4> QED BY <4>2, <1>1 DEF TypeOK
    <3>2. NoWriter \in Writer
      BY DEF NoWriter, Writer
    <3> QED BY <2>3, <3>1, <3>2, <1>1 DEF WriteClose, TypeOK
  <2>4. CASE Delete(f)
    <3>1. Absent \in Entry /\ NoCopy \in Copy
      BY DEF Absent, Entry, NoCopy, Copy
    <3> QED BY <2>4, <3>1, <1>1 DEF Delete, TypeOK
  <2> QED BY <2>1, <2>2, <2>3, <2>4
<1>5. TypeOK'
  BY <1>1, <1>2, <1>3, <1>4 DEF TypeOK, Replica
<1>6. ReplicaAtWork'
  BY <1>1, <1>2, <1>3 DEF ReplicaAtWork, TypeOK, Replica
<1>7. CopiersAtWork'
  BY <1>1, <1>2 DEF CopiersAtWork
<1> QED BY <1>5, <1>6, <1>7 DEF CopyInv

\* The invariant is inductive.
LEMMA NextCopyInv == CopyInv /\ [Next]_vars => CopyInv'
<1> SUFFICES ASSUME CopyInv, [Next]_vars PROVE CopyInv'
  OBVIOUS
<1>1. CASE CheckReplicas
  BY <1>1, QueueStep
<1>2. CASE ReplicaThread
  BY <1>2, QueueStep, createReplicaStep, RpcStep, AnsweredStep, CopyIndexStep DEF ReplicaThread
<1>3. ASSUME NEW t \in TransIds, CopyThread(t) \/ Reporting(t) PROVE CopyInv'
  BY <1>3, CopyingStep, EndingStep, ReportStep DEF CopyThread, Reporting
<1>4. CASE Client
  BY <1>4, QueueStep, ClientStep DEF Client
<1>5. CASE UNCHANGED vars
  BY <1>5 DEF vars, CopyInv, TypeOK, ReplicaAtWork, CopiersAtWork
<1> QED BY <1>1, <1>2, <1>3, <1>4, <1>5 DEF Next

\* Whatever is copied, deleted and written meanwhile, and whatever fails, the
\* replica thread and the copy threads keep to their invariant (master.cpp, serv_file.cpp).
THEOREM InductiveInvariant == Spec => []CopyInv
  BY InitCopyInv, NextCopyInv, PTL DEF Spec

\* The state of Replication is typed.
THEOREM TypeCorrect == Spec => []TypeOK
<1>1. CopyInv => TypeOK
  BY DEF CopyInv
<1> QED BY <1>1, InductiveInvariant, PTL

\* However early a report comes and whatever came of the rpc, its transaction is
\* in the list (Master::createReplica, TransManager::updateSlave).
THEOREM ReportsAreAnswered == Spec => []ReportsFindTransaction
<1>1. CopyInv => ReportsFindTransaction
  <2> SUFFICES ASSUME CopyInv, NEW t \in TransIds, copier[t].report \in {"sent", "updated", "erased"}
               PROVE  trans[t].listed
    BY DEF ReportsFindTransaction
  <2>1. copier[t] # NoCopier
    BY DEF NoCopier
  <2> QED BY <2>1, BoundsAssumption DEF CopyInv, CopiersAtWork, TypeOK, TransIds
<1> QED BY <1>1, InductiveInvariant, PTL

-----------------------------------------------------------------------------
(* No file is replicated twice at the same time.  This needs files without  *)
(* index files, which are copied whatever the list says, and rpcs that are  *)
(* answered, as what was started is only entered in the list then.          *)

NoIndexFiles == \A f \in Files : Index[f] = NoFile

\* The copy of t, or its report, is not over at the master.
Pending(t) ==
  \/ copier[t].st \in {"started", "fetching", "installed"}
  \/ copier[t].report \in {"sent", "updated"}

IsReplica(k) == k.src = k.dst

\* The replica thread has made a replica of this file begin, and not marked it yet.
AboutToMark(t) == replica.pc \in {"addSlave", "insert"} /\ replica.trans = t /\ replica.task = copier[t].task

\* Who replicates f is the only one, and f is marked, or about to be.
Marked ==
  /\ \A t \in TransIds :
       Pending(t) /\ IsReplica(copier[t].task) => copier[t].task.src \in onReplicate \/ AboutToMark(t)
  /\ replica.pc \in {"rpc", "addSlave", "insert"} /\ IsReplica(replica.task) =>
       replica.task.src \notin onReplicate
  /\ \A t1, t2 \in TransIds :
       Pending(t1) /\ Pending(t2) /\ copier[t1].task = copier[t2].task /\ IsReplica(copier[t1].task) => t1 = t2

\* A step that begins no copy and leaves the list and the thread's work alone.
LEMMA MarkedFrame ==
  ASSUME Marked, onReplicate' = onReplicate,
         \A t \in TransIds : Pending(t)' => Pending(t) /\ copier'[t].task = copier[t].task,
         \/ replica'.pc = replica.pc /\ replica'.task = replica.task /\ replica'.trans = replica.trans
         \/ replica.pc \notin {"addSlave", "insert"} /\ replica'.pc \notin {"rpc", "addSlave", "insert"}
  PROVE  Marked'
<1>1. \A t \in TransIds : Pending(t)' /\ AboutToMark(t) => AboutToMark(t)'
  BY DEF AboutToMark
<1>2. ASSUME NEW t \in TransIds, Pending(t)', IsReplica(copier'[t].task)
      PROVE  copier'[t].task.src \in onReplicate' \/ AboutToMark(t)'
  BY <1>1, <1>2 DEF Marked
<1>3. replica'.pc \in {"rpc", "addSlave", "insert"} /\ IsReplica(replica'.task) => replica'.task.src \notin onReplicate'
  BY DEF Marked
<1>4. ASSUME NEW t1 \in TransIds, NEW t2 \in TransIds, Pending(t1)', Pending(t2)',
             copier'[t1].task = copier'[t2].task, IsReplica(copier'[t1].task)
      PROVE  t1 = t2
  BY <1>4 DEF Marked
<1> QED BY <1>2, <1>3, <1>4 DEF Marked

\* Copy threads and reports only come nearer to the end of the copy.
LEMMA PendingEnds ==
  ASSUME CopyInv, NEW t \in TransIds, CopyThread(t) \/ Reporting(t)
  PROVE  \A u \in TransIds : Pending(u)' => Pending(u) /\ copier'[u].task = copier[u].task
<1>1. copier \in [TransIds -> Copier] /\ CopiersAtWork
  BY DEF CopyInv, TypeOK
<1>2. \A u \in TransIds \ {t} : copier'[u] = copier[u]
  BY <1>1 DEF CopyThread, CopyLocal, CopyOpen, Fetch, FetchFails, SendReport, ReportFails, Answered,
              Reporting, ReportUpdate, ReportErase, ReportRetire, ReadRetired
<1>3. Pending(t)' => Pending(t) /\ copier'[t].task = copier[t].task
  <2>1. CASE CopyLocal(t) \/ CopyOpen(t)
    <3>1. \/ copier' = [copier EXCEPT ![t].st = "installed", ![t].byCp = TRUE]
          \/ copier' = [copier EXCEPT ![t].st = "done", ![t].read = "orphan"]
          \/ copier' = [copier EXCEPT ![t].st = "done"]
          \/ \E x : copier' = [copier EXCEPT ![t].st = "fetching", ![t].from = x, ![t].read = "open"]
      BY <2>1 DEF CopyLocal, CopyOpen
    <3>2. copier'[t].task = copier[t].task
      <4>1. ASSUME NEW x, copier' = [copier EXCEPT ![t].st = "fetching", ![t].from = x, ![t].read = "open"]
            PROVE  copier'[t].task = copier[t].task
        BY <4>1, <1>1 DEF Copier
      <4>2. ASSUME NEW x \in BOOLEAN, copier' = [copier EXCEPT ![t].st = "installed", ![t].byCp = x]
            PROVE  copier'[t].task = copier[t].task
        BY <4>2, <1>1 DEF Copier
      <4>3. CASE copier' = [copier EXCEPT ![t].st = "done", ![t].read = "orphan"]
        BY <4>3, <1>1 DEF Copier
      <4>4. CASE copier' = [copier EXCEPT ![t].st = "done"]
        BY <4>4, <1>1 DEF Copier
      <4> QED BY <3>1, <4>1, <4>2, <4>3, <4>4
    <3> QED BY <2>1, <3>2 DEF CopyLocal, CopyOpen, Pending
  <2>2. CASE Fetch(t) \/ FetchFails(t)
    BY <2>2, <1>1 DEF Fetch, FetchFails, Pending, Copier
  <2>3. CASE SendReport(t)
    BY <2>3, <1>1 DEF SendReport, Pending, Copier
  <2>4. CASE ReportFails(t) \/ Answered(t) \/ ReadRetired(t)
    BY <2>4, <1>1 DEF ReportFails, Answered, ReadRetired, Pending, Copier
  <2>5. CASE ReportUpdate(t) \/ ReportErase(t) \/ ReportRetire(t)
    BY <2>5, <1>1 DEF ReportUpdate, ReportErase, ReportRetire, Pending, Copier
  <2> QED BY <2>1, <2>2, <2>3, <2>4, <2>5 DEF CopyThread, Reporting
<1> QED BY <1>2, <1>3 DEF Pending

\* The only copy of a file to be over is the one for which it was marked.
LEMMA EraseStep ==
  ASSUME CopyInv, Marked, NEW t \in TransIds, ReportErase(t)
  PROVE  Marked'
<1>1. copier \in [TransIds -> Copier] /\ CopiersAtWork
  BY DEF CopyInv, TypeOK
<1>2. copier[t].report = "updated" /\ copier' = [copier EXCEPT ![t].report = "erased"] /\ UNCHANGED replica
  BY DEF ReportErase
<1>3. copier[t].st \notin {"started", "fetching", "installed"} /\ Pending(t) /\ ~Pending(t)'
  BY <1>1, <1>2 DEF CopiersAtWork, Pending
<1>4. \A u \in TransIds : Pending(u)' => u # t /\ Pending(u) /\ copier'[u] = copier[u]
  BY <1>1, <1>2, <1>3 DEF Pending
<1>5. copier[t].task \in Task /\ \A u \in TransIds : Pending(u) => copier[u].task \in Task
  <2>1. \A u \in TransIds : Pending(u) => copier[u].st # "none"
    BY <1>1 DEF CopiersAtWork, Pending, NoCopier
  <2> QED BY <2>1, <1>1, <1>3 DEF CopiersAtWork
<1>6. ASSUME NEW u \in TransIds, Pending(u)', IsReplica(copier'[u].task)
      PROVE  copier'[u].task.src \in onReplicate' \/ AboutToMark(u)'
  <2>1. u # t /\ Pending(u) /\ copier'[u] = copier[u]
    BY <1>4, <1>6
  <2>2. copier[u].task.src \in onReplicate \/ AboutToMark(u)
    BY <2>1, <1>6 DEF Marked
  <2>3. onReplicate' = onReplicate \/ (IsReplica(copier[t].task) /\ onReplicate' = onReplicate \ {copier[t].task.dst})
    BY DEF ReportErase, Change, IsReplica
  <2>4. IsReplica(copier[t].task) => copier[u].task.src # copier[t].task.dst
    BY <2>1, <1>3, <1>5, <1>6 DEF Marked, Task, IsReplica
  <2> QED BY <2>1, <2>2, <2>3, <2>4, <1>2 DEF AboutToMark
<1>7. replica'.pc \in {"rpc", "addSlave", "insert"} /\ IsReplica(replica'.task) => replica'.task.src \notin onReplicate'
  BY <1>2 DEF Marked, ReportErase
<1>8. ASSUME NEW t1 \in TransIds, NEW t2 \in TransIds, Pending(t1)', Pending(t2)',
             copier'[t1].task = copier'[t2].task, IsReplica(copier'[t1].task)
      PROVE  t1 = t2
  BY <1>4, <1>8 DEF Marked
<1> QED BY <1>6, <1>7, <1>8 DEF Marked

\* A file that is not on the list gets a copy thread.
LEMMA RpcMarked ==
  ASSUME CopyInv, Marked, Rpc
  PROVE  Marked'
<1>1. copier \in [TransIds -> Copier] /\ replica.pc = "rpc" /\ replica.trans \in TransIds /\ replica \in Replica
  BY BoundsAssumption DEF Rpc, CopyInv, ReplicaAtWork, TypeOK, TransIds
<1>2. /\ copier' = [copier EXCEPT ![replica.trans] = StartedCopier] /\ onReplicate' = onReplicate
      /\ replica'.pc = "addSlave" /\ replica'.trans = replica.trans /\ replica'.task = replica.task
      /\ StartedCopier.task = replica.task
  BY <1>1 DEF Rpc, Replica, StartedCopier, NoCopier
<1>3. ASSUME NEW u \in TransIds, Pending(u)'
      PROVE  \/ u = replica.trans /\ copier'[u].task = replica.task
             \/ u # replica.trans /\ Pending(u) /\ copier'[u] = copier[u]
  <2>1. copier'[replica.trans].task = replica.task /\ \A v \in TransIds \ {replica.trans} : copier'[v] = copier[v]
    BY <1>1, <1>2
  <2> QED BY <1>3, <2>1 DEF Pending
<1>4. IsReplica(replica.task) => replica.task.src \notin onReplicate
  BY <1>1 DEF Marked
<1>5. \A u \in TransIds : Pending(u) /\ IsReplica(copier[u].task) => copier[u].task.src \in onReplicate
  BY <1>1 DEF Marked, AboutToMark
<1>6. ASSUME NEW u \in TransIds, Pending(u)', IsReplica(copier'[u].task)
      PROVE  copier'[u].task.src \in onReplicate' \/ AboutToMark(u)'
  BY <1>2, <1>3, <1>5, <1>6 DEF AboutToMark
<1>7. ASSUME NEW t1 \in TransIds, NEW t2 \in TransIds, Pending(t1)', Pending(t2)',
             copier'[t1].task = copier'[t2].task, IsReplica(copier'[t1].task)
      PROVE  t1 = t2
  BY <1>3, <1>4, <1>5, <1>7 DEF Marked
<1> QED BY <1>2, <1>4, <1>6, <1>7 DEF Marked

LEMMA InsertMarked ==
  ASSUME CopyInv, Marked, Insert
  PROVE  Marked'
<1>1. replica.pc = "insert" /\ replica'.pc \in {"scan", "index"} /\ UNCHANGED copier
      /\ onReplicate' = (IF IsReplica(replica.task) THEN onReplicate \cup {replica.task.src} ELSE onReplicate)
  BY DEF Insert, CopyInv, TypeOK, Replica, IsReplica
<1>2. \A u : Pending(u)' <=> Pending(u)
  BY <1>1 DEF Pending
<1>3. ASSUME NEW u \in TransIds, Pending(u)', IsReplica(copier'[u].task)
      PROVE  copier'[u].task.src \in onReplicate'
  BY <1>1, <1>2, <1>3 DEF Marked, AboutToMark
<1> QED BY <1>1, <1>2, <1>3 DEF Marked

LEMMA NextMarked ==
  ASSUME NoIndexFiles, "rpc" \notin Faults, CopyInv, Marked, [Next]_vars
  PROVE  Marked'
<1>1. replica \in Replica
  BY DEF CopyInv, TypeOK
<1>2. CASE CheckReplicas \/ Client \/ TakeLock \/ Wait \/ Skip \/ CannotReplicate \/ NoIndex \/ UNCHANGED vars
  <2>1. UNCHANGED <<copier, onReplicate>>
    BY <1>2 DEF CheckReplicas, Client, CopyRequest, WriteOpen, WriteData, WriteClose, Delete, TakeLock, Wait, Skip,
                CannotReplicate, NoIndex, vars
  <2>2. \/ replica'.pc = replica.pc /\ replica'.task = replica.task /\ replica'.trans = replica.trans
        \/ replica.pc \notin {"addSlave", "insert"} /\ replica'.pc \notin {"rpc", "addSlave", "insert"}
    BY <1>2, <1>1 DEF CheckReplicas, Client, CopyRequest, WriteOpen, WriteData, WriteClose, Delete, TakeLock, Wait, Skip,
                CannotReplicate, NoIndex, vars, Woken, Replica
  <2> QED BY <2>1, <2>2, MarkedFrame DEF Pending
<1>3. CASE createReplica
  <2>1. /\ UNCHANGED <<copier, onReplicate>> /\ replica.pc = "scan" /\ ~OnReplicate(Head(queue))
        /\ replica'.pc = "rpc" /\ replica'.task = Head(queue)
    BY <1>3 DEF createReplica, BeginCopy, Scanning
  <2>2. \A u : Pending(u)' <=> Pending(u)
    BY <2>1 DEF Pending
  <2> QED BY <2>1, <2>2 DEF Marked, AboutToMark, OnReplicate, IsReplica
<1>4. CASE AddSlave
  <2>1. UNCHANGED <<copier, onReplicate>> /\ replica.pc = "addSlave" /\ replica'.pc = "insert"
        /\ replica'.task = replica.task /\ replica'.trans = replica.trans
    BY <1>4, <1>1 DEF AddSlave, Replica
  <2>2. \A u : (Pending(u)' <=> Pending(u)) /\ (AboutToMark(u)' <=> AboutToMark(u))
    BY <2>1 DEF Pending, AboutToMark
  <2> QED BY <2>1, <2>2 DEF Marked
<1>5. CASE Rpc \/ Insert
  BY <1>5, RpcMarked, InsertMarked
<1>6. CASE RpcFails \/ CopyIndex
  <2>1. ~RpcFails
    BY DEF RpcFails
  <2>2. ~CopyIndex
    BY DEF CopyIndex, HasIndex, IndexOf, NoIndexFiles, CopyInv, ReplicaAtWork, Task
  <2> QED BY <1>6, <2>1, <2>2
<1>7. ASSUME NEW t \in TransIds, CopyThread(t) \/ Reporting(t) PROVE Marked'
  <2>1. CASE ReportErase(t)
    BY <2>1, EraseStep
  <2>2. CASE ~ReportErase(t)
    <3>1. onReplicate' = onReplicate
      BY <1>7, <2>2 DEF CopyThread, CopyLocal, CopyOpen, Fetch, FetchFails, SendReport, ReportFails, Answered,
                        Reporting, ReportUpdate, ReportRetire, ReadRetired
    <3>2. replica' = replica \/ replica' = Woken(queue)
      BY <1>7, <2>2 DEF CopyThread, CopyLocal, CopyOpen, Fetch, FetchFails, SendReport, ReportFails, Answered,
                        Reporting, ReportUpdate, ReportRetire, ReadRetired
    <3> QED BY <1>1, <1>7, <3>1, <3>2, PendingEnds, MarkedFrame DEF Woken, Replica
  <2> QED BY <2>1, <2>2
<1> QED BY <1>2, <1>3, <1>4, <1>5, <1>6, <1>7 DEF Next, ReplicaThread

\* No file is replicated twice at the same time, although reports take no lock that
\* the replica thread takes (m_sstrOnReplicate, master.cpp).
THEOREM NeverReplicatedTwice ==
  ASSUME NoIndexFiles, "rpc" \notin Faults
  PROVE  Spec => []NoDoubleReplication
<1>1. Init => Marked
  <2>1. Init => \A t \in TransIds : ~Pending(t)
    BY DEF Init, Pending, NoCopier
  <2> QED BY <2>1 DEF Init, Marked
<1>2. CopyInv /\ Marked /\ [Next]_vars => Marked'
  BY NextMarked
<1>3. CopyInv /\ Marked => NoDoubleReplication
  <2> SUFFICES ASSUME CopyInv, Marked, NEW t \in TransIds, Copying(t) PROVE Pending(t)
    BY DEF NoDoubleReplication, Marked, IsReplica
  <2> QED BY DEF CopyInv, CopiersAtWork, Copying, Pending
<1> QED BY <1>1, <1>2, <1>3, InductiveInvariant, PTL DEF Spec

-----------------------------------------------------------------------------
(* A file keeps a faithful copy.  The slaves that hold a file at the start   *)
(* never get a copy of it again, and take part in every write.  It is so for *)
(* replicas alone: a copy of a file onto another, an index file that is      *)
(* copied along, and a copy that the master does not know can replace a copy *)
(* that is recorded, or take over its time.                                  *)

OnlyReplicas == Copies = {} /\ Leftovers = {} /\ NoIndexFiles

\* Every task is the replica of a file, made by a transfer to a slave that does
\* not hold the file.
Replicating ==
  /\ \A i \in DOMAIN queue : IsReplica(queue[i])
  /\ replica.pc = "rpc" => IsReplica(replica.task)
  /\ \A s \in Slaves : local[s] \subseteq {f \in Files : s \in Holders[f]}
  /\ \A t \in TransIds : copier[t].st # "none" =>
       IsReplica(copier[t].task) /\ ~copier[t].byCp /\ copier[t].node \notin Holders[copier[t].task.dst]

Chained(s, f) == writer[f].open /\ s \in writer[f].chain

\* A slave that gets a copy of f: it has none that anybody counts on.
NewNode(s, f) == s \notin Holders[f] /\ s \notin meta[f].locs /\ ~Chained(s, f)

\* The master has not handled the report of t yet.
Unreported(t) == copier[t].st \in {"started", "fetching", "installed"} \/ copier[t].report = "sent"

\* Copies are made on other slaves than those that count.
Apart ==
  /\ replica.pc = "rpc" => NewNode(replica.node, replica.task.dst)
  /\ \A t \in TransIds : Unreported(t) => NewNode(copier[t].node, copier[t].task.dst)

Version(v) == [data: {v}, again: BOOLEAN, time: {v}]

\* The holders all have a version of f that was written at v, and so has, in a session that has
\* written, who is in its chain and has a copy at all.
HeldAt(f, v) ==
  /\ \A s \in Holders[f] : disk[s][f] \in Version(v)
  /\ IF writer[f].open /\ writer[f].wrote
     THEN \A s \in writer[f].chain : disk[s][f] \in {NoCopy} \cup Version(v)
     ELSE v = meta[f].stamp

\* While a file exists its holders are recorded, take part in the write, and agree;
\* when it was deleted while it was open nobody in the chain has a copy.
Holding(f) ==
  IF meta[f].exists
  THEN /\ Holders[f] # {} /\ Holders[f] \subseteq meta[f].locs
       /\ writer[f].open => Holders[f] \subseteq writer[f].chain /\ writer[f].chain \subseteq meta[f].locs
       /\ \E v \in Stamps : HeldAt(f, v)
  ELSE \A s \in Slaves : Chained(s, f) => disk[s][f] = NoCopy

HolderInv == Replicating /\ Apart /\ \A f \in Files : Holding(f)

LEMMA InitHolderInv ==
  ASSUME OnlyReplicas, Init
  PROVE  HolderInv
<1>1. Replicating
  BY HoldersAssumption DEF OnlyReplicas, Init, Replicating, NoCopier
<1>2. Apart
  BY DEF Init, Apart, Unreported, NoCopier
<1>3. ASSUME NEW f \in Files PROVE Holding(f)
  <2>1. CASE Holders[f] = {}
    BY <2>1 DEF Init, Holding, Chained, Absent, NoWriter
  <2>2. CASE Holders[f] # {}
    <3>1. meta[f].exists /\ meta[f].locs = Holders[f] /\ meta[f].stamp = 2 /\ ~writer[f].open
      BY <2>2 DEF Init, NoWriter
    <3>2. ASSUME NEW s \in Holders[f] PROVE disk[s][f] \in Version(2)
      <4>1. s \in Slaves
        BY HoldersAssumption
      <4>2. disk[s][f] = (CASE s \in Holders[f] -> [data |-> 2, again |-> FALSE, time |-> 2]
                           [] <<s, f>> \in Leftovers -> [data |-> 1, again |-> FALSE, time |-> 1]
                           [] OTHER -> NoCopy)
        BY <4>1 DEF Init
      <4>3. <<s, f>> \notin Leftovers
        BY LeftoversAssumption
      <4> QED BY <4>2, <4>3 DEF Version
    <3> QED BY <2>2, <3>1, <3>2, BoundsAssumption DEF Holding, HeldAt
  <2> QED BY <2>1, <2>2
<1> QED BY <1>1, <1>2, <1>3 DEF HolderInv

\* A copy that nobody counts on comes, and any copy of a slave that held none goes.
LEMMA HoldingFrame ==
  ASSUME CopyInv, NEW f \in Files, Holding(f), UNCHANGED <<meta, writer>>,
         \A s \in Slaves : \/ disk'[s][f] = disk[s][f]
                           \/ s \notin Holders[f] /\ (disk'[s][f] = NoCopy \/ ~Chained(s, f))
  PROVE  Holding(f)'
<1>1. Holders[f] \subseteq Slaves /\ (writer[f].open => writer[f].chain \subseteq Slaves)
  BY HoldersAssumption DEF CopyInv, TypeOK, Writer
<1>2. CASE meta[f].exists
  <2>1. PICK v \in Stamps : HeldAt(f, v)
    BY <1>2 DEF Holding
  <2>2. HeldAt(f, v)'
    BY <2>1, <1>1 DEF HeldAt, Chained
  <2> QED BY <1>2, <2>2 DEF Holding
<1>3. CASE ~meta[f].exists
  BY <1>3 DEF Holding, Chained
<1> QED BY <1>2, <1>3

\* No other copy thread, and not the replica thread, works for the file of a report.
LEMMA ApartFrame ==
  ASSUME Apart, UNCHANGED <<meta, writer>>,
         \A t \in TransIds : Unreported(t)' => Unreported(t) /\ copier'[t].task = copier[t].task /\ copier'[t].node = copier[t].node,
         replica'.pc = "rpc" => replica.pc = "rpc" /\ replica'.task = replica.task /\ replica'.node = replica.node
  PROVE  Apart'
<1>1. ASSUME replica'.pc = "rpc" PROVE NewNode(replica.node, replica.task.dst)'
  <2>1. NewNode(replica.node, replica.task.dst)
    BY <1>1 DEF Apart
  <2>2. replica'.task = replica.task /\ replica'.node = replica.node
    BY <1>1
  <2> QED BY <2>1, <2>2 DEF NewNode, Chained
<1>2. ASSUME NEW t \in TransIds, Unreported(t)' PROVE NewNode(copier[t].node, copier[t].task.dst)'
  <2>1. NewNode(copier[t].node, copier[t].task.dst)
    BY <1>2 DEF Apart
  <2>2. copier'[t].task = copier[t].task /\ copier'[t].node = copier[t].node
    BY <1>2
  <2> QED BY <2>1, <2>2 DEF NewNode, Chained
<1> QED BY <1>1, <1>2 DEF Apart

\* What is known of a copy thread that makes a replica.
LEMMA CopierFacts ==
  ASSUME CopyInv, Replicating, NEW t \in TransIds, copier[t].st # "none"
  PROVE  /\ copier[t].task \in Task /\ copier[t].task.dst \in Files /\ copier[t].task.src = copier[t].task.dst
         /\ copier[t].node \in Slaves /\ ~copier[t].byCp /\ copier[t].node \notin Holders[copier[t].task.dst]
<1>1. copier[t].task \in Task /\ copier[t].node \in Slaves
  BY DEF CopyInv, CopiersAtWork
<1>2. copier[t].task.dst \in Files
  BY <1>1 DEF Task
<1> QED BY <1>1, <1>2 DEF Replicating, IsReplica

\* A slave that replicates a file does not have it in its own index, so no replica
\* is made with cp.
LEMMA NeverByCp ==
  ASSUME CopyInv, Replicating, NEW t \in TransIds
  PROVE  ~CopyLocal(t)
<1> SUFFICES ASSUME CopyLocal(t) PROVE FALSE
  OBVIOUS
<1>1. copier[t].st = "started" /\ copier[t].task.src \in Dirs \cup local[copier[t].node]
  BY DEF CopyLocal
<1>2. /\ copier[t].task.dst \in Files /\ copier[t].task.src = copier[t].task.dst
      /\ copier[t].node \in Slaves /\ copier[t].node \notin Holders[copier[t].task.dst]
  BY <1>1, CopierFacts
<1>3. copier[t].task.src \notin Dirs
  BY <1>2, FilesAssumption
<1>4. copier[t].task.src \notin local[copier[t].node]
  BY <1>2 DEF Replicating
<1> QED BY <1>1, <1>3, <1>4

\* The steps of copy threads and of reports change neither what is copied nor where to.
LEMMA CopierKeeps ==
  ASSUME CopyInv, Replicating, NEW t \in TransIds, CopyThread(t) \/ Reporting(t)
  PROVE  /\ copier[t].st # "none"
         /\ \A u \in TransIds : copier'[u].task = copier[u].task /\ copier'[u].node = copier[u].node
                                /\ copier'[u].byCp = copier[u].byCp
                                /\ (copier'[u].st = "none" <=> copier[u].st = "none")
         /\ UNCHANGED <<local, queue, writer>>
         /\ replica' = replica \/ replica' = Woken(queue)
<1>1. copier \in [TransIds -> Copier] /\ CopiersAtWork
  BY DEF CopyInv, TypeOK
<1>2. copier[t].st # "none"
  <2>1. CASE CopyThread(t)
    BY <2>1 DEF CopyThread, CopyLocal, CopyOpen, Fetch, FetchFails, SendReport, ReportFails, Answered
  <2>2. CASE Reporting(t)
    <3>1. copier[t].report # "no" \/ copier[t].read # "no"
      BY <2>2 DEF Reporting, ReportUpdate, ReportErase, ReportRetire, ReadRetired
    <3> QED BY <1>1, <3>1 DEF CopiersAtWork, NoCopier
  <2> QED BY <2>1, <2>2
<1>3. Change(copier[t].task) = 3
  BY <1>2, CopierFacts DEF Change
<1>4. UNCHANGED <<local, queue, writer>> /\ (replica' = replica \/ replica' = Woken(queue))
  <2>1. CASE SendReport(t)
    BY <1>3, <2>1 DEF SendReport
  <2>2. CASE CopyOpen(t) \/ Fetch(t) \/ FetchFails(t) \/ ReportFails(t) \/ Answered(t)
    BY <2>2 DEF CopyOpen, Fetch, FetchFails, ReportFails, Answered
  <2>3. CASE Reporting(t)
    BY <2>3 DEF Reporting, ReportUpdate, ReportErase, ReportRetire, ReadRetired
  <2> QED BY <2>1, <2>2, <2>3, NeverByCp DEF CopyThread
<1>5. \A u \in TransIds \ {t} : copier'[u] = copier[u]
  BY <1>1, NeverByCp DEF CopyThread, CopyOpen, Fetch, FetchFails, SendReport, ReportFails, Answered,
              Reporting, ReportUpdate, ReportErase, ReportRetire, ReadRetired
<1> DEFINE Kept == /\ copier'[t].task = copier[t].task /\ copier'[t].node = copier[t].node
                   /\ copier'[t].byCp = copier[t].byCp /\ copier'[t].st # "none"
<1>6. Kept
  <2>1. CASE CopyOpen(t)
    <3>1. \/ copier' = [copier EXCEPT ![t].st = "done", ![t].read = "orphan"]
          \/ copier' = [copier EXCEPT ![t].st = "done"]
          \/ \E x : copier' = [copier EXCEPT ![t].st = "fetching", ![t].from = x, ![t].read = "open"]
      BY <2>1 DEF CopyOpen
    <3>2. ASSUME NEW x, copier' = [copier EXCEPT ![t].st = "fetching", ![t].from = x, ![t].read = "open"]
          PROVE  Kept
      BY <3>2, <1>1 DEF Copier
    <3>3. CASE copier' = [copier EXCEPT ![t].st = "done", ![t].read = "orphan"]
      BY <3>3, <1>1 DEF Copier
    <3>4. CASE copier' = [copier EXCEPT ![t].st = "done"]
      BY <3>4, <1>1 DEF Copier
    <3> QED BY <3>1, <3>2, <3>3, <3>4
  <2>2. CASE Fetch(t) \/ FetchFails(t)
    BY <2>2, <1>1 DEF Fetch, FetchFails, Copier
  <2>3. CASE SendReport(t)
    <3>1. \/ copier' = [copier EXCEPT ![t].st = "done"]
          \/ \E x : copier' = [copier EXCEPT ![t].st = "reporting", ![t].report = "sent", ![t].stamp = x]
      BY <2>3 DEF SendReport
    <3>2. ASSUME NEW x, copier' = [copier EXCEPT ![t].st = "reporting", ![t].report = "sent", ![t].stamp = x]
          PROVE  Kept
      BY <3>2, <1>1 DEF Copier
    <3>3. CASE copier' = [copier EXCEPT ![t].st = "done"]
      BY <3>3, <1>1 DEF Copier
    <3> QED BY <3>1, <3>2, <3>3
  <2>4. CASE ReportFails(t) \/ Answered(t) \/ ReadRetired(t)
    BY <2>4, <1>1, <1>2 DEF ReportFails, Answered, ReadRetired, Copier
  <2>5. CASE ReportUpdate(t) \/ ReportErase(t) \/ ReportRetire(t)
    BY <2>5, <1>1, <1>2 DEF ReportUpdate, ReportErase, ReportRetire, Copier
  <2> QED BY <2>1, <2>2, <2>3, <2>4, <2>5, NeverByCp DEF CopyThread, Reporting
<1> QED BY <1>2, <1>4, <1>5, <1>6

LEMMA ReplicatingStep ==
  ASSUME OnlyReplicas, "rpc" \notin Faults, CopyInv, HolderInv, [Next]_vars
  PROVE  Replicating'
<1>1. Replicating /\ Apart /\ queue \in Seq(Task) /\ replica \in Replica /\ copier \in [TransIds -> Copier]
  BY DEF CopyInv, TypeOK, HolderInv
<1>2. CASE CheckReplicas
  <2>1. \A i \in DOMAIN queue' : IsReplica(queue'[i])
    BY <1>1, <1>2, TasksAtType DEF CheckReplicas, getUnderReplicated, Replicating, IsReplica
  <2>2. UNCHANGED <<local, copier>> /\ replica'.pc # "rpc"
    BY <1>1, <1>2 DEF CheckReplicas, Woken, LockFree, Replica
  <2> QED BY <1>1, <2>1, <2>2 DEF Replicating
<1>3. CASE \E f \in Files : WriteOpen(f) \/ WriteData(f) \/ WriteClose(f) \/ Delete(f)
  <2>1. UNCHANGED <<queue, copier>> /\ (replica' = replica \/ replica' = Woken(queue))
    BY <1>3 DEF WriteOpen, WriteData, WriteClose, Delete
  <2>2. \A s \in Slaves : local'[s] \subseteq local[s]
    BY <1>3 DEF WriteOpen, WriteData, WriteClose, Delete
  <2> QED BY <1>1, <2>1, <2>2 DEF Replicating, Woken, Replica
<1>4. CASE TakeLock \/ Wait \/ AddSlave \/ Insert \/ NoIndex \/ UNCHANGED vars
  <2>1. UNCHANGED <<queue, copier, local>> /\ (replica'.pc # "rpc" \/ replica' = replica)
    BY <1>1, <1>4 DEF TakeLock, Wait, AddSlave, Insert, NoIndex, vars, Replica
  <2> QED BY <1>1, <2>1 DEF Replicating
<1>5. CASE Skip \/ CannotReplicate \/ createReplica
  <2>1. /\ UNCHANGED <<copier, local>> /\ queue # <<>> /\ queue' = Tail(queue)
        /\ replica' = replica \/ replica'.task = Head(queue)
    BY <1>5 DEF Skip, CannotReplicate, createReplica, Scanning, BeginCopy
  <2>2. IsReplica(Head(queue)) /\ \A i \in DOMAIN queue' : IsReplica(queue'[i])
    BY <1>1, <2>1 DEF Replicating
  <2> QED BY <1>1, <2>1, <2>2 DEF Replicating
<1>6. CASE Rpc
  <2>1. /\ replica.pc = "rpc" /\ replica.trans \in TransIds /\ replica'.pc = "addSlave" /\ UNCHANGED <<queue, local>>
        /\ copier' = [copier EXCEPT ![replica.trans] = StartedCopier]
    BY <1>1, <1>6, BoundsAssumption DEF Rpc, CopyInv, ReplicaAtWork, TypeOK, TransIds, Replica
  <2>2. IsReplica(StartedCopier.task) /\ ~StartedCopier.byCp /\ StartedCopier.node \notin Holders[StartedCopier.task.dst]
    BY <1>1, <2>1 DEF StartedCopier, NoCopier, Replicating, Apart, NewNode
  <2>3. ASSUME NEW t \in TransIds, copier'[t].st # "none"
        PROVE  IsReplica(copier'[t].task) /\ ~copier'[t].byCp /\ copier'[t].node \notin Holders[copier'[t].task.dst]
    <3>1. CASE t = replica.trans
      BY <1>1, <2>1, <2>2, <3>1
    <3>2. CASE t # replica.trans
      BY <1>1, <2>1, <2>3, <3>2 DEF Replicating
    <3> QED BY <3>1, <3>2
  <2> QED BY <1>1, <2>1, <2>3 DEF Replicating
<1>7. ASSUME NEW t \in TransIds, CopyThread(t) \/ Reporting(t) PROVE Replicating'
  <2>1. UNCHANGED <<local, queue>> /\ (replica' = replica \/ replica' = Woken(queue))
    BY <1>1, <1>7, CopierKeeps
  <2>2. ASSUME NEW u \in TransIds, copier'[u].st # "none"
        PROVE  IsReplica(copier'[u].task) /\ ~copier'[u].byCp /\ copier'[u].node \notin Holders[copier'[u].task.dst]
    BY <1>1, <1>7, <2>2, CopierKeeps DEF Replicating
  <2>3. replica'.pc = "rpc" => replica' = replica
    BY <1>1, <2>1 DEF Woken, Replica
  <2> QED BY <1>1, <2>1, <2>2, <2>3 DEF Replicating
<1>8. ~RpcFails /\ ~CopyIndex
  BY DEF RpcFails, CopyIndex, HasIndex, IndexOf, OnlyReplicas, NoIndexFiles, CopyInv, ReplicaAtWork, Task
<1> QED BY <1>2, <1>3, <1>4, <1>5, <1>6, <1>7, <1>8 DEF Next, ReplicaThread, Client, OnlyReplicas

\* The node of a report, and no other copy, joins the locations of its file.
LEMMA ReportApart ==
  ASSUME CopyInv, Marked, HolderInv, NEW t \in TransIds, ReportUpdate(t)
  PROVE  Apart'
<1> DEFINE f == copier[t].task.dst
<1>1. Replicating /\ Apart /\ copier \in [TransIds -> Copier] /\ CopiersAtWork /\ meta \in [Files -> Entry]
  BY DEF HolderInv, CopyInv, TypeOK
<1>2. /\ copier[t].report = "sent" /\ copier' = [copier EXCEPT ![t].report = "updated"]
      /\ UNCHANGED <<writer, replica>>
      /\ meta' = [meta EXCEPT ![f] = Updated(@, copier[t].node, copier[t].stamp, Change(copier[t].task))]
  BY DEF ReportUpdate
<1>3. copier[t].st # "none" /\ Pending(t) /\ copier[t].st \notin {"started", "fetching", "installed"}
  BY <1>1, <1>2 DEF CopiersAtWork, NoCopier, Pending
<1>4. /\ copier[t].task \in Task /\ f \in Files /\ copier[t].task.src = f /\ copier[t].node \in Slaves
  BY <1>1, <1>3, CopierFacts
<1>5. \A g \in Files \ {f} : meta'[g] = meta[g]
  BY <1>1, <1>2
<1> DEFINE StillNew(s, g) == s \notin Holders[g] /\ s \notin meta'[g].locs /\ ~(writer'[g].open /\ s \in writer'[g].chain)
<1>6. \A s : \A g \in Files \ {f} : NewNode(s, g) => StillNew(s, g)
  BY <1>2, <1>5 DEF NewNode, Chained
<1>7. ASSUME replica.pc = "rpc" PROVE StillNew(replica.node, replica.task.dst)
  <2>1. replica.task \in Task /\ replica.task.src = replica.task.dst
    BY <1>1, <1>7 DEF CopyInv, ReplicaAtWork, Replicating, IsReplica
  <2>2. replica.task.src \notin onReplicate /\ f \in onReplicate
    BY <1>3, <1>4, <1>7, <2>1 DEF Marked, IsReplica, AboutToMark
  <2>3. replica.task.dst \in Files \ {f}
    BY <2>1, <2>2 DEF Task
  <2> QED BY <1>1, <1>6, <1>7, <2>3 DEF Apart
<1>8. ASSUME NEW u \in TransIds, Unreported(u)' PROVE StillNew(copier[u].node, copier[u].task.dst)
  <2>1. u # t
    BY <1>1, <1>2, <1>3, <1>8 DEF Unreported, Copier
  <2>2. copier'[u] = copier[u]
    BY <1>1, <1>2, <2>1
  <2>3. Unreported(u) /\ Pending(u) /\ copier[u].st # "none"
    BY <1>1, <1>8, <2>2 DEF Unreported, Pending, CopiersAtWork, NoCopier
  <2>4. copier[u].task \in Task /\ copier[u].task.dst \in Files /\ copier[u].task.src = copier[u].task.dst
    BY <1>1, <2>3, CopierFacts
  <2>5. copier[u].task.dst # f
    <3>1. SUFFICES ASSUME copier[u].task.dst = f PROVE FALSE
      OBVIOUS
    <3>2. copier[u].task = copier[t].task
      BY <1>4, <2>4, <3>1 DEF Task
    <3> QED BY <1>3, <1>4, <2>1, <2>3, <2>4, <3>2 DEF Marked, IsReplica
  <2> QED BY <1>1, <1>6, <2>3, <2>4, <2>5 DEF Apart
<1>9. \A u \in TransIds : copier'[u].task = copier[u].task /\ copier'[u].node = copier[u].node
  BY <1>1, <1>2 DEF Copier
<1> QED BY <1>2, <1>7, <1>8, <1>9 DEF Apart, NewNode, Chained

\* A step of a client leaves those that get copies apart from the locations and the chain.
LEMMA ClientApart ==
  ASSUME CopyInv, HolderInv, NEW f \in Files, WriteOpen(f) \/ WriteData(f) \/ WriteClose(f) \/ Delete(f)
  PROVE  Apart'
<1>1. Apart /\ Holding(f) /\ meta \in [Files -> Entry] /\ writer \in [Files -> Writer] /\ Slaves \subseteq Nat
      /\ copier \in [TransIds -> Copier] /\ replica \in Replica
  BY SlavesAssumption DEF HolderInv, CopyInv, TypeOK
<1>2. \A g \in Files \ {f} : meta'[g] = meta[g] /\ writer'[g] = writer[g]
  BY <1>1 DEF WriteOpen, WriteData, WriteClose, Delete
<1>3. /\ meta'[f].locs \subseteq meta[f].locs
      /\ writer'[f].open => writer'[f].chain \subseteq meta[f].locs \/ (writer[f].open /\ writer'[f].chain = writer[f].chain)
  <2>1. CASE WriteOpen(f)
    BY <1>1, <2>1 DEF WriteOpen
  <2>2. CASE WriteData(f)
    BY <1>1, <2>2 DEF WriteData, Writer
  <2>3. CASE WriteClose(f)
    <3>1. ~writer'[f].open /\ writer[f].open
      BY <1>1, <2>3 DEF WriteClose, NoWriter
    <3>2. CASE meta' = meta
      BY <3>1, <3>2
    <3>3. ASSUME NEW s \in writer[f].chain, disk[s][f] # NoCopy,
                 meta' = [meta EXCEPT ![f] = Updated(@, s, disk[s][f].time, IF writer[f].wrote THEN 2 ELSE 0)]
          PROVE  meta'[f].locs \subseteq meta[f].locs
      <4>1. s \in Slaves
        BY <1>1, <3>1 DEF Writer
      <4>2. meta[f].exists /\ s \in meta[f].locs
        BY <1>1, <3>1, <3>3, <4>1 DEF Holding, Chained
      <4>3. meta'[f] = Updated(meta[f], s, disk[s][f].time, IF writer[f].wrote THEN 2 ELSE 0)
        BY <1>1, <3>3
      <4> QED BY <1>1, <4>2, <4>3 DEF Updated, Entry
    <3> QED BY <2>3, <3>1, <3>2, <3>3 DEF WriteClose
  <2>4. CASE Delete(f)
    BY <1>1, <2>4 DEF Delete, Absent
  <2> QED BY <2>1, <2>2, <2>3, <2>4
<1> DEFINE StillNew(s, g) == s \notin Holders[g] /\ s \notin meta'[g].locs /\ ~(writer'[g].open /\ s \in writer'[g].chain)
<1>4. ASSUME NEW s, NEW g \in Files, NewNode(s, g) PROVE StillNew(s, g)
  <2>1. CASE g = f
    BY <1>3, <1>4, <2>1 DEF NewNode, Chained
  <2>2. CASE g # f
    BY <1>2, <1>4, <2>2 DEF NewNode, Chained
  <2> QED BY <2>1, <2>2
<1>5. UNCHANGED copier /\ (replica'.pc = "rpc" => UNCHANGED replica)
  BY <1>1 DEF WriteOpen, WriteData, WriteClose, Delete, Woken, Replica
<1>6. ASSUME replica.pc = "rpc" PROVE StillNew(replica.node, replica.task.dst)
  <2>1. replica.task.dst \in Files
    BY <1>6 DEF CopyInv, ReplicaAtWork, Task
  <2> QED BY <1>1, <1>4, <1>6, <2>1 DEF Apart
<1>7. ASSUME NEW u \in TransIds, Unreported(u) PROVE StillNew(copier[u].node, copier[u].task.dst)
  <2>1. copier[u].task.dst \in Files
    BY <1>7 DEF CopyInv, CopiersAtWork, Task, Unreported, NoCopier
  <2> QED BY <1>1, <1>4, <1>7, <2>1 DEF Apart
<1> QED BY <1>5, <1>6, <1>7 DEF Apart, Unreported, NewNode, Chained

\* A new copy goes to a node that does not have the file.
LEMMA ApartStep ==
  ASSUME OnlyReplicas, "rpc" \notin Faults, CopyInv, Marked, HolderInv, [Next]_vars
  PROVE  Apart'
<1>1. Replicating /\ Apart /\ replica \in Replica /\ copier \in [TransIds -> Copier] /\ queue \in Seq(Task)
      /\ CopiersAtWork
  BY DEF CopyInv, TypeOK, HolderInv
<1>2. CASE CheckReplicas \/ TakeLock \/ Wait \/ Skip \/ CannotReplicate \/ AddSlave \/ Insert \/ NoIndex \/ UNCHANGED vars
  <2>1. UNCHANGED <<meta, writer, copier>>
    BY <1>2 DEF CheckReplicas, TakeLock, Wait, Skip, CannotReplicate, AddSlave, Insert, NoIndex, vars
  <2>2. replica'.pc = "rpc" => replica' = replica
    BY <1>1, <1>2 DEF CheckReplicas, Woken, TakeLock, Wait, Skip, CannotReplicate, AddSlave, Insert, NoIndex, vars, Replica
  <2> QED BY <1>1, <2>1, <2>2, ApartFrame DEF Unreported
<1>3. CASE createReplica
  <2> DEFINE k == Head(queue)
  <2>1. PICK n \in chooseReplicaNode(k) : BeginCopy(k, n, FALSE)
    BY <1>3 DEF createReplica
  <2>2. queue # <<>> /\ k \in Task /\ IsReplica(k) /\ Exists(k.src) /\ UNCHANGED <<meta, writer, copier>>
    BY <1>1, <1>3 DEF createReplica, Scanning, Replicating
  <2>3. k.src \in Files /\ k.dst = k.src /\ meta[k.src].exists
    BY <2>2, FilesAssumption DEF IsReplica, Task, Exists
  <2>4. n \in Slaves \ meta[k.src].locs
    BY <2>1, <2>2 DEF chooseReplicaNode, IsReplica
  <2>5. NewNode(n, k.src)
    BY <2>3, <2>4 DEF HolderInv, Holding, NewNode, Chained
  <2>6. replica'.node = n /\ replica'.task = k
    BY <2>1 DEF BeginCopy
  <2>7. n \notin Holders[k.dst] /\ n \notin meta'[k.dst].locs /\ ~(writer'[k.dst].open /\ n \in writer'[k.dst].chain)
    BY <2>2, <2>3, <2>5 DEF NewNode, Chained
  <2>8. ASSUME NEW u \in TransIds, Unreported(u)
        PROVE  LET s == copier[u].node
                   g == copier[u].task.dst
               IN s \notin Holders[g] /\ s \notin meta'[g].locs /\ ~(writer'[g].open /\ s \in writer'[g].chain)
    BY <1>1, <2>2, <2>8 DEF Apart, NewNode, Chained
  <2> QED BY <2>2, <2>6, <2>7, <2>8 DEF Apart, NewNode, Chained, Unreported
<1>4. CASE Rpc
  <2>1. /\ replica.pc = "rpc" /\ replica.trans \in TransIds /\ replica'.pc = "addSlave" /\ UNCHANGED <<meta, writer>>
        /\ copier' = [copier EXCEPT ![replica.trans] = StartedCopier]
    BY <1>1, <1>4, BoundsAssumption DEF Rpc, CopyInv, ReplicaAtWork, TypeOK, TransIds, Replica
  <2>2. StartedCopier.task = replica.task /\ StartedCopier.node = replica.node /\ NewNode(replica.node, replica.task.dst)
    BY <1>1, <2>1 DEF StartedCopier, NoCopier, Apart
  <2>3. ASSUME NEW u \in TransIds, Unreported(u)'
        PROVE  LET s == copier'[u].node
                   g == copier'[u].task.dst
               IN s \notin Holders[g] /\ s \notin meta'[g].locs /\ ~(writer'[g].open /\ s \in writer'[g].chain)
    <3>1. CASE u = replica.trans
      BY <1>1, <2>1, <2>2, <3>1 DEF NewNode, Chained
    <3>2. CASE u # replica.trans
      BY <1>1, <2>1, <2>3, <3>2 DEF Apart, Unreported, NewNode, Chained
    <3> QED BY <3>1, <3>2
  <2> QED BY <2>1, <2>3 DEF Apart, NewNode, Chained
<1>5. ASSUME NEW t \in TransIds, CopyThread(t) \/ Reporting(t) PROVE Apart'
  <2>1. CASE ReportUpdate(t)
    BY <2>1, ReportApart
  <2>2. CASE ~ReportUpdate(t)
    <3>1. UNCHANGED <<meta, writer>> /\ (replica' = replica \/ replica' = Woken(queue))
      BY <1>5, <2>2 DEF CopyThread, CopyLocal, CopyOpen, Fetch, FetchFails, SendReport, ReportFails, Answered,
                        Reporting, ReportErase, ReportRetire, ReadRetired
    <3>2. \A u \in TransIds : copier'[u].task = copier[u].task /\ copier'[u].node = copier[u].node
      BY <1>1, <1>5, CopierKeeps
    <3>3. \A u \in TransIds \ {t} : copier'[u] = copier[u]
      BY <1>1, <1>5 DEF CopyThread, CopyLocal, CopyOpen, Fetch, FetchFails, SendReport, ReportFails, Answered,
                        Reporting, ReportUpdate, ReportErase, ReportRetire, ReadRetired
    <3>4. Unreported(t)' => Unreported(t)
      <4>1. CASE CopyOpen(t) \/ Fetch(t) \/ FetchFails(t) \/ SendReport(t)
        BY <4>1 DEF CopyOpen, Fetch, FetchFails, SendReport, Unreported
      <4>2. CASE ReportFails(t) \/ Answered(t) \/ ReadRetired(t)
        BY <1>1, <4>2 DEF ReportFails, Answered, ReadRetired, Unreported, Copier
      <4>3. CASE ReportErase(t) \/ ReportRetire(t)
        BY <1>1, <4>3 DEF ReportErase, ReportRetire, Unreported, Copier
      <4> QED BY <1>1, <1>5, <2>2, <4>1, <4>2, <4>3, NeverByCp DEF CopyThread, Reporting
    <3>5. \A u \in TransIds : Unreported(u)' => Unreported(u)
      BY <3>3, <3>4 DEF Unreported
    <3>6. replica'.pc = "rpc" => replica' = replica
      BY <1>1, <3>1 DEF Woken, Replica
    <3> QED BY <1>1, <3>1, <3>2, <3>5, <3>6, ApartFrame
  <2> QED BY <2>1, <2>2
<1>6. ~RpcFails /\ ~CopyIndex
  BY DEF RpcFails, CopyIndex, HasIndex, IndexOf, OnlyReplicas, NoIndexFiles, CopyInv, ReplicaAtWork, Task
<1> QED BY <1>2, <1>3, <1>4, <1>5, <1>6, ClientApart DEF Next, ReplicaThread, Client, OnlyReplicas

\* The steps of clients: what the holders have is what the master knows, or what the
\* session that is open has written.
LEMMA ClientHolding ==
  ASSUME CopyInv, NEW f \in Files, Holding(f), WriteOpen(f) \/ WriteData(f) \/ WriteClose(f) \/ Delete(f)
  PROVE  Holding(f)'
<1>1. /\ meta \in [Files -> Entry] /\ writer \in [Files -> Writer] /\ disk \in [Slaves -> [Files -> Copy]]
      /\ clock \in Stamps /\ Stamps \subseteq Nat \ {0} /\ Holders[f] \subseteq Slaves
  BY HoldersAssumption, StampsAssumption DEF CopyInv, TypeOK
<1>2. writer[f].chain \subseteq Slaves
  BY <1>1 DEF Writer
<1>3. \A v \in Stamps : NoCopy \notin Version(v)
  BY <1>1 DEF Version, NoCopy
<1>4. CASE WriteOpen(f)
  <2>1. /\ meta[f].exists /\ ~writer[f].open /\ UNCHANGED <<meta, disk>>
        /\ writer'[f] = [open |-> TRUE, wrote |-> FALSE, chain |-> meta[f].locs]
    BY <1>1, <1>4 DEF WriteOpen
  <2>2. PICK v \in Stamps : HeldAt(f, v)
    BY <2>1 DEF Holding
  <2>3. HeldAt(f, v)'
    BY <2>1, <2>2 DEF HeldAt
  <2> QED BY <2>1, <2>3 DEF Holding
<1>5. CASE WriteData(f)
  <2>1. /\ writer[f].open /\ clock' \in Stamps /\ UNCHANGED meta
        /\ writer'[f].open /\ writer'[f].wrote /\ writer'[f].chain = writer[f].chain
    BY <1>1, <1>5 DEF WriteData, NextSeconds, Writer
  <2>2. ASSUME NEW s \in writer[f].chain
        PROVE  IF disk[s][f] = NoCopy THEN disk'[s][f] = NoCopy ELSE disk'[s][f] \in Version(clock')
    BY <1>1, <1>2, <1>5, <2>2 DEF WriteData, Version
  <2>3. CASE meta[f].exists
    <3>1. PICK v \in Stamps : HeldAt(f, v)
      BY <2>3 DEF Holding
    <3>2. \A s \in Holders[f] : s \in writer[f].chain /\ disk[s][f] # NoCopy
      BY <1>3, <2>1, <2>3, <3>1 DEF Holding, HeldAt
    <3>3. PICK w \in Stamps : w = clock'
      BY <2>1
    <3>4. HeldAt(f, w)'
      BY <2>1, <2>2, <3>2, <3>3 DEF HeldAt, Version
    <3> QED BY <2>1, <2>3, <3>4 DEF Holding
  <2>4. CASE ~meta[f].exists
    BY <1>1, <2>1, <2>2, <2>4 DEF Holding, Chained
  <2> QED BY <2>3, <2>4
<1>6. CASE WriteClose(f)
  <2>1. writer[f].open /\ ~writer'[f].open /\ UNCHANGED disk
    BY <1>1, <1>6 DEF WriteClose, NoWriter
  <2>2. CASE meta[f].exists
    <3>1. PICK v \in Stamps : HeldAt(f, v)
      BY <2>2 DEF Holding
    <3>2. \E s \in writer[f].chain : disk[s][f] # NoCopy
      BY <1>3, <2>1, <2>2, <3>1 DEF Holding, HeldAt
    <3>3. PICK s \in writer[f].chain :
            /\ disk[s][f] # NoCopy
            /\ meta' = [meta EXCEPT ![f] = Updated(@, s, disk[s][f].time, IF writer[f].wrote THEN 2 ELSE 0)]
      BY <1>6, <3>2 DEF WriteClose
    <3>4. meta'[f] = Updated(meta[f], s, disk[s][f].time, IF writer[f].wrote THEN 2 ELSE 0) /\ meta[f] \in Entry
      BY <1>1, <3>3
    <3>5. meta'[f].exists /\ meta'[f].locs = meta[f].locs
      <4>1. s \in meta[f].locs
        BY <2>1, <2>2 DEF Holding
      <4> QED BY <2>2, <3>4, <4>1 DEF Updated, Entry
    <3>6. meta'[f].stamp = v
      <4>1. CASE writer[f].wrote
        <5>1. disk[s][f].time = v
          BY <2>1, <3>1, <3>3, <4>1 DEF HeldAt, Version
        <5> QED BY <2>2, <3>4, <4>1, <5>1 DEF Updated, Entry
      <4>2. CASE ~writer[f].wrote
        BY <2>1, <2>2, <3>1, <3>4, <4>2 DEF Updated, HeldAt
      <4> QED BY <4>1, <4>2
    <3>7. HeldAt(f, v)'
      BY <2>1, <3>1, <3>6 DEF HeldAt
    <3> QED BY <2>1, <2>2, <3>5, <3>7 DEF Holding
  <2>3. CASE ~meta[f].exists
    <3>1. \A s \in writer[f].chain : disk[s][f] = NoCopy
      BY <1>2, <2>1, <2>3 DEF Holding, Chained
    <3>2. meta' = meta
      BY <1>6, <3>1 DEF WriteClose
    <3> QED BY <2>1, <2>3, <3>2 DEF Holding, Chained
  <2> QED BY <2>2, <2>3
<1>7. CASE Delete(f)
  <2>1. meta[f].exists /\ ~meta'[f].exists /\ UNCHANGED writer
    BY <1>1, <1>7 DEF Delete, Absent
  <2>2. ASSUME NEW s \in Slaves, Chained(s, f) PROVE disk'[s][f] = NoCopy
    <3>1. s \in meta[f].locs
      BY <2>1, <2>2 DEF Holding, Chained
    <3> QED BY <1>1, <1>7, <3>1 DEF Delete
  <2> QED BY <2>1, <2>2 DEF Holding, Chained
<1> QED BY <1>4, <1>5, <1>6, <1>7

\* Copies come to slaves that nobody counts on and go from slaves that are no holders.
LEMMA CopierHolding ==
  ASSUME CopyInv, HolderInv, NEW t \in TransIds, CopyThread(t) \/ Reporting(t), NEW f \in Files
  PROVE  Holding(f)'
<1> DEFINE n == copier[t].node
           g == copier[t].task.dst
<1>1. /\ Replicating /\ Apart /\ Holding(f) /\ meta \in [Files -> Entry] /\ disk \in [Slaves -> [Files -> Copy]]
      /\ UNCHANGED writer /\ n \in Slaves /\ g \in Files /\ n \notin Holders[g] /\ ~copier[t].byCp
  BY CopierKeeps, CopierFacts DEF HolderInv, CopyInv, TypeOK
<1>2. CASE Fetch(t) \/ ReportFails(t)
  <2>1. CASE Fetch(t)
    <3>1. UNCHANGED meta /\ Unreported(t) /\ \E x : disk' = [disk EXCEPT ![n][g] = x]
      BY <2>1 DEF Fetch, Unreported
    <3>2. ~Chained(n, g)
      BY <1>1, <3>1 DEF Apart, NewNode
    <3>3. \A s \in Slaves : disk'[s][f] = disk[s][f] \/ (s = n /\ f = g)
      BY <1>1, <3>1
    <3> QED BY <1>1, <3>1, <3>2, <3>3, HoldingFrame
  <2>2. CASE ReportFails(t)
    <3>1. UNCHANGED meta /\ disk' = [disk EXCEPT ![n][g] = NoCopy]
      BY <2>2 DEF ReportFails
    <3>2. \A s \in Slaves : disk'[s][f] = disk[s][f] \/ (s = n /\ f = g /\ disk'[s][f] = NoCopy)
      BY <1>1, <3>1
    <3> QED BY <1>1, <3>1, <3>2, HoldingFrame
  <2> QED BY <1>2, <2>1, <2>2
<1>3. CASE ReportUpdate(t)
  <2>1. Change(copier[t].task) = 3
    BY <1>1, CopierKeeps, CopierFacts DEF Change
  <2>2. UNCHANGED disk /\ meta' = [meta EXCEPT ![g] = Updated(@, n, copier[t].stamp, 3)]
    BY <1>3, <2>1 DEF ReportUpdate
  <2>3. /\ meta'[f].exists = meta[f].exists /\ meta'[f].stamp = meta[f].stamp
        /\ meta'[f].locs = meta[f].locs \/ meta'[f].locs = meta[f].locs \cup {n}
    <3>1. CASE f = g
      <4>1. meta'[f] = Updated(meta[f], n, copier[t].stamp, 3) /\ meta[f] \in Entry
        BY <1>1, <2>2, <3>1
      <4> QED BY <4>1 DEF Updated, Entry
    <3>2. CASE f # g
      BY <1>1, <2>2, <3>2
    <3> QED BY <3>1, <3>2
  <2>4. CASE meta[f].exists
    <3>1. PICK v \in Stamps : HeldAt(f, v)
      BY <1>1, <2>4 DEF Holding
    <3>2. HeldAt(f, v)'
      BY <1>1, <2>2, <2>3, <3>1 DEF HeldAt
    <3> QED BY <1>1, <2>3, <2>4, <3>2 DEF Holding
  <2>5. CASE ~meta[f].exists
    BY <1>1, <2>2, <2>3, <2>5 DEF Holding, Chained
  <2> QED BY <2>4, <2>5
<1>4. CASE ~Fetch(t) /\ ~ReportFails(t) /\ ~ReportUpdate(t)
  <2>1. UNCHANGED <<meta, disk>>
    BY <1>1, <1>4, NeverByCp DEF CopyThread, CopyOpen, FetchFails, SendReport, Answered,
                                 Reporting, ReportErase, ReportRetire, ReadRetired
  <2> QED BY <1>1, <2>1, HoldingFrame
<1> QED BY <1>2, <1>3, <1>4

LEMMA HoldingStep ==
  ASSUME OnlyReplicas, "rpc" \notin Faults, CopyInv, HolderInv, [Next]_vars, NEW f \in Files
  PROVE  Holding(f)'
<1>1. Holding(f) /\ meta \in [Files -> Entry] /\ disk \in [Slaves -> [Files -> Copy]] /\ writer \in [Files -> Writer]
  BY DEF HolderInv, CopyInv, TypeOK
<1>2. CASE CheckReplicas \/ ReplicaThread \/ UNCHANGED vars
  <2>1. UNCHANGED <<meta, disk, writer>>
    BY <1>2 DEF CheckReplicas, ReplicaThread, TakeLock, Wait, Skip, CannotReplicate, createReplica, Rpc, RpcFails, AddSlave, Insert,
                CopyIndex, NoIndex, vars
  <2> QED BY <1>1, <2>1, HoldingFrame
<1>3. ASSUME NEW g \in Files, WriteOpen(g) \/ WriteData(g) \/ WriteClose(g) \/ Delete(g) PROVE Holding(f)'
  <2>1. CASE f = g
    BY <1>1, <1>3, <2>1, ClientHolding
  <2>2. CASE f # g
    <3>1. meta'[f] = meta[f] /\ writer'[f] = writer[f]
      BY <1>1, <1>3, <2>2 DEF WriteOpen, WriteData, WriteClose, Delete
    <3>2. \A s \in Slaves : disk'[s][f] = disk[s][f]
      BY <1>1, <1>3, <2>2 DEF WriteOpen, WriteData, WriteClose, Delete
    <3>3. Holders[f] \subseteq Slaves /\ (writer[f].open => writer[f].chain \subseteq Slaves)
      BY <1>1, HoldersAssumption DEF Writer
    <3>4. ASSUME NEW v \in Stamps, HeldAt(f, v) PROVE HeldAt(f, v)'
      BY <3>1, <3>2, <3>3, <3>4 DEF HeldAt
    <3> QED BY <1>1, <3>1, <3>2, <3>4 DEF Holding, Chained
  <2> QED BY <2>1, <2>2
<1> QED BY <1>2, <1>3, CopierHolding DEF Next, Client, OnlyReplicas

\* Whatever writers, copy threads, failed transfers and reports, and deletes do to each
\* other, a file that nobody is changing has a location with the version, and the
\* modification time, that the master knows.
THEOREM FaithfulCopyRemains ==
  ASSUME OnlyReplicas, "rpc" \notin Faults
  PROVE  Spec => []AFaithfulCopyRemains
<1>1. Init => Marked /\ HolderInv
  <2>1. Init => \A t \in TransIds : ~Pending(t)
    BY DEF Init, Pending, NoCopier
  <2> QED BY <2>1, InitHolderInv DEF Init, Marked
<1>2. CopyInv /\ Marked /\ HolderInv /\ [Next]_vars => Marked' /\ HolderInv'
  BY NextMarked, ReplicatingStep, ApartStep, HoldingStep DEF HolderInv, OnlyReplicas
<1>3. CopyInv /\ HolderInv => AFaithfulCopyRemains
  <2> SUFFICES ASSUME CopyInv, HolderInv, NEW f \in Files, Settled(f), meta[f].exists
               PROVE  \E s \in meta[f].locs : Faithful(s, f) /\ disk[s][f].time = meta[f].stamp
    BY DEF AFaithfulCopyRemains
  <2>1. PICK v \in Stamps : HeldAt(f, v)
    BY DEF HolderInv, Holding
  <2>2. PICK s \in Holders[f] : s \in meta[f].locs
    BY DEF HolderInv, Holding
  <2>3. disk[s][f] \in Version(meta[f].stamp)
    BY <2>1, <2>2 DEF HeldAt, Settled
  <2> QED BY <2>2, <2>3 DEF Faithful, Version
<1> QED BY <1>1, <1>2, <1>3, InductiveInvariant, PTL DEF Spec

-----------------------------------------------------------------------------
(* Replicas are recorded faithfully.  A copy that the master does not know   *)
(* has the time that its source had in the index when it was ordered, so it  *)
(* is refused when the file was modified since: its times have to be kept    *)
(* apart from the stamp, until the report is handled.                        *)

\* The last time that f was modified, nothing had been in that second before.
Fresh(f) == \A s \in Holders[f] : ~disk[s][f].again

\* The copy of a slave that is no location would be refused, or is faithful, or was
\* made of a location that was not, or the stamp does not tell.
Lagging(s, f) ==
  \/ disk[s][f] = NoCopy
  \/ disk[s][f].time < meta[f].stamp
  \/ /\ disk[s][f].time = meta[f].stamp
     /\ Faithful(s, f) \/ (\E q \in meta[f].locs : ~Faithful(q, f)) \/ ~Fresh(f)

\* What a session has written is not older than what the master knows.
Dated(f) ==
  meta[f].exists =>
    /\ meta[f].stamp <= clock
    /\ \A s \in Slaves \ meta[f].locs : Lagging(s, f)
    /\ writer[f].open /\ writer[f].wrote =>
         \A s \in writer[f].chain :
           disk[s][f] # NoCopy => meta[f].stamp <= disk[s][f].time /\ disk[s][f].time <= clock

\* A copy is not dated later than its file, comes from a location, and stays as it
\* was reported until the master handles the report.
InTime(t) ==
  LET c == copier[t]
      f == c.task.dst IN
  /\ c.st \in {"started", "fetching"} /\ meta[f].exists => c.time <= meta[f].stamp
  /\ c.st = "fetching" /\ meta[f].exists => c.from \in meta[f].locs
  /\ c.report = "sent" => disk[c.node][f] # NoCopy /\ disk[c.node][f].time = c.stamp

OrderInTime ==
  replica.pc = "rpc" /\ meta[replica.task.dst].exists => replica.time <= meta[replica.task.dst].stamp

DatedInv == OrderInTime /\ (\A f \in Files : Dated(f)) /\ (\A t \in TransIds : InTime(t))

\* What numbers the stamps and times are.
LEMMA Times ==
  ASSUME CopyInv
  PROVE  /\ clock \in Nat
         /\ \A f \in Files : meta[f] \in Entry /\ meta[f].stamp \in Nat
         /\ \A s \in Slaves : \A f \in Files : disk[s][f] \in Copy /\ disk[s][f].time \in Nat
         /\ replica.time \in Nat /\ \A t \in TransIds : copier[t].time \in Nat /\ copier[t].stamp \in Nat
<1>1. Stamps \cup {0} \subseteq Nat
  BY StampsAssumption
<1> QED BY <1>1 DEF CopyInv, TypeOK, Entry, Copy, Replica, Copier

LEMMA InitDatedInv ==
  ASSUME OnlyReplicas, Init
  PROVE  DatedInv
<1>1. ASSUME NEW f \in Files PROVE Dated(f)
  <2>1. meta[f].exists => meta[f].locs = Holders[f] /\ meta[f].stamp = 2
    BY DEF Init, Absent
  <2>2. ASSUME NEW s \in Slaves \ Holders[f] PROVE disk[s][f] = NoCopy
    BY DEF Init, OnlyReplicas
  <2> QED BY <2>1, <2>2 DEF Init, Dated, Lagging, NoWriter
<1>2. \A t \in TransIds : InTime(t)
  BY DEF Init, InTime, NoCopier
<1> QED BY <1>1, <1>2 DEF Init, DatedInv, OrderInTime

\* A session that ends leaves the locations alone; its file is dated by what was
\* written in it.
LEMMA CloseAdvances ==
  ASSUME CopyInv, NEW f \in Files, Holding(f), Dated(f), WriteClose(f)
  PROVE  /\ meta'[f].exists = meta[f].exists /\ meta'[f].locs = meta[f].locs
         /\ meta[f].exists => meta[f].stamp <= meta'[f].stamp /\ meta'[f].stamp <= clock
<1>1. writer[f].open /\ writer[f].chain \subseteq Slaves /\ meta \in [Files -> Entry] /\ disk \in [Slaves -> [Files -> Copy]]
  BY DEF WriteClose, CopyInv, TypeOK, Writer
<1>2. CASE meta' = meta
  BY <1>2, Times DEF Dated
<1>3. ASSUME NEW s \in writer[f].chain, disk[s][f] # NoCopy,
             meta' = [meta EXCEPT ![f] = Updated(@, s, disk[s][f].time, IF writer[f].wrote THEN 2 ELSE 0)]
      PROVE  /\ meta'[f].exists = meta[f].exists /\ meta'[f].locs = meta[f].locs
             /\ meta[f].exists => meta[f].stamp <= meta'[f].stamp /\ meta'[f].stamp <= clock
  <2>1. meta[f].exists /\ s \in meta[f].locs
    BY <1>1, <1>3 DEF Holding, Chained
  <2>2. meta'[f] = Updated(meta[f], s, disk[s][f].time, IF writer[f].wrote THEN 2 ELSE 0) /\ meta[f] \in Entry
    BY <1>1, <1>3
  <2>3. CASE writer[f].wrote
    <3>1. meta[f].stamp <= disk[s][f].time /\ disk[s][f].time <= clock
      BY <1>1, <1>3, <2>1, <2>3 DEF Dated
    <3>2. meta'[f].exists /\ meta'[f].locs = meta[f].locs /\ meta'[f].stamp = disk[s][f].time
      BY <2>1, <2>2, <2>3 DEF Updated, Entry
    <3> QED BY <1>1, <2>1, <3>1, <3>2, Times
  <2>4. CASE ~writer[f].wrote
    <3>1. meta'[f] = meta[f]
      BY <2>1, <2>2, <2>4 DEF Updated
    <3>2. meta[f].stamp <= clock /\ meta[f].stamp <= meta[f].stamp
      BY <2>1, Times DEF Dated
    <3> QED BY <3>1, <3>2
  <2> QED BY <2>3, <2>4
<1> QED BY <1>2, <1>3 DEF WriteClose

\* A file that exists, and is open, has a holder in the chain that has a copy of it.
LEMMA HolderHasIt ==
  ASSUME CopyInv, NEW f \in Files, Holding(f), meta[f].exists, writer[f].open
  PROVE  \E q \in Holders[f] : q \in meta[f].locs /\ q \in writer[f].chain /\ disk[q][f] # NoCopy
<1>1. \A v \in Stamps : NoCopy \notin Version(v)
  BY StampsAssumption DEF Version, NoCopy
<1>2. PICK v \in Stamps : HeldAt(f, v)
  BY DEF Holding
<1>3. PICK q \in Holders[f] : q \in meta[f].locs /\ q \in writer[f].chain
  BY DEF Holding
<1> QED BY <1>1, <1>2, <1>3 DEF HeldAt

\* The steps of clients on the file.
LEMMA ClientDated ==
  ASSUME CopyInv, NEW f \in Files, Holding(f), Dated(f), WriteOpen(f) \/ WriteData(f) \/ WriteClose(f) \/ Delete(f)
  PROVE  Dated(f)'
<1> SUFFICES ASSUME meta'[f].exists PROVE Dated(f)'
  BY DEF Dated
<1>1. /\ meta \in [Files -> Entry] /\ writer \in [Files -> Writer] /\ disk \in [Slaves -> [Files -> Copy]]
      /\ writer[f].chain \subseteq Slaves /\ meta[f].locs \subseteq Slaves
  BY DEF CopyInv, TypeOK, Writer, Entry
<1>2. CASE WriteOpen(f)
  <2>1. UNCHANGED <<meta, disk, clock>> /\ ~writer'[f].wrote
    BY <1>1, <1>2 DEF WriteOpen
  <2> QED BY <2>1 DEF Dated, Lagging, Faithful, Fresh
<1>3. CASE WriteData(f)
  <2>1. meta[f].exists /\ writer[f].chain \subseteq meta[f].locs
    BY <1>3 DEF WriteData, Holding
  <2>2. /\ UNCHANGED meta /\ writer'[f].chain = writer[f].chain /\ clock' \in {clock, clock + 1}
        /\ meta[f].stamp <= clock /\ meta[f].stamp <= clock'
        /\ clock' = clock \/ meta[f].stamp < clock'
    <3>1. UNCHANGED meta /\ clock' \in {clock, clock + 1} /\ meta[f].stamp <= clock
      BY <1>3, <2>1 DEF WriteData, NextSeconds, Dated
    <3>2. meta[f].stamp < clock + 1 /\ meta[f].stamp <= clock + 1
      BY <3>1, Times
    <3> QED BY <1>1, <1>3, <3>1, <3>2 DEF WriteData, Writer
  <2>3. ASSUME NEW s \in Slaves
        PROVE  \/ disk'[s][f] = disk[s][f] /\ (s \notin writer[f].chain \/ disk[s][f] = NoCopy)
               \/ /\ disk'[s][f] = [data |-> clock', again |-> clock' = clock, time |-> clock']
                  /\ s \in writer[f].chain
    BY <1>1, <1>3, <2>2 DEF WriteData
  <2>4. ~Fresh(f)' \/ \E q \in meta[f].locs : ~Faithful(q, f)'
    <3>1. PICK q \in Holders[f] : q \in meta[f].locs /\ q \in writer[f].chain /\ disk[q][f] # NoCopy
      BY <1>3, <2>1, HolderHasIt DEF WriteData
    <3>2. disk'[q][f] = [data |-> clock', again |-> clock' = clock, time |-> clock']
      BY <1>1, <2>3, <3>1
    <3>3. CASE clock' = clock
      <4>1. disk'[q][f] = [data |-> clock', again |-> TRUE, time |-> clock']
        BY <3>2, <3>3
      <4> QED BY <3>1, <4>1 DEF Fresh
    <3>4. CASE meta[f].stamp < clock'
      BY <2>2, <3>1, <3>2, <3>4, Times DEF Faithful
    <3> QED BY <2>2, <3>3, <3>4
  <2>5. ASSUME NEW s \in Slaves \ meta[f].locs PROVE Lagging(s, f)'
    <3>1. disk'[s][f] = disk[s][f] /\ Lagging(s, f)
      BY <2>1, <2>3, <2>5 DEF Dated
    <3> QED BY <2>2, <2>4, <3>1 DEF Lagging
  <2>6. ASSUME NEW s \in writer[f].chain, disk'[s][f] # NoCopy
        PROVE  meta[f].stamp <= disk'[s][f].time /\ disk'[s][f].time <= clock'
    <3>1. disk'[s][f].time = clock'
      BY <1>1, <2>3, <2>6
    <3>2. clock' \in Nat
      BY <2>2, Times
    <3> QED BY <2>2, <3>1, <3>2
  <2>7. meta[f].stamp <= clock'
    BY <2>2
  <2> QED BY <2>1, <2>2, <2>5, <2>6, <2>7 DEF Dated
<1>4. CASE WriteClose(f)
  <2>1. /\ meta[f].exists /\ meta'[f].locs = meta[f].locs /\ UNCHANGED <<disk, clock>> /\ ~writer'[f].open
        /\ meta[f].stamp <= meta'[f].stamp /\ meta'[f].stamp <= clock
    <3>1. meta'[f].exists = meta[f].exists /\ meta'[f].locs = meta[f].locs
          /\ (meta[f].exists => meta[f].stamp <= meta'[f].stamp /\ meta'[f].stamp <= clock)
      BY <1>4, CloseAdvances
    <3>2. UNCHANGED <<disk, clock>> /\ ~writer'[f].open
      BY <1>1, <1>4 DEF WriteClose, NoWriter
    <3> QED BY <3>1, <3>2
  <2>2. meta'[f].stamp \in Nat
    <3>1. CopyInv'
      BY <1>4, ClientStep
    <3>2. meta'[f] \in Entry
      BY <3>1 DEF CopyInv, TypeOK
    <3>3. Stamps \cup {0} \subseteq Nat
      BY StampsAssumption
    <3> QED BY <3>2, <3>3 DEF Entry
  <2>3. ASSUME NEW s \in Slaves \ meta[f].locs PROVE Lagging(s, f)'
    <3>1. Lagging(s, f)
      BY <2>1, <2>3 DEF Dated
    <3>2. CASE meta'[f].stamp = meta[f].stamp
      <4>1. Faithful(s, f)' = Faithful(s, f) /\ \A q : Faithful(q, f)' = Faithful(q, f)
        BY <2>1, <3>2 DEF Faithful
      <4> QED BY <2>1, <3>1, <3>2, <4>1 DEF Lagging, Fresh
    <3>3. CASE meta'[f].stamp # meta[f].stamp
      <4>1. disk[s][f] # NoCopy => disk[s][f].time < meta'[f].stamp
        BY <2>1, <2>2, <3>1, <3>3, Times DEF Lagging
      <4> QED BY <2>1, <4>1 DEF Lagging
    <3> QED BY <3>2, <3>3
  <2> QED BY <2>1, <2>3 DEF Dated
<1>5. CASE Delete(f)
  BY <1>1, <1>5 DEF Delete, Absent
<1> QED BY <1>2, <1>3, <1>4, <1>5

\* A copy that comes to a slave that nobody counts on, in time.
LEMMA FetchDated ==
  ASSUME CopyInv, HolderInv, DatedInv, NEW t \in TransIds, Fetch(t), NEW f \in Files
  PROVE  Dated(f)'
<1> DEFINE c == copier[t]
           g == c.task.dst
<1>1. /\ disk \in [Slaves -> [Files -> Copy]] /\ meta \in [Files -> Entry] /\ c.st = "fetching" /\ Dated(f) /\ InTime(t)
      /\ UNCHANGED <<meta, writer, clock>>
  BY DEF CopyInv, TypeOK, DatedInv, Fetch
<1>2. /\ g \in Files /\ c.task.src = g /\ c.node \in Slaves /\ c.node \notin meta[g].locs /\ c.node \notin Holders[g]
      /\ ~Chained(c.node, g)
  <2>1. Replicating /\ Unreported(t)
    BY <1>1 DEF HolderInv, Unreported
  <2>2. NewNode(c.node, g)
    BY <2>1 DEF HolderInv, Apart
  <2> QED BY <1>1, <2>1, <2>2, CopierFacts DEF NewNode
<1>3. disk' = [disk EXCEPT ![c.node][g] = [disk[c.from][g] EXCEPT !.time = c.time]]
  BY <1>2 DEF Fetch
<1>4. \A s \in Slaves : disk'[s][f] = disk[s][f] \/ (s = c.node /\ f = g)
  BY <1>1, <1>2, <1>3
<1>5. meta[f].locs \subseteq Slaves /\ (writer[f].open => writer[f].chain \subseteq Slaves)
  BY DEF CopyInv, TypeOK, Entry, Writer
<1>6. \A q \in meta[f].locs : disk'[q][f] = disk[q][f] /\ Faithful(q, f)' = Faithful(q, f)
  BY <1>1, <1>2, <1>4, <1>5 DEF Faithful
<1>7. ASSUME NEW s \in Slaves \ meta[f].locs, meta[f].exists PROVE Lagging(s, f)'
  <2>1. CASE disk'[s][f] = disk[s][f]
    <3>1. Lagging(s, f) /\ Faithful(s, f)' = Faithful(s, f) /\ Fresh(f)' = Fresh(f)
      BY <1>1, <1>2, <1>4, <1>7, <2>1, HoldersAssumption DEF Dated, Faithful, Fresh
    <3> QED BY <1>1, <1>6, <2>1, <3>1 DEF Lagging
  <2>2. CASE s = c.node /\ f = g
    <3>1. disk'[s][f].data = disk[c.from][f].data /\ disk'[s][f].time = c.time
      BY <1>1, <1>2, <1>3, <2>2
    <3>2. c.time <= meta[f].stamp /\ c.from \in meta[f].locs
      BY <1>1, <1>7, <2>2 DEF InTime
    <3>3. PICK q \in meta[f].locs : q = c.from
      BY <3>2
    <3>4. Faithful(q, f) => Faithful(s, f)'
      BY <1>1, <3>1, <3>3 DEF Faithful
    <3>5. ~Faithful(q, f) => ~Faithful(q, f)'
      BY <1>6
    <3>6. disk'[s][f].time < meta[f].stamp \/ disk'[s][f].time = meta[f].stamp
      BY <3>1, <3>2, Times
    <3> QED BY <1>1, <3>4, <3>5, <3>6 DEF Lagging
  <2> QED BY <1>4, <2>1, <2>2
<1>8. ASSUME writer[f].open, NEW s \in writer[f].chain PROVE disk'[s][f] = disk[s][f]
  BY <1>2, <1>4, <1>5, <1>8 DEF Chained
<1> HIDE DEF c
<1> QED BY <1>1, <1>7, <1>8 DEF Dated

\* A file comes into being only when it is created, its locations are only given up
\* with it, and its stamp never goes back.
Advances(f) ==
  meta'[f].exists =>
    meta[f].exists /\ meta[f].stamp <= meta'[f].stamp /\ meta[f].locs \subseteq meta'[f].locs

\* A report of a replica may add its node to the locations, and that is all.
LEMMA ReportAdds ==
  ASSUME CopyInv, Replicating, NEW t \in TransIds, ReportUpdate(t), NEW f \in Files
  PROVE  /\ meta'[f].exists = meta[f].exists /\ meta'[f].stamp = meta[f].stamp /\ meta[f].locs \subseteq meta'[f].locs
         /\ \/ meta'[f].locs = meta[f].locs
            \/ /\ f = copier[t].task.dst /\ meta[f].exists /\ copier[t].stamp = meta[f].stamp
               /\ copier[t].node \notin meta[f].locs /\ meta'[f].locs = meta[f].locs \cup {copier[t].node}
<1> DEFINE c == copier[t]
<1>1. meta \in [Files -> Entry] /\ c.st # "none"
  BY CopierKeeps DEF CopyInv, TypeOK, Reporting
<1>2. Change(c.task) = 3
  BY <1>1, CopierFacts DEF Change
<1>3. meta' = [meta EXCEPT ![c.task.dst] = Updated(@, c.node, c.stamp, 3)]
  BY <1>2 DEF ReportUpdate
<1>4. CASE f = c.task.dst
  <2>1. meta'[f] = Updated(meta[f], c.node, c.stamp, 3) /\ meta[f] \in Entry
    BY <1>1, <1>3, <1>4
  <2>2. CASE meta[f].exists /\ c.node \notin meta[f].locs /\ meta[f].stamp = c.stamp
    <3>1. meta'[f] = [meta[f] EXCEPT !.locs = @ \cup {c.node}]
      BY <2>1, <2>2 DEF Updated
    <3> QED BY <1>4, <2>1, <2>2, <3>1 DEF Entry
  <2>3. CASE ~(meta[f].exists /\ c.node \notin meta[f].locs /\ meta[f].stamp = c.stamp)
    <3>1. meta'[f] = meta[f]
      BY <2>1, <2>3 DEF Updated, Entry
    <3> QED BY <3>1
  <2> QED BY <2>2, <2>3
<1>5. CASE f # c.task.dst
  BY <1>1, <1>3, <1>5
<1> QED BY <1>4, <1>5

LEMMA ReportDated ==
  ASSUME CopyInv, Replicating, NEW t \in TransIds, ReportUpdate(t), NEW f \in Files, Dated(f)
  PROVE  Dated(f)'
<1>1. UNCHANGED <<disk, writer, clock>>
  BY DEF ReportUpdate
<1>2. meta'[f].exists = meta[f].exists /\ meta'[f].stamp = meta[f].stamp /\ meta[f].locs \subseteq meta'[f].locs
  BY ReportAdds
<1>3. \A s : Faithful(s, f)' = Faithful(s, f)
  BY <1>1, <1>2 DEF Faithful
<1>4. ASSUME NEW s \in Slaves \ meta'[f].locs, meta[f].exists PROVE Lagging(s, f)'
  <2>1. Lagging(s, f)
    BY <1>2, <1>4 DEF Dated
  <2> QED BY <1>1, <1>2, <1>3, <2>1 DEF Lagging, Fresh
<1> QED BY <1>1, <1>2, <1>4 DEF Dated

\* A step that does not touch a file.
LEMMA DatedFrame ==
  ASSUME CopyInv, NEW f \in Files, Dated(f), meta'[f] = meta[f], writer'[f] = writer[f], \A s \in Slaves : disk'[s][f] = disk[s][f],
         clock' = clock \/ clock' = clock + 1
  PROVE  Dated(f)'
<1>1. meta[f].locs \subseteq Slaves /\ writer[f].chain \subseteq Slaves
  BY DEF CopyInv, TypeOK, Entry, Writer
<1>2. \A s \in Slaves : Lagging(s, f)' = Lagging(s, f)
  <2>1. Fresh(f)' = Fresh(f)
    BY HoldersAssumption DEF Fresh
  <2> QED BY <1>1, <2>1 DEF Lagging, Faithful
<1>3. \A v \in Nat : v <= clock => v <= clock'
  BY Times
<1>4. meta[f].stamp \in Nat /\ \A s \in Slaves : disk[s][f].time \in Nat
  BY Times
<1> QED BY <1>1, <1>2, <1>3, <1>4 DEF Dated

LEMMA DatedStep ==
  ASSUME OnlyReplicas, "report" \notin Faults, CopyInv, HolderInv, DatedInv, [Next]_vars, NEW f \in Files
  PROVE  Dated(f)' /\ Advances(f)
<1>1. /\ Dated(f) /\ Holding(f) /\ Replicating /\ meta \in [Files -> Entry] /\ disk \in [Slaves -> [Files -> Copy]]
      /\ writer \in [Files -> Writer]
  BY DEF DatedInv, HolderInv, CopyInv, TypeOK
<1>2. meta'[f] = meta[f] => Advances(f)
  BY Times DEF Advances
<1>3. CASE CheckReplicas \/ ReplicaThread \/ UNCHANGED vars
  <2>1. UNCHANGED <<meta, disk, writer, clock>>
    BY <1>3 DEF CheckReplicas, ReplicaThread, TakeLock, Wait, Skip, CannotReplicate, createReplica, Rpc, RpcFails, AddSlave, Insert,
                CopyIndex, NoIndex, vars
  <2> QED BY <1>1, <1>2, <2>1, DatedFrame
<1>4. ASSUME NEW g \in Files, WriteOpen(g) \/ WriteData(g) \/ WriteClose(g) \/ Delete(g) PROVE Dated(f)' /\ Advances(f)
  <2>1. CASE f = g
    <3>1. Dated(f)'
      BY <1>1, <1>4, <2>1, ClientDated
    <3>2. CASE WriteOpen(g) \/ WriteData(g)
      BY <1>2, <3>1, <3>2 DEF WriteOpen, WriteData
    <3>3. CASE WriteClose(g)
      BY <1>1, <2>1, <3>1, <3>3, CloseAdvances DEF Advances
    <3>4. CASE Delete(g)
      BY <1>1, <2>1, <3>1, <3>4 DEF Delete, Absent, Advances
    <3> QED BY <1>4, <3>1, <3>2, <3>3, <3>4
  <2>2. CASE f # g
    <3>1. meta'[f] = meta[f] /\ writer'[f] = writer[f] /\ (clock' = clock \/ clock' = clock + 1)
      BY <1>1, <1>4, <2>2 DEF WriteOpen, WriteData, NextSeconds, WriteClose, Delete
    <3>2. \A s \in Slaves : disk'[s][f] = disk[s][f]
      BY <1>1, <1>4, <2>2 DEF WriteOpen, WriteData, WriteClose, Delete
    <3> QED BY <1>1, <1>2, <3>1, <3>2, DatedFrame
  <2> QED BY <2>1, <2>2
<1>5. ASSUME NEW t \in TransIds, CopyThread(t) \/ Reporting(t) PROVE Dated(f)' /\ Advances(f)
  <2>1. CASE Fetch(t)
    <3>1. meta' = meta
      BY <2>1 DEF Fetch
    <3> QED BY <1>2, <2>1, <3>1, FetchDated
  <2>2. CASE ReportUpdate(t)
    <3>1. Advances(f)
      BY <1>1, <2>2, ReportAdds, Times DEF Advances
    <3> QED BY <1>1, <2>2, <3>1, ReportDated
  <2>3. CASE ~Fetch(t) /\ ~ReportUpdate(t)
    <3>1. UNCHANGED <<meta, disk, writer, clock>>
      <4>1. ~Answered(t) \/ disk' = disk
        <5>1. CASE Answered(t)
          BY <1>1, <1>5, <5>1, CopierKeeps, CopierFacts DEF Answered
        <5> QED BY <5>1
      <4> QED BY <1>1, <1>5, <2>3, <4>1, NeverByCp, Zenon DEF CopyThread, CopyOpen, FetchFails, SendReport, ReportFails, Answered,
                     Reporting, ReportErase, ReportRetire, ReadRetired
    <3> QED BY <1>1, <1>2, <3>1, DatedFrame
  <2> QED BY <2>1, <2>2, <2>3
<1> QED BY <1>3, <1>4, <1>5 DEF Next, Client, OnlyReplicas

\* A copy thread that no step of its own, nor of its report, has touched.
LEMMA InTimeFrame ==
  ASSUME CopyInv, CopyInv', NEW u \in TransIds, InTime(u), copier[u].st # "none" => Advances(copier[u].task.dst),
         copier'[u].task = copier[u].task, copier'[u].node = copier[u].node, copier'[u].time = copier[u].time,
         copier'[u].from = copier[u].from, copier'[u].stamp = copier[u].stamp,
         copier'[u].st = copier[u].st \/ copier'[u].st \in {"installed", "reporting", "done"},
         copier'[u].report = "sent" =>
           /\ copier[u].report = "sent"
           /\ disk'[copier[u].node][copier[u].task.dst] = disk[copier[u].node][copier[u].task.dst]
  PROVE  InTime(u)'
<1>1. PICK f, n, m : f = copier[u].task.dst /\ n = copier[u].node /\ m = copier[u].from
  OBVIOUS
<1>2. ASSUME copier'[u].st \in {"started", "fetching"}, meta'[f].exists
      PROVE  copier[u].time <= meta'[f].stamp
  <2>1. copier[u].st = copier'[u].st /\ f \in Files /\ Advances(f)
    BY <1>1, <1>2 DEF CopyInv, CopiersAtWork, Task
  <2>2. copier[u].time <= meta[f].stamp /\ meta[f].stamp <= meta'[f].stamp
    BY <1>1, <1>2, <2>1 DEF InTime, Advances
  <2>3. Stamps \cup {0} \subseteq Nat
    BY StampsAssumption
  <2>4. meta'[f].stamp \in Nat /\ meta[f].stamp \in Nat /\ copier[u].time \in Nat
    BY <2>1, <2>3, Times DEF CopyInv, TypeOK, Entry
  <2> QED BY <2>2, <2>4
<1>3. ASSUME copier'[u].st = "fetching", meta'[f].exists
      PROVE  m \in meta'[f].locs
  <2>1. copier[u].st = "fetching" /\ Advances(f)
    BY <1>1, <1>3
  <2> QED BY <1>1, <1>3, <2>1 DEF InTime, Advances
<1>4. copier'[u].report = "sent" => disk'[n][f] # NoCopy /\ disk'[n][f].time = copier[u].stamp
  BY <1>1 DEF InTime
<1> QED BY <1>1, <1>2, <1>3, <1>4 DEF InTime

\* Before its report is handled nobody writes, deletes or replaces what a copy thread
\* has put in place.
LEMMA ReportedStays ==
  ASSUME OnlyReplicas, "report" \notin Faults, CopyInv, Marked, HolderInv, [Next]_vars,
         NEW u \in TransIds, copier[u].report = "sent"
  PROVE  disk'[copier[u].node][copier[u].task.dst] = disk[copier[u].node][copier[u].task.dst]
<1>1. /\ Replicating /\ Apart /\ disk \in [Slaves -> [Files -> Copy]] /\ CopiersAtWork
      /\ Unreported(u) /\ Pending(u) /\ copier[u].st # "none"
  BY DEF HolderInv, CopyInv, TypeOK, CopiersAtWork, Unreported, Pending, NoCopier
<1>2. PICK f, n : f = copier[u].task.dst /\ n = copier[u].node
  OBVIOUS
<1>3. f \in Files /\ n \in Slaves /\ copier[u].task.src = f /\ copier[u].task \in Task /\ NewNode(n, f)
  BY <1>1, <1>2, CopierFacts DEF Apart
<1>4. CASE CheckReplicas \/ ReplicaThread \/ UNCHANGED vars
  BY <1>4 DEF CheckReplicas, ReplicaThread, TakeLock, Wait, Skip, CannotReplicate, createReplica, Rpc, RpcFails, AddSlave, Insert,
              CopyIndex, NoIndex, vars
<1>5. ASSUME NEW g \in Files, WriteOpen(g) \/ WriteData(g) \/ WriteClose(g) \/ Delete(g) PROVE disk'[n][f] = disk[n][f]
  BY <1>1, <1>3, <1>5 DEF WriteOpen, WriteData, WriteClose, Delete, NewNode, Chained
<1>6. ASSUME NEW t \in TransIds, CopyThread(t) \/ Reporting(t) PROVE disk'[n][f] = disk[n][f]
  <2>1. CASE Fetch(t)
    <3>1. copier[t].st = "fetching" /\ copier[t].st # "none" /\ Pending(t) /\ t # u
      BY <1>1, <2>1 DEF Fetch, Pending, CopiersAtWork
    <3>2. copier[t].task \in Task /\ copier[t].task.src = copier[t].task.dst
      BY <1>1, <3>1, CopierFacts
    <3>3. copier[t].task # copier[u].task
      BY <1>1, <1>2, <1>3, <3>1, <3>2 DEF Marked, IsReplica
    <3>4. copier[t].task.dst # f
      BY <1>2, <1>3, <3>2, <3>3 DEF Task
    <3> QED BY <1>1, <1>3, <2>1, <3>4 DEF Fetch
  <2>2. CASE Answered(t)
    BY <1>1, <1>6, <2>2, CopierKeeps, CopierFacts DEF Answered
  <2>3. CASE ~Fetch(t) /\ ~Answered(t)
    BY <1>1, <1>6, <2>3, NeverByCp, Zenon DEF CopyThread, CopyOpen, FetchFails, SendReport, ReportFails,
                     Reporting, ReportUpdate, ReportErase, ReportRetire, ReadRetired
  <2> QED BY <2>1, <2>2, <2>3
<1> QED BY <1>2, <1>4, <1>5, <1>6 DEF Next, Client, OnlyReplicas

LEMMA InTimeStep ==
  ASSUME OnlyReplicas, "rpc" \notin Faults, "report" \notin Faults, CopyInv, Marked, HolderInv, DatedInv, [Next]_vars,
         NEW u \in TransIds
  PROVE  InTime(u)'
<1>1. /\ CopyInv' /\ InTime(u) /\ Replicating /\ copier \in [TransIds -> Copier] /\ CopiersAtWork /\ replica \in Replica
  BY NextCopyInv DEF DatedInv, HolderInv, CopyInv, TypeOK
<1>2. copier[u].st # "none" => copier[u].task.dst \in Files /\ Advances(copier[u].task.dst)
  BY <1>1, CopierFacts, DatedStep
<1>3. copier[u].report = "sent" =>
        disk'[copier[u].node][copier[u].task.dst] = disk[copier[u].node][copier[u].task.dst]
  BY ReportedStays
<1>4. CASE copier'[u] = copier[u]
  BY <1>1, <1>2, <1>3, <1>4, InTimeFrame
<1>5. CASE Rpc /\ u = replica.trans
  <2>1. /\ replica.pc = "rpc" /\ copier' = [copier EXCEPT ![u] = StartedCopier] /\ UNCHANGED meta
    BY <1>5 DEF Rpc
  <2>2. copier'[u].st = "started" /\ copier'[u].report = "no"
        /\ copier'[u].time = replica.time /\ copier'[u].task = replica.task
    BY <1>1, <2>1 DEF StartedCopier, NoCopier
  <2> QED BY <2>1, <2>2 DEF InTime, DatedInv, OrderInTime
<1>6. CASE CopyOpen(u)
  <2>1. UNCHANGED <<meta, disk>> /\ copier[u].st = "started" /\ copier[u].report = "no"
    BY <1>1, <1>6, Zenon DEF CopyOpen, CopiersAtWork
  <2>2. \/ copier' = [copier EXCEPT ![u].st = "done", ![u].read = "orphan"]
        \/ copier' = [copier EXCEPT ![u].st = "done"]
        \/ \E s \in meta[copier[u].task.src].locs :
             copier' = [copier EXCEPT ![u].st = "fetching", ![u].from = s, ![u].read = "open"]
    BY <1>6 DEF CopyOpen
  <2>3. CASE copier' = [copier EXCEPT ![u].st = "done", ![u].read = "orphan"]
    BY <1>1, <1>2, <2>1, <2>3, InTimeFrame DEF Copier
  <2>4. CASE copier' = [copier EXCEPT ![u].st = "done"]
    BY <1>1, <1>2, <2>1, <2>4, InTimeFrame DEF Copier
  <2>5. ASSUME NEW s \in meta[copier[u].task.src].locs,
               copier' = [copier EXCEPT ![u].st = "fetching", ![u].from = s, ![u].read = "open"]
        PROVE  InTime(u)'
    <3>1. copier'[u] = [copier[u] EXCEPT !.st = "fetching", !.from = s, !.read = "open"]
      BY <1>1, <2>5
    <3>2. /\ copier'[u].st = "fetching" /\ copier'[u].from = s /\ copier'[u].report = "no"
          /\ copier'[u].time = copier[u].time /\ copier'[u].task = copier[u].task
      BY <1>1, <2>1, <3>1 DEF Copier
    <3>3. copier[u].task.src = copier[u].task.dst
      BY <1>1, <2>1, CopierFacts
    <3> QED BY <1>1, <2>1, <2>5, <3>2, <3>3 DEF InTime
  <2> QED BY <2>2, <2>3, <2>4, <2>5
<1>7. CASE SendReport(u)
  <2>1. UNCHANGED <<meta, disk>> /\ copier[u].st = "installed" /\ copier[u].report = "no"
    BY <1>1, <1>7 DEF SendReport, CopiersAtWork
  <2>2. CASE copier' = [copier EXCEPT ![u].st = "done"]
    BY <1>1, <1>2, <2>1, <2>2, InTimeFrame DEF Copier
  <2>3. PICK x \in Copy : x = disk[copier[u].node][copier[u].task.dst]
    BY <1>1, <2>1, CopierFacts, Times
  <2>4. CASE x # NoCopy /\ copier' = [copier EXCEPT ![u].st = "reporting", ![u].report = "sent", ![u].stamp = x.time]
    <3>1. copier'[u] = [copier[u] EXCEPT !.st = "reporting", !.report = "sent", !.stamp = x.time]
      BY <1>1, <2>4
    <3>2. /\ copier'[u].st = "reporting" /\ copier'[u].stamp = x.time
          /\ copier'[u].node = copier[u].node /\ copier'[u].task = copier[u].task
      BY <1>1, <3>1 DEF Copier
    <3> QED BY <2>1, <2>3, <2>4, <3>2 DEF InTime
  <2> QED BY <1>7, <2>2, <2>3, <2>4 DEF SendReport
<1>8. CASE Fetch(u) \/ FetchFails(u)
  <2>1. copier[u].st = "fetching" /\ copier[u].report = "no"
    BY <1>1, <1>8 DEF Fetch, FetchFails, CopiersAtWork
  <2>2. PICK st \in {"installed", "done"} : copier' = [copier EXCEPT ![u].st = st]
    BY <1>8 DEF Fetch, FetchFails
  <2> QED BY <1>1, <1>2, <2>1, <2>2, InTimeFrame DEF Copier
<1>9. CASE Answered(u) \/ ReadRetired(u)
  <2>1. copier' = [copier EXCEPT ![u].st = "done"] \/ copier' = [copier EXCEPT ![u].read = "no"]
    BY <1>9 DEF Answered, ReadRetired
  <2> QED BY <1>1, <1>2, <1>3, <2>1, InTimeFrame DEF Copier
<1>10. CASE ReportUpdate(u) \/ ReportErase(u) \/ ReportRetire(u)
  <2>1. PICK r \in {"updated", "erased", "answered"} : copier' = [copier EXCEPT ![u].report = r]
    BY <1>10 DEF ReportUpdate, ReportErase, ReportRetire
  <2> QED BY <1>1, <1>2, <2>1, InTimeFrame DEF Copier
<1>11. ASSUME NEW t \in TransIds, CopyThread(t) \/ Reporting(t) PROVE InTime(u)'
  <2>1. CASE t = u
    BY <1>1, <1>6, <1>7, <1>8, <1>9, <1>10, <1>11, <2>1, NeverByCp DEF CopyThread, Reporting, ReportFails
  <2>2. CASE t # u
    <3>1. copier'[u] = copier[u]
      BY <1>1, <1>11, <2>2, NeverByCp, Zenon DEF CopyThread, CopyOpen, Fetch, FetchFails, SendReport, ReportFails, Answered,
              Reporting, ReportUpdate, ReportErase, ReportRetire, ReadRetired
    <3> QED BY <1>4, <3>1
  <2> QED BY <2>1, <2>2
<1>12. CASE Rpc /\ u # replica.trans
  BY <1>1, <1>4, <1>12 DEF Rpc
<1>13. CASE CheckReplicas \/ Client \/ (ReplicaThread /\ ~Rpc) \/ UNCHANGED vars
  <2>1. UNCHANGED copier
    BY <1>13 DEF CheckReplicas, Client, CopyRequest, WriteOpen, WriteData, WriteClose, Delete, ReplicaThread, TakeLock, Wait, Skip,
                 CannotReplicate, createReplica, RpcFails, AddSlave, Insert, CopyIndex, NoIndex, vars
  <2> QED BY <1>4, <2>1
<1> QED BY <1>5, <1>11, <1>12, <1>13 DEF Next

LEMMA OrderInTimeStep ==
  ASSUME OnlyReplicas, "rpc" \notin Faults, "report" \notin Faults, CopyInv, HolderInv, DatedInv, [Next]_vars
  PROVE  OrderInTime'
<1>1. CopyInv' /\ Replicating /\ OrderInTime /\ replica \in Replica /\ queue \in Seq(Task)
  BY NextCopyInv DEF DatedInv, HolderInv, CopyInv, TypeOK
<1>2. CASE createReplica
  <2>1. queue # <<>> /\ UNCHANGED meta /\ Head(queue) \in Task /\ IsReplica(Head(queue))
    BY <1>1, <1>2 DEF createReplica, Scanning, Replicating
  <2>2. replica'.task = Head(queue) /\ replica'.time = TimeOf(Head(queue).src)
    BY <1>2 DEF createReplica, BeginCopy
  <2>3. TimeOf(Head(queue).src) = meta[Head(queue).dst].stamp /\ Head(queue).dst \in Files
    BY <2>1, FilesAssumption DEF TimeOf, IsReplica, Task
  <2>4. meta[Head(queue).dst].stamp <= meta[Head(queue).dst].stamp
    BY <2>3, Times
  <2> QED BY <2>1, <2>2, <2>3, <2>4 DEF OrderInTime
<1>3. CASE ~createReplica
  <2>1. replica'.pc = "rpc" => replica' = replica
    <3>1. replica' = replica \/ replica' = Woken(queue) \/ replica' = Woken(queue') \/ replica'.pc \in {"asleep", "scan", "addSlave", "insert", "index"}
      <4>1. CASE ReplicaThread
        <5>1. ~CopyIndex
          BY DEF CopyIndex, HasIndex, IndexOf, OnlyReplicas, NoIndexFiles, CopyInv, ReplicaAtWork, Task
        <5> QED BY <1>1, <1>3, <4>1, <5>1 DEF ReplicaThread, TakeLock, Wait, Skip, CannotReplicate, Rpc, RpcFails, AddSlave,
                                         Insert, NoIndex, Replica
      <4>2. CASE \E t \in TransIds : CopyThread(t) \/ Reporting(t)
        BY <1>1, <4>2, CopierKeeps
      <4>3. CASE CheckReplicas \/ Client \/ UNCHANGED vars
        BY <4>3 DEF CheckReplicas, Client, CopyRequest, WriteOpen, WriteData, WriteClose, Delete, vars
      <4> QED BY <4>1, <4>2, <4>3 DEF Next
    <3> QED BY <1>1, <3>1 DEF Woken, Replica
  <2> SUFFICES ASSUME replica'.pc = "rpc", meta'[replica.task.dst].exists
               PROVE  replica.time <= meta'[replica.task.dst].stamp
    BY <2>1 DEF OrderInTime
  <2>2. PICK f \in Files : f = replica.task.dst
    BY <2>1 DEF CopyInv, ReplicaAtWork, Task
  <2>3. Advances(f)
    BY DatedStep
  <2>4. replica.time <= meta[f].stamp /\ meta[f].stamp <= meta'[f].stamp
    BY <1>1, <2>1, <2>2, <2>3 DEF OrderInTime, Advances
  <2>5. Stamps \cup {0} \subseteq Nat
    BY StampsAssumption
  <2>6. replica.time \in Nat /\ meta[f].stamp \in Nat /\ meta'[f].stamp \in Nat
    BY <1>1, <2>5, Times DEF CopyInv, TypeOK, Entry
  <2> QED BY <2>2, <2>4, <2>6
<1> QED BY <1>2, <1>3

\* A replica is recorded only if it is the version that the master knows: one of a
\* file that was modified while it was copied is refused (Index::update,
\* Master::createReplica, Slave::copy).  Transfers may break and files be deleted; a
\* report that fails would remove a copy that the master goes on to record.
THEOREM ReplicasRecordedFaithful ==
  ASSUME OnlyReplicas, "rpc" \notin Faults, "report" \notin Faults
  PROVE  Spec => RecordedReplicasFaithful
<1>1. Init => Marked /\ HolderInv /\ DatedInv
  <2>1. Init => \A t \in TransIds : ~Pending(t)
    BY DEF Init, Pending, NoCopier
  <2> QED BY <2>1, InitHolderInv, InitDatedInv DEF Init, Marked
<1>2. CopyInv /\ Marked /\ HolderInv /\ DatedInv /\ [Next]_vars => Marked' /\ HolderInv' /\ DatedInv'
  <2> SUFFICES ASSUME CopyInv, Marked, HolderInv, DatedInv, [Next]_vars PROVE Marked' /\ HolderInv' /\ DatedInv'
    OBVIOUS
  <2>1. Marked' /\ HolderInv'
    BY NextMarked, ReplicatingStep, ApartStep, HoldingStep DEF HolderInv, OnlyReplicas
  <2>2. DatedInv'
    BY DatedStep, InTimeStep, OrderInTimeStep DEF DatedInv
  <2> QED BY <2>1, <2>2
<1> DEFINE Recorded ==
      \A t \in TransIds :
        LET c == copier[t]
            f == c.task.dst IN
        (/\ ReportUpdate(t)
         /\ Change(c.task) = 3
         /\ ~writer[f].open
         /\ \A s \in meta[f].locs : Faithful(s, f) /\ ~disk[s][f].again)
        => \A s \in meta'[f].locs : Faithful(s, f)
<1>3. CopyInv /\ HolderInv /\ DatedInv => Recorded
  <2> SUFFICES ASSUME CopyInv, HolderInv, DatedInv, NEW t \in TransIds, ReportUpdate(t),
                      \A s \in meta[copier[t].task.dst].locs :
                        Faithful(s, copier[t].task.dst) /\ ~disk[s][copier[t].task.dst].again,
                      NEW s \in meta'[copier[t].task.dst].locs
               PROVE  Faithful(s, copier[t].task.dst)
    OBVIOUS
  <2>1. Replicating /\ copier[t].report = "sent" /\ copier[t].st # "none"
    BY CopierKeeps DEF HolderInv, ReportUpdate, Reporting
  <2>2. PICK f \in Files, n \in Slaves : f = copier[t].task.dst /\ n = copier[t].node
    BY <2>1, CopierFacts
  <2>3. CASE s \in meta[f].locs
    BY <2>2, <2>3
  <2>4. CASE s \notin meta[f].locs
    <3>1. s = n /\ meta[f].exists /\ copier[t].stamp = meta[f].stamp
      BY <2>1, <2>2, <2>4, ReportAdds
    <3>2. Lagging(n, f) /\ disk[n][f] # NoCopy /\ disk[n][f].time = meta[f].stamp
      BY <2>1, <2>2, <2>4, <3>1 DEF DatedInv, Dated, InTime
    <3>3. ~(disk[n][f].time < meta[f].stamp)
      BY <3>2, Times
    <3>4. Fresh(f)
      BY <2>2, <3>1 DEF HolderInv, Holding, Fresh
    <3> QED BY <2>2, <3>1, <3>2, <3>3, <3>4 DEF Lagging
  <2> QED BY <2>3, <2>4
<1> QED BY <1>1, <1>2, <1>3, InductiveInvariant, PTL DEF Spec, RecordedReplicasFaithful
=============================================================================
