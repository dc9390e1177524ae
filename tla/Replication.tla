----------------------------- MODULE Replication -----------------------------
(***************************************************************************)
(* Making replicas of files that have too few, and copies of files on      *)
(* demand: the replica thread of the master with its queue                 *)
(* (Master::replica, createReplica), the copy thread of a slave            *)
(* (Slave::copy), and the handling of the report that ends a copy.         *)
(*                                                                         *)
(* All versions of a file have the same size here, so a stamp is the       *)
(* modification time, in whole seconds.  The copy of a file on a disk has  *)
(* the version it really holds, which is the second in which it was        *)
(* written (data) and whether something had been written in that second    *)
(* before (again), and the modification time that its slave can see        *)
(* (time), which utime() sets.                                             *)
(*                                                                         *)
(* Clients that write are sessions of one step each for open, write and    *)
(* close: FileTransactions has them in detail.                             *)
(***************************************************************************)
EXTENDS FileMeta, Sequences

CONSTANTS Files, Dirs,
          NoFile,
          FileOrder,       \* the order in which the index lists the files
          Index,           \* file -> the file named <file>.idx, or NoFile
          Holders,         \* file -> the slaves that hold it at the start
          Leftovers,       \* slaves and files: older copies unknown to the master
          Copies,          \* what clients ask to be copied (command 106)
          Writable,        \* the files that clients write
          Deletable,       \* the files that clients delete
          Faults,          \* what may fail: see the actions that name them
          MaxTrans         \* bound on the number of transactions

ASSUME FilesAssumption == NoFile \notin Files /\ Files \cap Dirs = {}
ASSUME OrderAssumption == FileOrder \in Seq(Files)
ASSUME IndexAssumption == Index \in [Files -> Files \cup {NoFile}]
ASSUME HoldersAssumption == Holders \in [Files -> SUBSET Slaves]
ASSUME LeftoversAssumption ==
  Leftovers \subseteq Slaves \X Files /\ \A l \in Leftovers : l[1] \notin Holders[l[2]]
ASSUME CopiesAssumption ==
  /\ Copies \subseteq [src: Files \cup Dirs, targets: Seq(Files)]
  /\ \A c \in Copies : \A i \in DOMAIN c.targets :
       c.src \in Files /\ Index[c.src] # NoFile => Index[c.targets[i]] # NoFile
ASSUME BoundsAssumption == MaxTrans \in Nat /\ {1, 2} \subseteq Stamps

VARIABLES
  meta,         \* Index: file -> entry
  disk,         \* slave, file -> the local copy
  local,        \* slave -> the files in its own index, m_pLocalFile
  queue,        \* m_vstrToBeReplicated
  onReplicate,  \* m_sstrOnReplicate
  trans,        \* TransManager::m_mTransList, the transactions of copies
  nextTrans,
  replica,      \* the replica thread and the locals of createReplica
  copier,       \* transaction -> the copy thread that serves it, and its report
  writer,       \* file -> the session of the client that writes it
  clock         \* the latest modification time

vars == <<meta, disk, local, queue, onReplicate, trans, nextTrans, replica, copier, writer, clock>>

TransIds == 1 .. MaxTrans

Copy == [data: Stamps \cup {0}, again: BOOLEAN, time: Stamps \cup {0}]
NoCopy == [data |-> 0, again |-> FALSE, time |-> 0]

Task == [src: Files \cup Dirs, dst: Files]
NoTask == [src |-> NoFile, dst |-> NoFile]

Trans == [listed: BOOLEAN, slaves: SUBSET Slaves]
Unlisted == [listed |-> FALSE, slaves |-> {}]

\* The thread holds m_ReplicaLock except when it is asleep (pthread_cond_wait)
\* or awake (it has been signalled and is about to take the lock).
Replica ==
  [pc: {"asleep", "awake", "scan", "rpc", "addSlave", "insert", "index"},
   task: Task \cup {NoTask}, companion: BOOLEAN, node: Slaves \cup {0},
   time: Stamps \cup {0}, trans: Nat]

\* read is the transaction of the open that the copy makes at its source;
\* report is where the master is with the report of the copy.
Copier ==
  [st: {"none", "started", "fetching", "installed", "reporting", "done"},
   task: Task \cup {NoTask}, node: Slaves \cup {0}, time: Stamps \cup {0},
   from: Slaves \cup {0}, byCp: BOOLEAN, stamp: Stamps \cup {0},
   read: {"no", "open", "orphan"}, report: {"no", "sent", "updated", "erased", "answered"}]

NoCopier ==
  [st |-> "none", task |-> NoTask, node |-> 0, time |-> 0, from |-> 0, byCp |-> FALSE,
   stamp |-> 0, read |-> "no", report |-> "no"]

Writer == [open: BOOLEAN, wrote: BOOLEAN, chain: SUBSET Slaves]
NoWriter == [open |-> FALSE, wrote |-> FALSE, chain |-> {}]

\* The types of all variables.
TypeOK ==
  /\ meta \in [Files -> Entry]
  /\ disk \in [Slaves -> [Files -> Copy]]
  /\ local \in [Slaves -> SUBSET Files]
  /\ queue \in Seq(Task)
  /\ onReplicate \subseteq Files
  /\ trans \in [TransIds -> Trans]
  /\ nextTrans \in 1 .. MaxTrans + 1
  /\ replica \in Replica
  /\ copier \in [TransIds -> Copier]
  /\ writer \in [Files -> Writer]
  /\ clock \in Stamps

\* The slaves have joined with their files, all at version 2; a leftover is at
\* version 1: a copy that its slave knows and the master never recorded.
Init ==
  /\ meta = [f \in Files |->
              IF Holders[f] = {} THEN Absent ELSE [exists |-> TRUE, stamp |-> 2, locs |-> Holders[f]]]
  /\ disk = [s \in Slaves |-> [f \in Files |->
              CASE s \in Holders[f] -> [data |-> 2, again |-> FALSE, time |-> 2]
                [] <<s, f>> \in Leftovers -> [data |-> 1, again |-> FALSE, time |-> 1]
                [] OTHER -> NoCopy]]
  /\ local = [s \in Slaves |-> {f \in Files : s \in Holders[f] \/ <<s, f>> \in Leftovers}]
  /\ queue = <<>>
  /\ onReplicate = {}
  /\ trans = [t \in TransIds |-> Unlisted]
  /\ nextTrans = 1
  /\ replica = [pc |-> "asleep", task |-> NoTask, companion |-> FALSE, node |-> 0, time |-> 0, trans |-> 0]
  /\ copier = [t \in TransIds |-> NoCopier]
  /\ writer = [f \in Files |-> NoWriter]
  /\ clock = 2

-----------------------------------------------------------------------------
(* The queue. *)

LockFree == replica.pc \in {"asleep", "awake"}

\* pthread_cond_signal when the queue is q.  A report that waits for the lock
\* to signal is not modelled: the main loop signals as well at any later time.
Woken(q) == IF replica.pc = "asleep" /\ q # <<>> THEN [replica EXCEPT !.pc = "awake"] ELSE replica

UnderReplicated(f) == meta[f].exists /\ Cardinality(meta[f].locs) < ReplicaNum

\* To replicate the files at some positions of the index, in their order there.
TasksAt(positions) ==
  LET nth(n) == FileOrder[CHOOSE i \in positions : Cardinality({j \in positions : j <= i}) = n]
  IN [n \in 1 .. Cardinality(positions) |-> [src |-> nth(n), dst |-> nth(n)]]

\* One replica less is taken to be enough.
getUnderReplicatedByTwo ==
  TasksAt({i \in DOMAIN FileOrder :
             LET e == meta[FileOrder[i]] IN e.exists /\ Cardinality(e.locs) + 1 < ReplicaNum})

getUnderReplicated == TasksAt({i \in DOMAIN FileOrder : UnderReplicated(FileOrder[i])})

\* The check at the end of each round of the main loop.
CheckReplicas ==
  /\ LockFree
  /\ queue' = IF queue = <<>> THEN getUnderReplicated ELSE queue
  /\ replica' = Woken(queue')
  /\ UNCHANGED <<meta, disk, local, onReplicate, trans, nextTrans, copier, writer, clock>>

\* lookup finds a directory or a file of this name.
Exists(f) == f \notin Dirs => meta[f].exists

\* Command 106.  Each task names what the client asked to copy, not the file
\* of it that the target is for; the last one comes first.
CopyRequest(c) ==
  /\ LockFree
  /\ Exists(c.src)
  /\ \A i \in DOMAIN c.targets : ~meta[c.targets[i]].exists
  /\ nextTrans + Len(queue) + Len(c.targets) <= MaxTrans + 1
  /\ LET n == Len(c.targets)
     IN queue' = [i \in 1 .. n |-> [src |-> c.src, dst |-> c.targets[n + 1 - i]]] \o queue
  /\ replica' = Woken(queue')
  /\ UNCHANGED <<meta, disk, local, onReplicate, trans, nextTrans, copier, writer, clock>>

-----------------------------------------------------------------------------
(* The replica thread. *)

\* getTotalTrans: copies, the reads they make, and the clients' writes.
TotalTrans ==
  Cardinality({t \in TransIds : trans[t].listed})
    + Cardinality({t \in TransIds : copier[t].read # "no"})
    + Cardinality({f \in Files : writer[f].open})

Throttled == TotalTrans + Cardinality(onReplicate) >= Cardinality(Slaves)

TakeLock ==
  /\ replica.pc = "awake"
  /\ replica' = [replica EXCEPT !.pc = "scan"]
  /\ UNCHANGED <<meta, disk, local, queue, onReplicate, trans, nextTrans, copier, writer, clock>>

\* The end of the queue, or of what may go on at once: the rest is kept.
Wait ==
  /\ replica.pc = "scan"
  /\ queue = <<>> \/ Throttled
  /\ replica' = [replica EXCEPT !.pc = "asleep"]
  /\ UNCHANGED <<meta, disk, local, queue, onReplicate, trans, nextTrans, copier, writer, clock>>

Scanning == replica.pc = "scan" /\ queue # <<>> /\ ~Throttled

\* A file on replication that is replicated again.
OnReplicateIgnored(k) == FALSE

OnReplicate(k) == k.src = k.dst /\ k.src \in onReplicate

\* A file that is being replicated is dropped from the queue.
Skip ==
  /\ Scanning
  /\ OnReplicate(Head(queue))
  /\ queue' = Tail(queue)
  /\ UNCHANGED <<meta, disk, local, onReplicate, trans, nextTrans, replica, copier, writer, clock>>

TimeOf(f) == IF f \in Dirs THEN 0 ELSE meta[f].stamp

\* chooseReplicaNode: any slave that has no replica; any at all for a copy.
chooseReplicaNode(k) == IF k.src = k.dst THEN Slaves \ meta[k.src].locs ELSE Slaves

\* The lookup fails, or no node is left; the task is dropped.
CannotReplicate ==
  /\ Scanning
  /\ ~OnReplicate(Head(queue))
  /\ ~Exists(Head(queue).src) \/ chooseReplicaNode(Head(queue)) = {}
  /\ queue' = Tail(queue)
  /\ UNCHANGED <<meta, disk, local, onReplicate, trans, nextTrans, replica, copier, writer, clock>>

\* The transaction is listed with its slave, after the rpc.
BeginCopyUnlisted(k, n, companion) ==
  /\ nextTrans \in TransIds
  /\ trans' = trans
  /\ nextTrans' = nextTrans + 1
  /\ replica' = [pc |-> "rpc", task |-> k, companion |-> companion, node |-> n,
                 time |-> TimeOf(k.src), trans |-> nextTrans]

\* TransManager::create for task k on node n, before the rpc.
BeginCopy(k, n, companion) ==
  /\ nextTrans \in TransIds
  /\ trans' = [trans EXCEPT ![nextTrans].listed = TRUE]
  /\ nextTrans' = nextTrans + 1
  /\ replica' = [pc |-> "rpc", task |-> k, companion |-> companion, node |-> n,
                 time |-> TimeOf(k.src), trans |-> nextTrans]

createReplica ==
  /\ Scanning
  /\ ~OnReplicate(Head(queue))
  /\ Exists(Head(queue).src)
  /\ \E n \in chooseReplicaNode(Head(queue)) : BeginCopy(Head(queue), n, FALSE)
  /\ queue' = Tail(queue)
  /\ UNCHANGED <<meta, disk, local, onReplicate, copier, writer, clock>>

StartedCopier ==
  [NoCopier EXCEPT !.st = "started", !.task = replica.task, !.node = replica.node, !.time = replica.time]

\* The slave starts its copy thread and answers.
Rpc ==
  /\ replica.pc = "rpc"
  /\ copier' = [copier EXCEPT ![replica.trans] = StartedCopier]
  /\ replica' = [replica EXCEPT !.pc = "addSlave"]
  /\ UNCHANGED <<meta, disk, local, queue, onReplicate, trans, nextTrans, writer, clock>>

\* The rpc fails, and the transaction is taken back.
RpcFailsRollsBack ==
  /\ "rpc" \in Faults
  /\ replica.pc = "rpc"
  /\ copier' \in {copier, [copier EXCEPT ![replica.trans] = StartedCopier]}
  /\ trans' = [trans EXCEPT ![replica.trans] = Unlisted]
  /\ replica' = [replica EXCEPT !.pc = "scan"]
  /\ UNCHANGED <<meta, disk, local, queue, onReplicate, nextTrans, writer, clock>>

\* The rpc fails, before or after the slave gets it; the transaction is left.
RpcFails ==
  /\ "rpc" \in Faults
  /\ replica.pc = "rpc"
  /\ copier' \in {copier, [copier EXCEPT ![replica.trans] = StartedCopier]}
  /\ replica' = [replica EXCEPT !.pc = "scan"]
  /\ UNCHANGED <<meta, disk, local, queue, onReplicate, trans, nextTrans, writer, clock>>

AddSlave ==
  /\ replica.pc = "addSlave"
  /\ trans' = [trans EXCEPT ![replica.trans] =
                 [listed |-> TRUE, slaves |-> @.slaves \cup {replica.node}]]
  /\ replica' = [replica EXCEPT !.pc = "insert"]
  /\ UNCHANGED <<meta, disk, local, queue, onReplicate, nextTrans, copier, writer, clock>>

\* m_sstrOnReplicate.insert, which takes no lock that reports take.
Insert ==
  /\ replica.pc = "insert"
  /\ onReplicate' = IF replica.task.src = replica.task.dst
                    THEN onReplicate \cup {replica.task.src} ELSE onReplicate
  /\ replica' = [replica EXCEPT !.pc = IF replica.companion THEN "scan" ELSE "index"]
  /\ UNCHANGED <<meta, disk, local, queue, trans, nextTrans, copier, writer, clock>>

IndexOf(f) == IF f \in Dirs THEN NoFile ELSE Index[f]
HasIndex(k) == IndexOf(k.src) # NoFile /\ meta[IndexOf(k.src)].exists

\* The index file goes to the same node, whoever has it already.
CopyIndex ==
  LET k == replica.task IN
  /\ replica.pc = "index"
  /\ HasIndex(k)
  /\ BeginCopy([src |-> Index[k.src], dst |-> Index[k.dst]], replica.node, TRUE)
  /\ UNCHANGED <<meta, disk, local, queue, onReplicate, copier, writer, clock>>

NoIndex ==
  /\ replica.pc = "index"
  /\ ~HasIndex(replica.task)
  /\ replica' = [replica EXCEPT !.pc = "scan"]
  /\ UNCHANGED <<meta, disk, local, queue, onReplicate, trans, nextTrans, copier, writer, clock>>

-----------------------------------------------------------------------------
(* The copy thread of a slave. *)

\* The second in which a file is modified next: "second" is the fault of a clock
\* that does not tell two modifications apart.
NextSeconds == ({clock + 1} \cup IF "second" \in Faults THEN {clock} ELSE {}) \cap Stamps

\* The slave has the source in its own index: cp.  Of a directory, of a file
\* that is gone and of a file onto itself cp makes nothing.
CopyLocal(t) ==
  LET c == copier[t]
      k == c.task IN
  /\ c.st = "started"
  /\ k.src \in Dirs \cup local[c.node]
  /\ IF k.src \in Dirs \/ k.src = k.dst \/ disk[c.node][k.src] = NoCopy
     THEN UNCHANGED <<disk, clock>>
     ELSE /\ clock' \in NextSeconds
          /\ disk' = [disk EXCEPT ![c.node][k.dst] = [disk[c.node][k.src] EXCEPT !.time = clock']]
  /\ copier' = [copier EXCEPT ![t].st = "installed", ![t].byCp = TRUE]
  /\ UNCHANGED <<meta, local, queue, onReplicate, trans, nextTrans, replica, writer>>

\* The slave opens the source as a reader.  The open of a directory succeeds
\* with no slave to read from, and its transaction stays.
CopyOpen(t) ==
  LET c == copier[t]
      f == c.task.src IN
  /\ c.st = "started"
  /\ f \notin local[c.node]
  /\ CASE f \in Dirs -> copier' = [copier EXCEPT ![t].st = "done", ![t].read = "orphan"]
       [] f \notin Dirs /\ ~meta[f].exists -> copier' = [copier EXCEPT ![t].st = "done"]
       [] OTHER -> \E s \in meta[f].locs :
            copier' = [copier EXCEPT ![t].st = "fetching", ![t].from = s, ![t].read = "open"]
  /\ UNCHANGED <<meta, disk, local, queue, onReplicate, trans, nextTrans, replica, writer, clock>>

\* The file is received and moved into place with the time of the original.
Fetch(t) ==
  LET c == copier[t] IN
  /\ c.st = "fetching"
  /\ disk[c.from][c.task.src] # NoCopy
  /\ disk' = [disk EXCEPT ![c.node][c.task.dst] = [disk[c.from][c.task.src] EXCEPT !.time = c.time]]
  /\ copier' = [copier EXCEPT ![t].st = "installed"]
  /\ UNCHANGED <<meta, local, queue, onReplicate, trans, nextTrans, replica, writer, clock>>

\* The connection cannot be made or the source refuses: the thread leaves.
\* A broken transfer goes on to the report, with nothing put in place.
FetchFails(t) ==
  LET c == copier[t] IN
  /\ c.st = "fetching"
  /\ \/ /\ "transfer" \in Faults \/ disk[c.from][c.task.src] = NoCopy
        /\ copier' = [copier EXCEPT ![t].st = "done"]
     \/ /\ "transfer" \in Faults
        /\ copier' = [copier EXCEPT ![t].st = "installed"]
  /\ UNCHANGED <<meta, disk, local, queue, onReplicate, trans, nextTrans, replica, writer, clock>>

\* The source's file handler has ended, and its report retires the read.
ReadRetired(t) ==
  /\ copier[t].read = "open"
  /\ copier[t].st # "fetching"
  /\ copier' = [copier EXCEPT ![t].read = "no"]
  /\ replica' = Woken(queue)
  /\ UNCHANGED <<meta, disk, local, queue, onReplicate, trans, nextTrans, writer, clock>>

\* Slave::report: type 3 for a replica, 1 for a copy, whose file the slave's
\* own index then lists; nothing when the file is not there.
Change(k) == IF k.src = k.dst THEN 3 ELSE 1

SendReport(t) ==
  LET c == copier[t]
      here == disk[c.node][c.task.dst] IN
  /\ c.st = "installed"
  /\ IF here = NoCopy
     THEN copier' = [copier EXCEPT ![t].st = "done"] /\ local' = local
     ELSE /\ copier' = [copier EXCEPT ![t].st = "reporting", ![t].report = "sent", ![t].stamp = here.time]
          /\ local' = IF Change(c.task) = 1
                      THEN [local EXCEPT ![c.node] = @ \cup {c.task.dst}] ELSE local
  /\ UNCHANGED <<meta, disk, queue, onReplicate, trans, nextTrans, replica, writer, clock>>

\* The rpc of the report fails, whether the master gets it or not: the copy is
\* removed.
ReportFails(t) ==
  LET c == copier[t] IN
  /\ "report" \in Faults
  /\ c.st = "reporting"
  /\ disk' = [disk EXCEPT ![c.node][c.task.dst] = NoCopy]
  /\ \/ copier' = [copier EXCEPT ![t].st = "done"]
     \/ c.report = "sent" /\ copier' = [copier EXCEPT ![t].st = "done", ![t].report = "no"]
  /\ UNCHANGED <<meta, local, queue, onReplicate, trans, nextTrans, replica, writer, clock>>

\* The answer: whatever the master made of the report, the copy is kept; one
\* that cp made is now given the time of the original.
Answered(t) ==
  LET c == copier[t] IN
  /\ c.st = "reporting"
  /\ c.report = "answered"
  /\ disk' = IF c.byCp /\ disk[c.node][c.task.dst] # NoCopy
             THEN [disk EXCEPT ![c.node][c.task.dst].time = c.time] ELSE disk
  /\ copier' = [copier EXCEPT ![t].st = "done"]
  /\ UNCHANGED <<meta, local, queue, onReplicate, trans, nextTrans, replica, writer, clock>>

-----------------------------------------------------------------------------
(* The report at the master. *)

ReportUpdate(t) ==
  LET c == copier[t] IN
  /\ c.report = "sent"
  /\ meta' = [meta EXCEPT ![c.task.dst] = Updated(@, c.node, c.stamp, Change(c.task))]
  /\ copier' = [copier EXCEPT ![t].report = "updated"]
  /\ UNCHANGED <<disk, local, queue, onReplicate, trans, nextTrans, replica, writer, clock>>

ReportErase(t) ==
  LET c == copier[t] IN
  /\ c.report = "updated"
  /\ onReplicate' = IF Change(c.task) = 3 THEN onReplicate \ {c.task.dst} ELSE onReplicate
  /\ copier' = [copier EXCEPT ![t].report = "erased"]
  /\ UNCHANGED <<meta, disk, local, queue, trans, nextTrans, replica, writer, clock>>

\* updateSlave, the answer and the signal.
ReportRetire(t) ==
  LET rest == trans[t].slaves \ {copier[t].node} IN
  /\ copier[t].report = "erased"
  /\ trans' = [trans EXCEPT ![t] = IF rest = {} THEN Unlisted ELSE [@ EXCEPT !.slaves = rest]]
  /\ copier' = [copier EXCEPT ![t].report = "answered"]
  /\ replica' = Woken(queue)
  /\ UNCHANGED <<meta, disk, local, queue, onReplicate, nextTrans, writer, clock>>

-----------------------------------------------------------------------------
(* Clients. *)

\* A client opens a file for writing; the write lock keeps others out.
WriteOpen(f) ==
  /\ f \in Writable
  /\ meta[f].exists
  /\ ~writer[f].open
  /\ clock + 1 \in Stamps
  /\ writer' = [writer EXCEPT ![f] = [open |-> TRUE, wrote |-> FALSE, chain |-> meta[f].locs]]
  /\ UNCHANGED <<meta, disk, local, queue, onReplicate, trans, nextTrans, replica, copier, clock>>

\* Every slave of the chain writes.
WriteData(f) ==
  /\ writer[f].open
  /\ clock' \in NextSeconds
  /\ disk' = [s \in Slaves |->
               IF s \in writer[f].chain /\ disk[s][f] # NoCopy
               THEN [disk[s] EXCEPT ![f] = [data |-> clock', again |-> clock' = clock, time |-> clock']]
               ELSE disk[s]]
  /\ writer' = [writer EXCEPT ![f].wrote = TRUE]
  /\ UNCHANGED <<meta, local, queue, onReplicate, trans, nextTrans, replica, copier>>

\* The slaves of the chain report (2: modified); only the first of these
\* reports can change the entry.
WriteClose(f) ==
  /\ writer[f].open
  /\ \/ /\ \A s \in writer[f].chain : disk[s][f] = NoCopy
        /\ meta' = meta
     \/ \E s \in writer[f].chain :
          /\ disk[s][f] # NoCopy
          /\ meta' = [meta EXCEPT ![f] = Updated(@, s, disk[s][f].time, IF writer[f].wrote THEN 2 ELSE 0)]
  /\ writer' = [writer EXCEPT ![f] = NoWriter]
  /\ replica' = Woken(queue)
  /\ UNCHANGED <<disk, local, queue, onReplicate, trans, nextTrans, copier, clock>>

\* Command 105, with the messages to the slaves that hold the file.
Delete(f) ==
  /\ f \in Deletable
  /\ meta[f].exists
  /\ disk' = [s \in Slaves |-> IF s \in meta[f].locs THEN [disk[s] EXCEPT ![f] = NoCopy] ELSE disk[s]]
  /\ local' = [s \in Slaves |-> IF s \in meta[f].locs THEN local[s] \ {f} ELSE local[s]]
  /\ meta' = [meta EXCEPT ![f] = Absent]
  /\ UNCHANGED <<queue, onReplicate, trans, nextTrans, replica, copier, writer, clock>>

-----------------------------------------------------------------------------
ReplicaThread ==
  \/ TakeLock \/ Wait \/ Skip \/ CannotReplicate \/ createReplica
  \/ Rpc \/ RpcFails \/ AddSlave \/ Insert \/ CopyIndex \/ NoIndex

CopyThread(t) ==
  \/ CopyLocal(t) \/ CopyOpen(t) \/ Fetch(t) \/ FetchFails(t)
  \/ SendReport(t) \/ ReportFails(t) \/ Answered(t)

Reporting(t) == ReportUpdate(t) \/ ReportErase(t) \/ ReportRetire(t) \/ ReadRetired(t)

Client ==
  \/ \E c \in Copies : CopyRequest(c)
  \/ \E f \in Files : WriteOpen(f) \/ WriteData(f) \/ WriteClose(f) \/ Delete(f)

Next ==
  \/ CheckReplicas
  \/ ReplicaThread
  \/ \E t \in TransIds : CopyThread(t) \/ Reporting(t)
  \/ Client

Spec == Init /\ [][Next]_vars

\* The main loop comes round; the threads of the master and of the slaves run;
\* a client closes what it has opened.
Fairness ==
  /\ WF_vars(CheckReplicas)
  /\ WF_vars(ReplicaThread)
  /\ \A t \in TransIds : WF_vars(CopyThread(t)) /\ WF_vars(Reporting(t))
  /\ \A f \in Files : WF_vars(WriteClose(f))

FairSpec == Spec /\ Fairness

-----------------------------------------------------------------------------
(* Properties. *)

\* Every report finds its transaction in the list, however early it comes and
\* whatever came of the rpc, so that it is never answered without an update.
ReportsFindTransaction ==
  \A t \in TransIds : copier[t].report \in {"sent", "updated", "erased"} => trans[t].listed

\* A copy is being made, and the master has not said yet that it is not.
Copying(t) ==
  /\ copier[t].st \in {"started", "fetching", "installed", "reporting"}
  /\ copier[t].report \in {"no", "sent", "updated"}

\* No file is being replicated twice at the same time.
NoDoubleReplication ==
  \A t1, t2 \in TransIds :
    LET k == copier[t1].task IN
    Copying(t1) /\ Copying(t2) /\ k = copier[t2].task /\ k.src = k.dst => t1 = t2

\* What these promises rest on, beside the types.  A file that is copied with
\* its index file has a target with a name for one.
IndexNamed(k) == IndexOf(k.src) # NoFile => Index[k.dst] # NoFile

\* Between "rpc" and "index" the replica thread has a task, a node and a transaction.
ReplicaAtWork ==
  /\ \A i \in DOMAIN queue : IndexNamed(queue[i])
  /\ replica.pc \in {"rpc", "addSlave", "insert", "index"} =>
       /\ replica.task \in Task /\ replica.node \in Slaves
       /\ replica.trans \in 1 .. nextTrans - 1
       /\ ~replica.companion => IndexNamed(replica.task)
  /\ replica.pc = "index" => ~replica.companion
  /\ replica.pc = "rpc" => copier[replica.trans] = NoCopier

\* A copy thread was started with a task and a node, reports once, after its
\* copy, and its transaction is listed from before it starts until the answer.
CopiersAtWork ==
  \A t \in TransIds :
    LET c == copier[t] IN
    /\ t >= nextTrans => c.st = "none"
    /\ c.st = "none" => c = NoCopier
    /\ c.st # "none" => c.task \in Task /\ c.node \in Slaves
    /\ c.st = "fetching" => c.task.src \in Files /\ c.from \in Slaves
    /\ c.st \in {"started", "fetching", "installed"} => c.report = "no"
    /\ c.st = "reporting" => c.report # "no"
    /\ t < nextTrans /\ c.report # "answered" => trans[t].listed

\* The inductive invariant of ReportsFindTransaction.
CopyInv == TypeOK /\ ReplicaAtWork /\ CopiersAtWork

\* Nobody is still going to change what is known of f.
Settled(f) ==
  /\ ~writer[f].open
  /\ \A t \in TransIds : copier[t].task.dst = f => copier[t].st \in {"none", "done"} /\ copier[t].report \in {"no", "answered"}

\* Slave s holds the version of f that the master knows, as far as seconds tell.
Faithful(s, f) == disk[s][f].data = meta[f].stamp

\* Whatever writers and copy threads do to each other, a file keeps a location
\* that holds the version the master knows.
AFaithfulCopyRemains ==
  \A f \in Files : Settled(f) /\ meta[f].exists =>
    \E s \in meta[f].locs : Faithful(s, f) /\ disk[s][f].time = meta[f].stamp

\* A replica is recorded only if it is the version the master knows: what was
\* modified while it was copied is refused.  (Not so while a client has the
\* file open for writing, nor when a replica recorded then is copied later, nor
\* when the file was modified in a second in which something was before.)
RecordedReplicasFaithful ==
  [][\A t \in TransIds :
       LET c == copier[t]
           f == c.task.dst IN
       (/\ ReportUpdate(t)
        /\ Change(c.task) = 3
        /\ ~writer[f].open
        /\ \A s \in meta[f].locs : Faithful(s, f) /\ ~disk[s][f].again)
       => \A s \in meta'[f].locs : Faithful(s, f)]_vars

\* A replica that the master has refused, as its file was modified meanwhile,
\* does not stay on its slave when the copy thread has ended.
RefusedReplicasRemoved ==
  \A t \in TransIds :
    LET c == copier[t] IN
    c.st = "done" /\ c.report = "answered" /\ c.node \notin meta[c.task.dst].locs
      => disk[c.node][c.task.dst] = NoCopy

\* Does not hold: a replica of a file is the same as the other ones, when it is
\* recorded and they are.  What was modified twice in a second has one stamp.
ReplicasAlike ==
  [][\A t \in TransIds :
       LET f == copier[t].task.dst IN
       (/\ ReportUpdate(t)
        /\ ~writer[f].open
        /\ \A q, s \in meta[f].locs : disk[q][f] = disk[s][f])
       => \A q, s \in meta'[f].locs : disk[q][f].data = disk[s][f].data /\ disk[q][f].again = disk[s][f].again]_vars

\* Every file that has too few replicas gets them.
ReplicasMade == \A f \in Files : UnderReplicated(f) ~> ~UnderReplicated(f)
=============================================================================
