-------------------------- MODULE FileTransactions --------------------------
(***************************************************************************)
(* Opening, using, closing and deleting Sector files, with one master and  *)
(* its slaves.                                                             *)
(*                                                                         *)
(* Four ProcessWorker threads of the master (master.cpp, processEx) run    *)
(* the handlers of open (110), of a slave's report (1) and of delete (105) *)
(* concurrently.  A handler takes the metadata lock and the transaction    *)
(* lock for one call at a time, so every such call, and every rpc to a     *)
(* slave, is a step of its own here.  On a slave, every open file has a    *)
(* fileHandler thread (serv_file.cpp); the slaves of one transaction form  *)
(* a chain: the client talks to the last slave started, which forwards     *)
(* what is written to the one started before it, and so on.                *)
(*                                                                         *)
(* A transaction that is not in TransManager::m_mTransList is Unlisted.    *)
(***************************************************************************)
EXTENDS FileMeta, Chains, Sequences

CONSTANTS Files, Workers, Modes,
          NoFile, NoUser,
          InitialHolders,  \* the sets of slaves that may hold a file at the start
          Deletes,         \* TRUE: clients may delete files
          Faults,          \* what may fail: see the actions that name them
          MaxTrans         \* bound on the number of transactions

ASSUME ModesAssumption == Modes \subseteq SUBSET ModeFlags
ASSUME NamesAssumption == NoFile \notin Files /\ NoUser \notin Users /\ NoSlave \notin Slaves
ASSUME MaxTransAssumption == MaxTrans \in Nat
ASSUME HoldersAssumption == InitialHolders \subseteq SUBSET Slaves
ASSUME FaultsAssumption == Faults \subseteq {"rpc", "connect", "channel", "report"}

VARIABLES
  meta,       \* Index: file -> entry
  locks,      \* Metadata::m_mLock: file -> lock sets
  trans,      \* TransManager::m_mTransList
  nextTrans,  \* TransManager::m_iTransID
  pc, job,    \* the worker threads of the master and the request each handles
  disk,       \* slave, file -> stamp of the local copy, 0 when there is none
  reports,    \* report messages (type 1) not yet taken by a worker
  deletions   \* delete messages (type 105) not yet taken by a slave

masterVars == <<meta, locks, trans, nextTrans, pc, job>>
slaveVars == <<handler, disk, reports, deletions>>
vars == <<meta, locks, trans, nextTrans, pc, job, handler, disk, reports, deletions>>

TransIds == 1 .. MaxTrans

Transaction ==
  [listed: BOOLEAN, file: Files \cup {NoFile}, user: Users \cup {NoUser},
   mode: SUBSET ModeFlags, slaves: SUBSET Slaves]

\* What m_mTransList[id] makes of an id it does not hold, but for "listed".
Unlisted == [listed |-> FALSE, file |-> NoFile, user |-> NoUser, mode |-> {}, slaves |-> {}]

Report == [trans: TransIds, slave: Slaves, file: Files, change: 0 .. 2, stamp: Stamps]

OpenJob == [user: Users, file: Files, mode: Modes, locs: SUBSET Slaves,
            addr: Seq(Slaves), next: Nat, trans: Nat]
ReportJob == [report: Report, owner: Transaction]
DeleteJob == [file: Files]
NoJob == [file |-> NoFile]

OpenPC == {"create", "lockNew", "lock", "begin", "rpc", "addSlave"}
ReportPC == {"update", "unlock", "retire"}

HandlerStates == {"none", "started", "serving", "closing", "stopped", "reporting", "done"}

\* src is the slave the data comes from (NoSlave: the client), dst the slave
\* it is passed on to; fwd is set while written data is still to be passed on.
Handler ==
  [st: HandlerStates, file: Files \cup {NoFile}, mode: SUBSET ModeFlags,
   src: Slaves \cup {NoSlave}, dst: Slaves \cup {NoSlave}, change: 0 .. 2, fwd: BOOLEAN]

NoHandler == [st |-> "none", file |-> NoFile, mode |-> {}, src |-> NoSlave,
              dst |-> NoSlave, change |-> 0, fwd |-> FALSE]

MasterType ==
  /\ meta \in [Files -> Entry]
  /\ locks \in [Files -> LockSet]
  /\ trans \in [TransIds -> Transaction]
  /\ nextTrans \in 1 .. MaxTrans + 1

WorkerType ==
  /\ pc \in [Workers -> {"idle", "remove"} \cup OpenPC \cup ReportPC]
  /\ DOMAIN job = Workers
  /\ \A w \in Workers :
       /\ pc[w] \in OpenPC => job[w] \in OpenJob
       /\ pc[w] \in ReportPC => job[w] \in ReportJob
       /\ pc[w] = "remove" => job[w] \in DeleteJob
       /\ pc[w] = "idle" => job[w] = NoJob

SlaveType ==
  /\ handler \in [TransIds -> [Slaves -> Handler]]
  /\ disk \in [Slaves -> [Files -> Stamps \cup {0}]]
  /\ reports \subseteq Report
  /\ deletions \subseteq Slaves \X Files

\* The types of the variables of the master, of its workers and of the slaves.
TypeOK == MasterType /\ WorkerType /\ SlaveType

\* The cluster after the slaves have joined: a file is either unknown or held,
\* in one version, by the slaves of one of the sets of InitialHolders.
Stored(H, v) == IF H = {} THEN Absent ELSE [exists |-> TRUE, stamp |-> v, locs |-> H]

Init ==
  /\ meta \in [Files -> {Stored(H, v) : H \in InitialHolders, v \in Stamps}]
  /\ disk = [s \in Slaves |-> [f \in Files |-> IF s \in meta[f].locs THEN meta[f].stamp ELSE 0]]
  /\ locks = [f \in Files |-> Unlocked]
  /\ trans = [t \in TransIds |-> Unlisted]
  /\ nextTrans = 1
  /\ pc = [w \in Workers |-> "idle"]
  /\ job = [w \in Workers |-> NoJob]
  /\ handler = [t \in TransIds |-> [s \in Slaves |-> NoHandler]]
  /\ reports = {}
  /\ deletions = {}

-----------------------------------------------------------------------------
(* TransManager: each operator is one call under m_TLLock. *)

NewTransaction(f, u, mode) ==
  [listed |-> TRUE, file |-> f, user |-> u, mode |-> mode, slaves |-> {}]

addSlave(r, s) == [r EXCEPT !.listed = TRUE, !.slaves = @ \cup {s}]

\* updateSlave that never erases a transaction.
updateSlaveLazily(r, s) == [r EXCEPT !.slaves = @ \ {s}]

updateSlave(r, s) ==
  IF r.slaves \ {s} = {} THEN Unlisted ELSE [r EXCEPT !.slaves = @ \ {s}]

-----------------------------------------------------------------------------
(* The handler of open. *)

\* Workers that will still create a transaction.
Opening == {w \in Workers : pc[w] \in {"create", "lockNew", "lock", "begin"}}

Goto(w, label, j) ==
  /\ pc' = [pc EXCEPT ![w] = label]
  /\ job' = [job EXCEPT ![w] = j]

Finish(w) == Goto(w, "idle", NoJob)

NewOpenJob(u, f, mode) ==
  [user |-> u, file |-> f, mode |-> mode, locs |-> meta[f].locs,
   addr |-> <<>>, next |-> 1, trans |-> 0]

\* lookup finds nothing.  Without WRITE the open is rejected (E_NOEXIST) and
\* changes nothing.
OpenNew(w, u, f, mode) ==
  /\ pc[w] = "idle"
  /\ nextTrans + Cardinality(Opening) <= MaxTrans
  /\ ~meta[f].exists
  /\ "WRITE" \in mode
  /\ Goto(w, "create", NewOpenJob(u, f, mode))
  /\ UNCHANGED <<meta, locks, trans, nextTrans, slaveVars>>

\* lookup finds the file; its locations are copied.
OpenExisting(w, u, f, mode) ==
  /\ pc[w] = "idle"
  /\ nextTrans + Cardinality(Opening) <= MaxTrans
  /\ meta[f].exists
  /\ Goto(w, "lock", NewOpenJob(u, f, mode))
  /\ UNCHANGED <<meta, locks, trans, nextTrans, slaveVars>>

\* chooseIONode for a new file, then Index::create, whose result is ignored.
Create(w) ==
  /\ pc[w] = "create"
  /\ \E q \in chooseIONode({}, job[w].mode) :
       Goto(w, "lockNew", [job[w] EXCEPT !.addr = q])
  /\ meta' = [meta EXCEPT ![job[w].file] = Created(@)]
  /\ UNCHANGED <<locks, trans, nextTrans, slaveVars>>

\* The lock on the new file; a refusal is ignored.
LockNew(w) ==
  /\ pc[w] = "lockNew"
  /\ locks' = [locks EXCEPT ![job[w].file] = Locked(@, job[w].user, job[w].mode)]
  /\ Goto(w, "begin", job[w])
  /\ UNCHANGED <<meta, trans, nextTrans, slaveVars>>

\* The lock on a file that was there.
Lock(w) ==
  /\ pc[w] = "lock"
  /\ LockGranted(locks[job[w].file], job[w].mode)
  /\ locks' = [locks EXCEPT ![job[w].file] = Locked(@, job[w].user, job[w].mode)]
  /\ \E q \in chooseIONode(job[w].locs, job[w].mode) :
       Goto(w, "begin", [job[w] EXCEPT !.addr = q])
  /\ UNCHANGED <<meta, trans, nextTrans, slaveVars>>

\* E_BUSY.
LockBusy(w) ==
  /\ pc[w] = "lock"
  /\ ~LockGranted(locks[job[w].file], job[w].mode)
  /\ Finish(w)
  /\ UNCHANGED <<meta, locks, trans, nextTrans, slaveVars>>

\* TransManager::create.  A chain of no slaves goes straight to the reply.
Begin(w) ==
  /\ pc[w] = "begin"
  /\ nextTrans \in TransIds
  /\ trans' = [trans EXCEPT ![nextTrans] =
                 NewTransaction(job[w].file, job[w].user, job[w].mode)]
  /\ nextTrans' = nextTrans + 1
  /\ IF job[w].addr = <<>> THEN Finish(w)
     ELSE Goto(w, "rpc", [job[w] EXCEPT !.trans = nextTrans])
  /\ UNCHANGED <<meta, locks, slaveVars>>

\* The fileHandler that the i-th rpc of an open starts.
NewHandler(j) ==
  [st |-> "started", file |-> j.file, mode |-> j.mode,
   src |-> IF j.next = Len(j.addr) THEN NoSlave ELSE j.addr[j.next + 1],
   dst |-> IF j.next = 1 THEN NoSlave ELSE j.addr[j.next - 1],
   change |-> 0, fwd |-> FALSE]

\* The rpc that starts the file handler on the next slave of the chain.
Rpc(w) ==
  /\ pc[w] = "rpc"
  /\ LET j == job[w] IN
       handler' = [handler EXCEPT ![j.trans][j.addr[j.next]] = NewHandler(j)]
  /\ Goto(w, "addSlave", job[w])
  /\ UNCHANGED <<meta, locks, trans, nextTrans, disk, reports, deletions>>

\* The rpc fails before it reaches the slave.  (An rpc whose answer is lost is
\* Rpc: the handler runs either way and the code goes on in the same way.)
\* The client is sent an error and, in the end, the reply as well; the model
\* lets it take either.
RpcFails(w) ==
  /\ pc[w] = "rpc"
  /\ "rpc" \in Faults
  /\ Goto(w, "addSlave", job[w])
  /\ UNCHANGED <<meta, locks, trans, nextTrans, slaveVars>>

\* addSlave, whatever came of the rpc; after the last one, the reply.
AddSlave(w) ==
  /\ pc[w] = "addSlave"
  /\ LET j == job[w] IN
       /\ trans' = [trans EXCEPT ![j.trans] = addSlave(@, j.addr[j.next])]
       /\ IF j.next = Len(j.addr) THEN Finish(w)
          ELSE Goto(w, "rpc", [j EXCEPT !.next = @ + 1])
  /\ UNCHANGED <<meta, locks, nextTrans, slaveVars>>

-----------------------------------------------------------------------------
(* The handler of a slave's report. *)

\* The slave's rpc returns.
Answered(r) == handler' = [handler EXCEPT ![r.trans][r.slave].st = "done"]

\* retrieve() copies the transaction.
ReportRetrieve(w, r) ==
  /\ pc[w] = "idle"
  /\ r \in reports
  /\ trans[r.trans].listed
  /\ reports' = reports \ {r}
  /\ Goto(w, "update", [report |-> r, owner |-> trans[r.trans]])
  /\ UNCHANGED <<meta, locks, trans, nextTrans, handler, disk, deletions>>

\* A report of a transaction that is not listed is answered and ignored.
ReportUnknown(w, r) ==
  /\ pc[w] = "idle"
  /\ r \in reports
  /\ ~trans[r.trans].listed
  /\ reports' = reports \ {r}
  /\ Answered(r)
  /\ UNCHANGED <<masterVars, disk, deletions>>

ReportUpdate(w) ==
  /\ pc[w] = "update"
  /\ LET r == job[w].report IN
       meta' = [meta EXCEPT ![r.file] = Updated(@, r.slave, r.stamp, r.change)]
  /\ Goto(w, "unlock", job[w])
  /\ UNCHANGED <<locks, trans, nextTrans, slaveVars>>

\* The lock goes with the first report, however many slaves are still at work.
\* A blank transaction (file "") holds no lock.
ReportUnlock(w) ==
  /\ pc[w] = "unlock"
  /\ LET t == job[w].owner IN
       locks' = IF t.file = NoFile THEN locks
                ELSE [locks EXCEPT ![t.file] = UnlockedBy(@, t.user, t.mode)]
  /\ Goto(w, "retire", job[w])
  /\ UNCHANGED <<meta, trans, nextTrans, slaveVars>>

\* updateSlave, then the answer to the slave.
ReportRetire(w) ==
  /\ pc[w] = "retire"
  /\ LET r == job[w].report IN
       /\ trans' = [trans EXCEPT ![r.trans] = updateSlave(@, r.slave)]
       /\ Answered(r)
  /\ Finish(w)
  /\ UNCHANGED <<meta, locks, nextTrans, disk, reports, deletions>>

-----------------------------------------------------------------------------
(* The handler of delete, which looks at no lock. *)

\* lookup, and one message to every slave known to hold the file.
DeleteLookup(w, f) ==
  /\ Deletes
  /\ pc[w] = "idle"
  /\ meta[f].exists
  /\ deletions' = deletions \cup (meta[f].locs \X {f})
  /\ Goto(w, "remove", [file |-> f])
  /\ UNCHANGED <<meta, locks, trans, nextTrans, handler, disk, reports>>

DeleteRemove(w) ==
  /\ pc[w] = "remove"
  /\ meta' = [meta EXCEPT ![job[w].file] = Absent]
  /\ Finish(w)
  /\ UNCHANGED <<locks, trans, nextTrans, slaveVars>>

\* A slave takes a delete message.
DeleteLocal(s, f) ==
  /\ <<s, f>> \in deletions
  /\ deletions' = deletions \ {<<s, f>>}
  /\ disk' = [disk EXCEPT ![s][f] = 0]
  /\ UNCHANGED <<masterVars, handler, reports>>

-----------------------------------------------------------------------------
(* The file handler on a slave. *)

\* A handler that counts its writes where it should only note them.
TakenCounting(h) == [h EXCEPT !.change = @ + 1, !.fwd = (h.dst # NoSlave)]

\* A handler that has taken new data, which is then due to the next slave.
Taken(h) == [h EXCEPT !.change = IF h.change = 1 THEN 1 ELSE 2, !.fwd = (h.dst # NoSlave)]

\* A handler that has passed its data on, or has failed to.
Passed(h) == [h EXCEPT !.fwd = FALSE]

\* The local copy of the file of handler h is overwritten.
Overwrite(s, h) == \E v \in Stamps : disk' = [disk EXCEPT ![s][h.file] = v]

\* The data channel to the source comes up; a writer's file is created when
\* it is not there ("mode > 1": READ alone does not create).
Connect(t, s) ==
  LET h == handler[t][s] IN
  /\ h.st = "started"
  /\ IF h.mode # {"READ"} /\ disk[s][h.file] = 0
     THEN /\ Overwrite(s, h)
          /\ handler' = [handler EXCEPT ![t][s] = [h EXCEPT !.st = "serving", !.change = 1]]
     ELSE /\ handler' = [handler EXCEPT ![t][s].st = "serving"]
          /\ disk' = disk
  /\ UNCHANGED <<masterVars, reports, deletions>>

\* The source cannot be reached: the handler is gone, and reports nothing.
ConnectFails(t, s) ==
  /\ "connect" \in Faults
  /\ handler[t][s].st = "started"
  /\ handler' = [handler EXCEPT ![t][s].st = "done"]
  /\ UNCHANGED <<masterVars, disk, reports, deletions>>

Ready(t, s) == handler[t][s].st = "serving" /\ ~handler[t][s].fwd

\* The open of t has been answered.  The client, which serves the last slave
\* of the chain, sends commands only then.
Replied(t) == ~\E w \in Workers : pc[w] \in {"rpc", "addSlave"} /\ job[w].trans = t

ClientReady(t, s) == Ready(t, s) /\ handler[t][s].src = NoSlave /\ Replied(t)

\* The client writes (commands 2 and 4).
ClientWrite(t, s) ==
  LET h == handler[t][s] IN
  /\ ClientReady(t, s)
  /\ "WRITE" \in h.mode
  /\ disk[s][h.file] # 0
  /\ Overwrite(s, h)
  /\ handler' = [handler EXCEPT ![t][s] = Taken(h)]
  /\ UNCHANGED <<masterVars, reports, deletions>>

\* The next slave of the chain takes the data that slave s passes on.
Forward(t, s) ==
  LET h == handler[t][s]
      g == handler[t][h.dst] IN
  /\ h.fwd
  /\ h.dst # NoSlave
  /\ Ready(t, h.dst)
  /\ disk[h.dst][g.file] # 0
  /\ Overwrite(h.dst, g)
  /\ handler' = [handler EXCEPT ![t][s] = Passed(h), ![t][h.dst] = Taken(g)]
  /\ UNCHANGED <<masterVars, reports, deletions>>

\* The next slave does not take it: it is gone, its file is gone (it then
\* leaves its own loop), or the channel breaks.  Slave s keeps serving.
ForwardFails(t, s) ==
  LET h == handler[t][s]
      g == handler[t][h.dst] IN
  /\ h.fwd
  /\ h.dst # NoSlave
  /\ \/ /\ g.st \in {"none", "stopped", "reporting", "done"}
        /\ handler' = [handler EXCEPT ![t][s] = Passed(h)]
     \/ /\ Ready(t, h.dst)
        /\ disk[h.dst][g.file] = 0
        /\ handler' = [handler EXCEPT ![t][s] = Passed(h), ![t][h.dst] = [g EXCEPT !.st = "stopped"]]
     \/ /\ "channel" \in Faults
        /\ handler' = [handler EXCEPT ![t][s] = Passed(h)]
  /\ UNCHANGED <<masterVars, disk, reports, deletions>>

\* A command of the client finds no local file, or is not one that the mode
\* allows (response -1): the loop ends.
CommandFails(t, s) ==
  LET h == handler[t][s] IN
  /\ ClientReady(t, s)
  /\ disk[s][h.file] = 0 \/ ~(LockKinds \subseteq h.mode)
  /\ handler' = [handler EXCEPT ![t][s].st = "stopped"]
  /\ UNCHANGED <<masterVars, disk, reports, deletions>>

\* Command 5 that does not wait for the next slave's answer.
CloseAtOnce(t, s) ==
  LET h == handler[t][s] IN
  /\ \/ ClientReady(t, s)
     \/ Ready(t, s) /\ h.src # NoSlave /\ handler[t][h.src].st = "stopped"
  /\ handler' = [handler EXCEPT ![t][s].st = "stopped"]
  /\ UNCHANGED <<masterVars, disk, reports, deletions>>

\* Command 5, from the client or from the slave before it in the chain.
Close(t, s) ==
  LET h == handler[t][s] IN
  /\ \/ ClientReady(t, s)
     \/ Ready(t, s) /\ h.src # NoSlave /\ handler[t][h.src].st = "closing"
  /\ handler' = [handler EXCEPT ![t][s].st = IF h.dst = NoSlave THEN "stopped" ELSE "closing"]
  /\ UNCHANGED <<masterVars, disk, reports, deletions>>

\* The next slave has answered command 5, or cannot.
CloseAcked(t, s) ==
  LET h == handler[t][s] IN
  /\ h.st = "closing"
  /\ h.dst # NoSlave
  /\ handler[t][h.dst].st \in {"none", "done"} \/ "channel" \in Faults
  /\ handler' = [handler EXCEPT ![t][s].st = "stopped"]
  /\ UNCHANGED <<masterVars, disk, reports, deletions>>

\* The channel to the source breaks; the next slave is told nothing.
Disconnect(t, s) ==
  /\ "channel" \in Faults
  /\ handler[t][s].st = "serving"
  /\ handler' = [handler EXCEPT ![t][s].st = "stopped", ![t][s].fwd = FALSE]
  /\ UNCHANGED <<masterVars, disk, reports, deletions>>

\* Slave::report: a file that is gone is not reported, and then nothing is.
SendReport(t, s) ==
  LET h == handler[t][s] IN
  /\ h.st = "stopped"
  /\ disk[s][h.file] # 0
  /\ reports' = reports \cup {[trans |-> t, slave |-> s, file |-> h.file,
                               change |-> h.change, stamp |-> disk[s][h.file]]}
  /\ handler' = [handler EXCEPT ![t][s].st = "reporting"]
  /\ UNCHANGED <<masterVars, disk, deletions>>

\* Nothing to report, or no master to report to; the result is ignored.
ReportNothing(t, s) ==
  LET h == handler[t][s] IN
  /\ h.st = "stopped"
  /\ disk[s][h.file] = 0 \/ "report" \in Faults
  /\ handler' = [handler EXCEPT ![t][s].st = "done"]
  /\ UNCHANGED <<masterVars, disk, reports, deletions>>

-----------------------------------------------------------------------------
OpenStep(w) ==
  \/ \E u \in Users, f \in Files, mode \in Modes : OpenNew(w, u, f, mode)
  \/ \E u \in Users, f \in Files, mode \in Modes : OpenExisting(w, u, f, mode)
  \/ Create(w) \/ LockNew(w) \/ Lock(w) \/ LockBusy(w)
  \/ Begin(w) \/ Rpc(w) \/ RpcFails(w) \/ AddSlave(w)

ReportStep(w) ==
  \/ \E r \in reports : ReportRetrieve(w, r)
  \/ \E r \in reports : ReportUnknown(w, r)
  \/ ReportUpdate(w) \/ ReportUnlock(w) \/ ReportRetire(w)

DeleteStep(w) == (\E f \in Files : DeleteLookup(w, f)) \/ DeleteRemove(w)

HandlerStep(t, s) ==
  \/ Connect(t, s) \/ ConnectFails(t, s)
  \/ ClientWrite(t, s) \/ Forward(t, s) \/ ForwardFails(t, s)
  \/ CommandFails(t, s) \/ Close(t, s) \/ CloseAcked(t, s)
  \/ Disconnect(t, s) \/ SendReport(t, s) \/ ReportNothing(t, s)

Next ==
  \/ \E w \in Workers : OpenStep(w) \/ ReportStep(w) \/ DeleteStep(w)
  \/ \E s \in Slaves, f \in Files : DeleteLocal(s, f)
  \/ \E t \in TransIds, s \in Slaves : HandlerStep(t, s)

Spec == Init /\ [][Next]_vars

\* A worker takes the report of slave s about transaction t from the job queue.
TakeReport(t, s) ==
  \E r \in reports :
    /\ r.trans = t /\ r.slave = s
    /\ \E w \in Workers : ReportRetrieve(w, r) \/ ReportUnknown(w, r)

\* A worker goes on with the request it has taken.
Proceed(w) ==
  \/ Create(w) \/ LockNew(w) \/ Lock(w) \/ LockBusy(w)
  \/ Begin(w) \/ Rpc(w) \/ AddSlave(w)
  \/ ReportUpdate(w) \/ ReportUnlock(w) \/ ReportRetire(w) \/ DeleteRemove(w)

\* The threads of the master and of the slaves are scheduled, a report is
\* taken in its turn however many other requests there are (the job queue is
\* first in, first out), and a client that has its file open closes it in the
\* end, however much it writes before.
Fairness ==
  /\ \A w \in Workers : WF_vars(Proceed(w))
  /\ \A t \in TransIds, s \in Slaves :
       /\ WF_vars(Connect(t, s))
       /\ WF_vars(Forward(t, s) \/ ForwardFails(t, s))
       /\ SF_vars(Close(t, s))
       /\ WF_vars(CloseAcked(t, s))
       /\ WF_vars(SendReport(t, s) \/ ReportNothing(t, s))
       /\ SF_vars(TakeReport(t, s))

FairSpec == Spec /\ Fairness

-----------------------------------------------------------------------------
(* Properties. *)

LockedBy(f, k, u) == u \in locks[f][k]

\* Every key in a lock set belongs to somebody who will take it out again: a
\* transaction of that user on that file and in that mode is listed, or an
\* open of the user is about to list it.  (Locks are released only by reports
\* of listed transactions, so a key without an owner would stay for ever.)
LockHasOwner ==
  \A f \in Files, k \in LockKinds, u \in Users :
    LockedBy(f, k, u) =>
      \/ \E t \in TransIds :
           trans[t].listed /\ trans[t].file = f /\ trans[t].user = u /\ k \in trans[t].mode
      \/ \E w \in Workers :
           pc[w] = "begin" /\ job[w].file = f /\ job[w].user = u /\ k \in job[w].mode

\* A report about a transaction that create() has numbered, by a slave on which
\* the rpc of its open has started a handler.
Solicited(r) == r.trans < nextTrans /\ handler[r.trans][r.slave].st # "none"

\* The ids and the position in the chain that a worker uses.
WorkerInUse(w) ==
  /\ w \in Opening => job[w].next = 1
  /\ pc[w] \in {"rpc", "addSlave"} =>
       job[w].trans \in TransIds /\ job[w].trans < nextTrans /\ job[w].next \in 1 .. Len(job[w].addr)
  /\ pc[w] \in ReportPC => Solicited(job[w].report)

\* What makes LockHasOwner inductive.  Ids in use were handed out by create().
IdsInUse ==
  /\ \A w \in Workers : WorkerInUse(w)
  /\ \A r \in reports : Solicited(r)
  /\ \A t \in TransIds : trans[t].listed => t < nextTrans
  /\ \A t \in TransIds, s \in Slaves :
       handler[t][s].st # "none" => t < nextTrans /\ handler[t][s].file \in Files

\* The copy that retrieve() made stays true of the transaction, unless the
\* transaction has been erased meanwhile (and perhaps made again, blank).
OwnerCurrent ==
  \A w \in Workers : pc[w] \in {"update", "unlock"} =>
    LET tr == trans[job[w].report.trans]
        o == job[w].owner
    IN tr.file # NoFile => tr.file = o.file /\ tr.user = o.user /\ tr.mode = o.mode

HoldsKey(t, f, k, u) ==
  /\ trans[t].listed /\ trans[t].file = f /\ trans[t].user = u /\ k \in trans[t].mode
  /\ \A w \in Workers : pc[w] = "retire" => job[w].report.trans # t

AboutToList(w, f, k, u) ==
  pc[w] = "begin" /\ job[w].file = f /\ job[w].user = u /\ k \in job[w].mode

\* The owner of a key has not been unlocked yet: no worker is between the
\* unlock and the updateSlave of a report about it.
KeysOwned ==
  \A f \in Files, k \in LockKinds, u \in Users :
    LockedBy(f, k, u) =>
      \/ \E t \in TransIds : HoldsKey(t, f, k, u)
      \/ \E w \in Workers : AboutToList(w, f, k, u)

\* The inductive invariant of the master's transactions and locks: a key that
\* is still in a lock set is owned by a transaction no report has unlocked.
IInv == TypeOK /\ IdsInUse /\ OwnerCurrent /\ KeysOwned

Serving(t, s, f, k) ==
  handler[t][s].st = "serving" /\ handler[t][s].file = f /\ k \in handler[t][s].mode

\* Two transactions never have handlers that can both write the same file.
OneWriter ==
  \A f \in Files, t1, t2 \in TransIds, s1, s2 \in Slaves :
    Serving(t1, s1, f, "WRITE") /\ Serving(t2, s2, f, "WRITE") => t1 = t2

\* While a handler may write a file, the file's write lock is held.
WriterHoldsLock ==
  \A f \in Files, t \in TransIds, s \in Slaves :
    Serving(t, s, f, "WRITE") => locks[f]["WRITE"] # {}

\* No handler, message or worker is still going to say something about f.
Settled(f) ==
  /\ \A t \in TransIds, s \in Slaves :
       handler[t][s].file = f => handler[t][s].st \in {"none", "done"}
  /\ \A r \in reports : r.file # f
  /\ \A d \in deletions : d[2] # f
  /\ \A w \in Workers : pc[w] # "idle" =>
       (IF pc[w] \in ReportPC THEN job[w].report.file ELSE job[w].file) # f

\* When all work on a file is over, every location the master knows holds the
\* version the master knows.
SettledMetaAccurate ==
  \A f \in Files : Settled(f) =>
    \A s \in meta[f].locs : disk[s][f] = meta[f].stamp

\* Every file has one copy, nothing is deleted, and reports come through.
OneCopy ==
  /\ \A H \in InitialHolders : \E s \in Slaves : H = {s}
  /\ Deletes = FALSE /\ "report" \notin Faults

\* What makes these three inductive for files with one copy.  A handler that has not
\* had its answer, and a worker that has a report of transaction t at hand:
AtWork(t, s) == handler[t][s].st \notin {"none", "done"}
Handles(w, t, places) == pc[w] \in places /\ job[w].report.trans = t

\* The one copy of each file stays where it is, and an open finds it there.
CopyAt(f, s) == meta[f].exists /\ meta[f].locs = {s} /\ disk[s][f] # 0
FindsCopy(w) ==
  /\ pc[w] \notin {"create", "lockNew", "remove"}
  /\ pc[w] = "lock" => job[w].locs = meta[job[w].file].locs
  /\ pc[w] \in {"begin", "rpc", "addSlave"} =>
       \E s \in Slaves : meta[job[w].file].locs = {s} /\ job[w].addr = <<s>>
CopiesStay ==
  /\ \A f \in Files : \E s \in Slaves : CopyAt(f, s)
  /\ deletions = {}
  /\ \A w \in Workers : FindsCopy(w)

\* A transaction has one handler, on the slave with the copy, which forwards nothing; it is
\* started once, and until it has its answer the transaction is listed as it was made.
Listed(t, f, mode) == trans[t].listed /\ trans[t].file = f /\ trans[t].mode = mode
Alone(h) ==
  /\ h.src = NoSlave /\ h.dst = NoSlave /\ ~h.fwd
  /\ h.change \in {0, 2} /\ h.st # "closing"
  /\ h.change = 2 => "WRITE" \in h.mode /\ h.st # "started"
OneHandler ==
  /\ \A t \in TransIds, s \in Slaves : handler[t][s].st # "none" =>
       /\ Alone(handler[t][s]) /\ meta[handler[t][s].file].locs = {s}
       /\ \A s2 \in Slaves : handler[t][s2].st # "none" => s2 = s
       /\ AtWork(t, s) => Listed(t, handler[t][s].file, handler[t][s].mode)
  /\ \A w \in Workers : pc[w] = "rpc" =>
       /\ Listed(job[w].trans, job[w].file, job[w].mode)
       /\ \A s \in Slaves : handler[job[w].trans][s].st = "none"
       /\ \A w2 \in Workers : pc[w2] = "rpc" /\ job[w2].trans = job[w].trans => w2 = w

\* A handler that has not been started has nothing to pass on.
Unstarted == \A t \in TransIds, s \in Slaves : handler[t][s].st = "none" => ~handler[t][s].fwd

\* What is reported is what the handler has done to the copy.
ReportTrue(r) ==
  LET h == handler[r.trans][r.slave]
  IN h.st = "reporting" /\ r.file = h.file /\ r.change = h.change
StampTrue(r) == r.change = 2 => r.stamp = disk[r.slave][r.file]
OwnerTrue(o, r) ==
  LET h == handler[r.trans][r.slave]
  IN o.file = h.file /\ o.mode = h.mode

\* A handler sends one report, which one worker takes, and it is true.
OneReport ==
  /\ \A r \in reports :
       /\ ReportTrue(r) /\ StampTrue(r)
       /\ \A r2 \in reports : r2.trans = r.trans => r2 = r
       /\ \A w \in Workers : ~Handles(w, r.trans, ReportPC)
  /\ \A w \in Workers : pc[w] \in ReportPC =>
       /\ ReportTrue(job[w].report) /\ OwnerTrue(job[w].owner, job[w].report)
       /\ pc[w] = "update" => StampTrue(job[w].report)
       /\ \A w2 \in Workers : Handles(w2, job[w].report.trans, ReportPC) => w2 = w

\* A worker that has the write lock for a transaction that is not started, and a
\* transaction whose handler may write, or has written and has not been unlocked.
OpensToWrite(w, f) == pc[w] \in {"begin", "rpc"} /\ job[w].file = f /\ "WRITE" \in job[w].mode
Writes(t, f) ==
  /\ \E s \in Slaves : AtWork(t, s) /\ handler[t][s].file = f /\ "WRITE" \in handler[t][s].mode
  /\ \A w \in Workers : ~Handles(w, t, {"retire"})

\* From its open to its unlock a writer is alone with its file, and has it locked.
WritersExclude ==
  \A f \in Files :
    /\ \A w \in Workers : OpensToWrite(w, f) =>
         /\ locks[f]["WRITE"] # {}
         /\ \A w2 \in Workers : OpensToWrite(w2, f) => w2 = w
         /\ \A t \in TransIds : ~Writes(t, f)
    /\ \A t \in TransIds : Writes(t, f) =>
         /\ locks[f]["WRITE"] # {}
         /\ \A t2 \in TransIds : Writes(t2, f) => t2 = t

\* A copy that differs from the master's entry has been written by a handler whose
\* report has not been taken into the entry.
Unreported(t, s, f) ==
  /\ AtWork(t, s) /\ handler[t][s].file = f /\ handler[t][s].change = 2
  /\ \A w \in Workers : ~Handles(w, t, {"unlock", "retire"})
WritesReported ==
  \A f \in Files, s \in Slaves : s \in meta[f].locs =>
    disk[s][f] = meta[f].stamp \/ \E t \in TransIds : Unreported(t, s, f)

OneCopyInv == CopiesStay /\ OneHandler /\ OneReport /\ WritersExclude /\ WritesReported

\* A file with one copy has one writer, who holds its lock, and when all is over
\* the master knows the copy as it is (the lock and the report of case 1).
OneCopySafe ==
  /\ OneCopyInv /\ Unstarted
  /\ OneWriter /\ WriterHoldsLock /\ SettledMetaAccurate

\* Every rpc starts its handler, no channel breaks, nothing is deleted, and who writes
\* may read as well.
Unbroken ==
  /\ Deletes = FALSE /\ Faults \cap {"rpc", "channel"} = {}
  /\ \A mode \in Modes : "WRITE" \in mode => "READ" \in mode

\* What makes ChainClosedTailFirst inductive then.  A chain of several slaves is a
\* writer's, and has no slave twice.
IsChain(addr, mode) ==
  /\ Len(addr) > 1 => LockKinds \subseteq mode
  /\ \A i, k \in 1 .. Len(addr) : i # k => addr[i] # addr[k]

\* Position i of the chain of worker w, whose handlers it starts one after the other.
StillToStart(w, i) == i > job[w].next \/ (i = job[w].next /\ pc[w] = "rpc")

\* The worker that starts the handlers of a transaction starts each once.
ChainsStarted ==
  \A w \in Workers :
    /\ pc[w] \in {"lockNew", "begin", "rpc", "addSlave"} => IsChain(job[w].addr, job[w].mode)
    /\ pc[w] \in {"rpc", "addSlave"} =>
         /\ \A i \in 1 .. Len(job[w].addr) :
              handler[job[w].trans][job[w].addr[i]].st = "none" <=> StillToStart(w, i)
         /\ \A w2 \in Workers : pc[w2] \in {"rpc", "addSlave"} /\ job[w2].trans = job[w].trans => w2 = w

\* A handler that passes data on has its file and a next slave, which was started before.
ChainsServe ==
  \A t \in TransIds, s \in Slaves : handler[t][s].st # "none" /\ handler[t][s].dst # NoSlave =>
    /\ LockKinds \subseteq handler[t][s].mode
    /\ handler[t][handler[t][s].dst].st # "none"
    /\ handler[t][s].st = "serving" => disk[s][handler[t][s].file] # 0

ChainsClose == \A t \in TransIds, s \in Slaves : ClosesAfterNext(t, s)

ChainInv == deletions = {} /\ ChainsStarted /\ ChainsServe /\ ChainsClose

\* Every listed transaction leaves the list.
TransactionsRetired == \A t \in TransIds : trans[t].listed ~> ~trans[t].listed

\* Every write lock is released.
WriteLockReleased ==
  \A f \in Files, u \in Users : LockedBy(f, "WRITE", u) ~> ~LockedBy(f, "WRITE", u)
=============================================================================
