----------------------- MODULE FileTransactionsProofs -----------------------
(***************************************************************************)
(* Proofs that the state of FileTransactions keeps its type, and that a    *)
(* key in a lock set always has an owner, for any number of slaves, users, *)
(* files, workers and transactions, whatever fails; that a file with one   *)
(* copy has one writer at a time, after whose report the master's entry is *)
(* the copy's version; and that the slaves of a chain stop serving from    *)
(* its tail, unless a channel breaks.                                      *)
(***************************************************************************)
EXTENDS FileTransactions, FiniteSetTheorems, TLAPS

USE DEF TransIds

-----------------------------------------------------------------------------
(* The operators of FileMeta. *)

\* create() and update() keep an entry an entry.
LEMMA EntryType ==
  ASSUME NEW e \in Entry, NEW s \in Slaves, NEW v \in Stamps \cup {0}, NEW change \in 0 .. 3
  PROVE  Created(e) \in Entry /\ Updated(e, s, v, change) \in Entry
  BY DEF Entry, Created, Updated

\* lock() and unlock() keep lock sets lock sets.
LEMMA LockType ==
  ASSUME NEW l \in LockSet, NEW u \in Users, NEW mode \in SUBSET ModeFlags
  PROVE  Locked(l, u, mode) \in LockSet /\ UnlockedBy(l, u, mode) \in LockSet
  BY DEF LockSet, Locked, UnlockedBy, LockKinds

\* A lock call adds nothing but the caller's key, in the kinds of the mode.
LEMMA LockedKeys ==
  ASSUME NEW l \in LockSet, NEW u \in Users, NEW mode \in SUBSET ModeFlags,
         NEW k \in LockKinds, NEW x \in Locked(l, u, mode)[k]
  PROVE  x \in l[k] \/ (x = u /\ k \in mode)
  BY DEF LockSet, Locked, LockKinds

\* chooseIONode returns sequences of slaves.
LEMMA ChainType ==
  ASSUME NEW locs \in SUBSET Slaves, NEW mode \in SUBSET ModeFlags,
         NEW q \in chooseIONode(locs, mode)
  PROVE  q \in Seq(Slaves)
<1>1. IsFiniteSet(locs) /\ IsFiniteSet(Slaves)
  BY SlavesAssumption, FS_Subset
<1>2. Cardinality(locs) \in Nat /\ Cardinality(Slaves) \in Nat
  BY <1>1, FS_CardinalityType
<1>3. ASSUME NEW S \in SUBSET Slaves, NEW n \in Nat, NEW p \in InjectiveChains(n, S)
      PROVE  p \in Seq(Slaves)
  <2>1. p \in [1 .. n -> S]
    BY <1>3 DEF InjectiveChains
  <2>2. p \in Seq(S)
    BY <2>1
  <2> QED BY <2>2
<1>4. ChainLength(Cardinality(Slaves)) \in Nat
  BY <1>2, ReplicaNumAssumption DEF ChainLength
<1>5. CASE locs # {} /\ "WRITE" \notin mode
  <2>1. PICK n \in locs : q = <<n>>
    BY <1>5 DEF chooseIONode, HolderChains
  <2> QED BY <2>1
<1>6. CASE locs # {} /\ "WRITE" \in mode
  <2>1. q \in InjectiveChains(Cardinality(locs), locs)
    BY <1>6 DEF chooseIONode, HolderChains
  <2> QED BY <2>1, <1>2, <1>3
<1>7. CASE locs = {} /\ "WRITE" \notin mode
  <2>1. q = <<>>
    BY <1>7 DEF chooseIONode, NewFileChains
  <2> QED BY <2>1
<1>8. CASE locs = {} /\ "WRITE" \in mode /\ "HiRELIABLE" \notin mode
  <2>1. PICK n \in Slaves : q = <<n>>
    BY <1>8 DEF chooseIONode, NewFileChains
  <2> QED BY <2>1
<1>9. CASE locs = {} /\ "WRITE" \in mode /\ "HiRELIABLE" \in mode
  <2>1. q \in InjectiveChains(ChainLength(Cardinality(Slaves)), Slaves)
    BY <1>9 DEF chooseIONode, NewFileChains
  <2> QED BY <2>1, <1>3, <1>4
<1> QED BY <1>5, <1>6, <1>7, <1>8, <1>9

-----------------------------------------------------------------------------
(* The master. *)

\* What a worker's change of label does, and what it leaves alone.
LEMMA GotoFrame ==
  ASSUME WorkerType, NEW w \in Workers, NEW label, NEW j, Goto(w, label, j)
  PROVE  /\ pc'[w] = label /\ job'[w] = j
         /\ \A x \in Workers \ {w} : pc'[x] = pc[x] /\ job'[x] = job[x]
         /\ DOMAIN pc' = Workers /\ DOMAIN job' = Workers
         /\ pc' = [pc EXCEPT ![w] = label]
  BY DEF WorkerType, Goto

\* A worker that goes on with a job of the right type keeps the workers typed.
LEMMA GotoType ==
  ASSUME WorkerType, NEW w \in Workers, NEW label, NEW j, Goto(w, label, j),
         \/ label \in OpenPC /\ j \in OpenJob
         \/ label \in ReportPC /\ j \in ReportJob
         \/ label = "remove" /\ j \in DeleteJob
         \/ label = "idle" /\ j = NoJob
  PROVE  WorkerType'
<1>1. pc' \in [Workers -> {"idle", "remove"} \cup OpenPC \cup ReportPC]
  BY DEF WorkerType, Goto
<1>2. ASSUME NEW x \in Workers
      PROVE  /\ pc'[x] \in OpenPC => job'[x] \in OpenJob
             /\ pc'[x] \in ReportPC => job'[x] \in ReportJob
             /\ pc'[x] = "remove" => job'[x] \in DeleteJob
             /\ pc'[x] = "idle" => job'[x] = NoJob
  <2>1. CASE x = w
    BY <2>1, GotoFrame DEF OpenPC, ReportPC
  <2>2. CASE x # w
    BY <2>2, GotoFrame DEF WorkerType
  <2> QED BY <2>1, <2>2
<1> QED BY <1>1, <1>2, GotoFrame DEF WorkerType

\* The initial states satisfy the invariant.
LEMMA InitIInv == Init => IInv
<1> SUFFICES ASSUME Init PROVE IInv
  OBVIOUS
<1>1. meta \in [Files -> Entry]
  <2>1. \A H \in InitialHolders, v \in Stamps : Stored(H, v) \in Entry
    BY HoldersAssumption DEF Stored, Absent, Entry
  <2> QED BY <2>1 DEF Init
<1>2. MasterType
  <2>1. Unlocked \in LockSet
    BY DEF Unlocked, LockSet
  <2>2. Unlisted \in Transaction
    BY DEF Unlisted, Transaction
  <2> QED BY <1>1, <2>1, <2>2, MaxTransAssumption DEF Init, MasterType
<1>3. WorkerType
  BY DEF Init, WorkerType, OpenPC, ReportPC
<1>4. SlaveType
  <2>1. NoHandler \in Handler
    BY DEF NoHandler, Handler, HandlerStates
  <2>2. disk \in [Slaves -> [Files -> Stamps \cup {0}]]
    BY <1>1 DEF Init, Entry
  <2> QED BY <2>1, <2>2 DEF Init, SlaveType
<1>5. IdsInUse
  BY <1>2 DEF Init, IdsInUse, WorkerInUse, Opening, ReportPC, Unlisted, NoHandler
<1>6. OwnerCurrent
  BY DEF Init, OwnerCurrent
<1>7. KeysOwned
  BY DEF Init, KeysOwned, LockedBy, Unlocked
<1> QED BY <1>2, <1>3, <1>4, <1>5, <1>6, <1>7 DEF IInv, TypeOK

-----------------------------------------------------------------------------
(* What is in use stays in use while no handler is forgotten. *)

NoneForgotten ==
  \A t \in TransIds, s \in Slaves : handler[t][s].st # "none" => handler'[t][s].st # "none"

\* A solicited report stays solicited.
LEMMA SolicitedFrame ==
  ASSUME IInv, NEW r \in Report, Solicited(r), NoneForgotten, nextTrans' \in {nextTrans, nextTrans + 1}
  PROVE  Solicited(r)'
  BY MaxTransAssumption DEF IInv, TypeOK, MasterType, Solicited, Report, NoneForgotten

\* What a worker uses stays in use while other threads take steps.
LEMMA WorkerFrame ==
  ASSUME IInv, NEW w \in Workers, pc'[w] = pc[w], job'[w] = job[w],
         NoneForgotten, nextTrans' \in {nextTrans, nextTrans + 1}
  PROVE  WorkerInUse(w)'
<1>1. MasterType /\ WorkerType /\ WorkerInUse(w)
  BY DEF IInv, TypeOK, IdsInUse
<1>2. pc[w] \in ReportPC => Solicited(job[w].report)'
  <2>1. pc[w] \in ReportPC => job[w].report \in Report /\ Solicited(job[w].report)
    BY <1>1 DEF WorkerType, WorkerInUse, ReportJob
  <2>2. pc[w] \in ReportPC => \E r \in Report : r = job[w].report /\ r = job'[w].report /\ Solicited(r)'
    BY <2>1, SolicitedFrame
  <2> QED BY <2>2 DEF Solicited
<1>3. pc[w] \in {"rpc", "addSlave"} => job[w].trans \in TransIds /\ job[w].trans < nextTrans'
  BY <1>1, MaxTransAssumption DEF WorkerInUse, MasterType
<1> QED BY <1>1, <1>2, <1>3 DEF WorkerInUse, Opening

\* The reports on their way stay solicited.
LEMMA ReportsFrame ==
  ASSUME IInv, reports' \subseteq reports, NoneForgotten, nextTrans' \in {nextTrans, nextTrans + 1}
  PROVE  (\A r \in reports : Solicited(r))'
  BY SolicitedFrame DEF IInv, TypeOK, SlaveType, IdsInUse

-----------------------------------------------------------------------------
(* A step of one worker that leaves locks and transactions alone. *)

\* A key keeps its owner when no lock, transaction or opening worker changes.
LEMMA KeysFrame ==
  ASSUME IInv, NEW w \in Workers, NEW label, NEW j, Goto(w, label, j),
         UNCHANGED <<locks, trans>>, pc[w] # "begin", label # "retire"
  PROVE  KeysOwned'
<1>1. WorkerType
  BY DEF IInv, TypeOK
<1> SUFFICES ASSUME NEW f \in Files, NEW k \in LockKinds, NEW u \in Users, LockedBy(f, k, u)'
             PROVE  \/ \E t \in TransIds : HoldsKey(t, f, k, u)'
                    \/ \E x \in Workers : AboutToList(x, f, k, u)'
  BY DEF KeysOwned
<1>2. LockedBy(f, k, u)
  BY DEF LockedBy
<1>3. CASE \E t \in TransIds : HoldsKey(t, f, k, u)
  <2>1. PICK t \in TransIds : HoldsKey(t, f, k, u)
    BY <1>3
  <2>2. HoldsKey(t, f, k, u)'
    BY <2>1, <1>1, GotoFrame DEF HoldsKey
  <2> QED BY <2>2
<1>4. CASE \E x \in Workers : AboutToList(x, f, k, u)
  <2>1. PICK x \in Workers : AboutToList(x, f, k, u)
    BY <1>4
  <2>2. AboutToList(x, f, k, u)'
    BY <2>1, <1>1, GotoFrame DEF AboutToList
  <2> QED BY <2>2
<1> QED BY <1>2, <1>3, <1>4 DEF IInv, KeysOwned

\* The copies of transactions stay current when no transaction changes.
LEMMA OwnerFrame ==
  ASSUME IInv, NEW w \in Workers, NEW label, NEW j, Goto(w, label, j),
         UNCHANGED trans, label \notin {"update", "unlock"}
  PROVE  OwnerCurrent'
<1>1. WorkerType
  BY DEF IInv, TypeOK
<1> QED BY <1>1, GotoFrame DEF IInv, OwnerCurrent

\* Ids stay in use when a worker only changes its label and its job.
LEMMA IdsFrame ==
  ASSUME IInv, NEW w \in Workers, NEW label, NEW j, Goto(w, label, j),
         UNCHANGED <<trans, nextTrans, handler>>, reports' \subseteq reports, WorkerInUse(w)'
  PROVE  IdsInUse'
<1>1. WorkerType /\ MasterType
  BY DEF IInv, TypeOK
<1>2. NoneForgotten /\ nextTrans' \in {nextTrans, nextTrans + 1}
  BY DEF NoneForgotten
<1>3. \A x \in Workers : WorkerInUse(x)'
  BY <1>1, <1>2, GotoFrame, WorkerFrame
<1> QED BY <1>2, <1>3, ReportsFrame DEF IInv, IdsInUse

-----------------------------------------------------------------------------
(* The handler of open. *)

\* Every step of the handler of open keeps the invariant.
LEMMA OpenKeepsIInv ==
  ASSUME IInv, NEW w \in Workers, OpenStep(w)
  PROVE  IInv'
<1>1. MasterType /\ WorkerType /\ SlaveType
  BY DEF IInv, TypeOK
<1> USE <1>1
<1>2. ASSUME NEW f \in Files PROVE meta[f] \in Entry /\ meta[f].locs \in SUBSET Slaves
  BY <1>2 DEF MasterType, Entry
<1>3. ASSUME NEW u \in Users, NEW f \in Files, NEW mode \in Modes,
             OpenNew(w, u, f, mode) \/ OpenExisting(w, u, f, mode)
      PROVE  IInv'
  <2>1. NewOpenJob(u, f, mode) \in OpenJob
    BY <1>2 DEF NewOpenJob, OpenJob
  <2>2. PICK label \in {"create", "lock"} : Goto(w, label, NewOpenJob(u, f, mode))
    BY <1>3 DEF OpenNew, OpenExisting
  <2>3. pc[w] = "idle" /\ UNCHANGED <<meta, locks, trans, nextTrans, slaveVars>>
    BY <1>3 DEF OpenNew, OpenExisting
  <2>4. TypeOK'
    <3>1. WorkerType'
      BY <2>1, <2>2, GotoType DEF OpenPC
    <3> QED BY <2>3, <3>1 DEF TypeOK, MasterType, SlaveType, slaveVars
  <2>5. IdsInUse'
    <3>1. WorkerInUse(w)'
      BY <2>2, GotoFrame DEF WorkerInUse, ReportPC, NewOpenJob
    <3> QED BY <2>2, <2>3, <3>1, IdsFrame DEF slaveVars
  <2>6. OwnerCurrent' /\ KeysOwned'
    BY <2>2, <2>3, OwnerFrame, KeysFrame
  <2> QED BY <2>4, <2>5, <2>6 DEF IInv
<1>4. CASE Create(w)
  <2>1. job[w] \in OpenJob
    BY <1>4 DEF Create, WorkerType, OpenPC
  <2>2. PICK q \in chooseIONode({}, job[w].mode) : Goto(w, "lockNew", [job[w] EXCEPT !.addr = q])
    BY <1>4 DEF Create
  <2>3. [job[w] EXCEPT !.addr = q] \in OpenJob
    <3>1. job[w].mode \in SUBSET ModeFlags
      BY <2>1, ModesAssumption DEF OpenJob
    <3>2. q \in Seq(Slaves)
      BY <3>1, ChainType
    <3> QED BY <2>1, <3>2 DEF OpenJob
  <2>4. TypeOK'
    <3>1. WorkerType'
      BY <2>2, <2>3, GotoType DEF OpenPC
    <3>2. meta' \in [Files -> Entry]
      BY <1>4 DEF Create, MasterType, Created, Entry
    <3> QED BY <1>4, <3>1, <3>2 DEF Create, TypeOK, MasterType, SlaveType, slaveVars
  <2>5. IdsInUse'
    <3>1. [job[w] EXCEPT !.addr = q].next = 1
      BY <1>4, <2>1 DEF Create, IInv, IdsInUse, WorkerInUse, Opening, OpenJob
    <3>2. WorkerInUse(w)'
      <4>1. pc'[w] = "lockNew" /\ job'[w] = [job[w] EXCEPT !.addr = q]
        BY <2>2, GotoFrame
      <4>2. job'[w].next = 1
        BY <4>1, <3>1, <2>1 DEF OpenJob
      <4> QED BY <4>1, <4>2 DEF WorkerInUse, ReportPC
    <3> QED BY <1>4, <2>2, <3>2, IdsFrame DEF Create, slaveVars
  <2>6. OwnerCurrent' /\ KeysOwned'
    BY <1>4, <2>2, OwnerFrame, KeysFrame DEF Create
  <2> QED BY <2>4, <2>5, <2>6 DEF IInv
<1>5. ASSUME LockNew(w) \/ Lock(w) PROVE IInv'
  <2>1. job[w] \in OpenJob /\ job[w].mode \in SUBSET ModeFlags
    BY <1>5, ModesAssumption DEF LockNew, Lock, WorkerType, OpenPC, OpenJob
  <2> DEFINE f == job[w].file
             u == job[w].user
             mode == job[w].mode
  <2>2. PICK q \in Seq(Slaves) : Goto(w, "begin", [job[w] EXCEPT !.addr = q])
    <3>1. CASE LockNew(w)
      <4>1. job[w] = [job[w] EXCEPT !.addr = job[w].addr] /\ job[w].addr \in Seq(Slaves)
        BY <2>1 DEF OpenJob
      <4> QED BY <3>1, <4>1 DEF LockNew
    <3>2. CASE Lock(w)
      <4>1. PICK q \in chooseIONode(job[w].locs, mode) : Goto(w, "begin", [job[w] EXCEPT !.addr = q])
        BY <3>2 DEF Lock
      <4>2. q \in Seq(Slaves)
        BY <2>1, <4>1, ChainType DEF OpenJob
      <4> QED BY <4>1, <4>2
    <3> QED BY <1>5, <3>1, <3>2
  <2>3. locks' = [locks EXCEPT ![f] = Locked(@, u, mode)]
        /\ UNCHANGED <<meta, trans, nextTrans, slaveVars>> /\ pc[w] \in {"lockNew", "lock"}
    BY <1>5 DEF LockNew, Lock
  <2>4. f \in Files /\ u \in Users /\ locks[f] \in LockSet
    BY <2>1 DEF OpenJob, MasterType
  <2>5. TypeOK'
    <3>1. [job[w] EXCEPT !.addr = q] \in OpenJob
      BY <2>1 DEF OpenJob
    <3>2. WorkerType'
      BY <2>2, <3>1, GotoType DEF OpenPC
    <3>3. Locked(locks[f], u, mode) \in LockSet
      BY <2>1, <2>4, LockType
    <3>4. locks' \in [Files -> LockSet]
      BY <2>3, <3>3 DEF MasterType
    <3> QED BY <2>3, <3>2, <3>4 DEF TypeOK, MasterType, SlaveType, slaveVars
  <2>6. IdsInUse'
    <3>1. [job[w] EXCEPT !.addr = q].next = 1
      BY <2>1, <2>3 DEF IInv, IdsInUse, WorkerInUse, Opening, OpenJob
    <3>2. WorkerInUse(w)'
      <4>1. pc'[w] = "begin" /\ job'[w] = [job[w] EXCEPT !.addr = q]
        BY <2>2, GotoFrame
      <4>2. job'[w].next = 1
        BY <4>1, <3>1, <2>1 DEF OpenJob
      <4> QED BY <4>1, <4>2 DEF WorkerInUse, ReportPC
    <3> QED BY <2>2, <2>3, <3>2, IdsFrame DEF slaveVars
  <2>7. OwnerCurrent'
    BY <2>2, <2>3, OwnerFrame
  <2>8. KeysOwned'
    <3> SUFFICES ASSUME NEW g \in Files, NEW k \in LockKinds, NEW v \in Users, LockedBy(g, k, v)'
                 PROVE  \/ \E t \in TransIds : HoldsKey(t, g, k, v)'
                        \/ \E x \in Workers : AboutToList(x, g, k, v)'
      BY DEF KeysOwned
    <3>1. LockedBy(g, k, v) \/ (g = f /\ v = u /\ k \in mode)
      <4>1. CASE g = f
        <5>1. v \in Locked(locks[f], u, mode)[k]
          BY <4>1, <2>3, <2>4 DEF LockedBy, MasterType
        <5> QED BY <4>1, <5>1, <2>1, <2>4, LockedKeys DEF LockedBy
      <4>2. CASE g # f
        BY <4>2, <2>3 DEF LockedBy, MasterType
      <4> QED BY <4>1, <4>2
    <3>2. CASE g = f /\ v = u /\ k \in mode
      <4>1. AboutToList(w, g, k, v)'
        BY <3>2, <2>1, <2>2, GotoFrame DEF AboutToList, OpenJob
      <4> QED BY <4>1
    <3>3. CASE \E t \in TransIds : HoldsKey(t, g, k, v)
      <4>1. PICK t \in TransIds : HoldsKey(t, g, k, v)
        BY <3>3
      <4>2. HoldsKey(t, g, k, v)'
        BY <4>1, <2>2, <2>3, GotoFrame DEF HoldsKey
      <4> QED BY <4>2
    <3>4. CASE \E x \in Workers : AboutToList(x, g, k, v)
      <4>1. PICK x \in Workers : AboutToList(x, g, k, v)
        BY <3>4
      <4>2. AboutToList(x, g, k, v)'
        BY <4>1, <2>2, <2>3, GotoFrame DEF AboutToList
      <4> QED BY <4>2
    <3> QED BY <3>1, <3>2, <3>3, <3>4 DEF IInv, KeysOwned
  <2> QED BY <2>5, <2>6, <2>7, <2>8 DEF IInv
<1>6. CASE LockBusy(w)
  <2>1. Goto(w, "idle", NoJob) /\ pc[w] = "lock"
        /\ UNCHANGED <<meta, locks, trans, nextTrans, slaveVars>>
    BY <1>6 DEF LockBusy, Finish
  <2>2. TypeOK'
    BY <2>1, GotoType DEF TypeOK, MasterType, SlaveType, slaveVars
  <2>3. WorkerInUse(w)'
    BY <2>1, GotoFrame DEF WorkerInUse, ReportPC, Opening
  <2>4. IdsInUse' /\ OwnerCurrent' /\ KeysOwned'
    BY <2>1, <2>3, IdsFrame, OwnerFrame, KeysFrame DEF slaveVars
  <2> QED BY <2>2, <2>4 DEF IInv
<1>7. CASE Begin(w)
  <2> DEFINE tr == NewTransaction(job[w].file, job[w].user, job[w].mode)
  <2>1. /\ pc[w] = "begin" /\ nextTrans \in TransIds
        /\ trans' = [trans EXCEPT ![nextTrans] = tr]
        /\ nextTrans' = nextTrans + 1
        /\ UNCHANGED <<meta, locks, slaveVars>>
    BY <1>7 DEF Begin
  <2>2. job[w] \in OpenJob /\ job[w].mode \in SUBSET ModeFlags /\ job[w].next = 1
    BY <2>1, ModesAssumption DEF WorkerType, OpenPC, OpenJob, IInv, IdsInUse, WorkerInUse, Opening
  <2>3. \/ Goto(w, "idle", NoJob)
        \/ Goto(w, "rpc", [job[w] EXCEPT !.trans = nextTrans]) /\ job[w].addr # <<>>
    BY <1>7 DEF Begin, Finish
  <2>4. [job[w] EXCEPT !.trans = nextTrans] \in OpenJob
    BY <2>1, <2>2, MaxTransAssumption DEF OpenJob
  <2>5. TypeOK'
    <3>1. WorkerType'
      BY <2>3, <2>4, GotoType DEF OpenPC
    <3>2. trans' \in [TransIds -> Transaction]
      <4>1. tr \in Transaction
        BY <2>2 DEF NewTransaction, Transaction, OpenJob
      <4> QED BY <2>1, <4>1 DEF MasterType
    <3>3. nextTrans' \in 1 .. MaxTrans + 1
      BY <2>1, MaxTransAssumption
    <3> QED BY <2>1, <3>1, <3>2, <3>3 DEF TypeOK, MasterType, SlaveType, slaveVars
  <2>6. ASSUME NEW t \in TransIds, t < nextTrans PROVE trans'[t] = trans[t]
    BY <2>1, <2>6 DEF MasterType
  <2>7. IdsInUse'
    <3>1. nextTrans' \in {nextTrans, nextTrans + 1} /\ NoneForgotten
      BY <2>1 DEF slaveVars, NoneForgotten
    <3>2. WorkerInUse(w)'
      <4>1. CASE Goto(w, "idle", NoJob)
        BY <4>1, GotoFrame DEF WorkerInUse, ReportPC, Opening
      <4>2. CASE Goto(w, "rpc", [job[w] EXCEPT !.trans = nextTrans]) /\ job[w].addr # <<>>
        <5>1. pc'[w] = "rpc" /\ job'[w] = [job[w] EXCEPT !.trans = nextTrans]
          BY <4>2, GotoFrame
        <5>2. job'[w].trans = nextTrans /\ job'[w].next = 1 /\ job'[w].addr = job[w].addr
          BY <5>1, <2>2 DEF OpenJob
        <5>3. Len(job[w].addr) \in Nat \ {0}
          BY <4>2, <2>2 DEF OpenJob
        <5>4. nextTrans < nextTrans'
          BY <2>1, MaxTransAssumption
        <5> QED BY <5>1, <5>2, <5>3, <5>4, <2>1 DEF WorkerInUse, ReportPC, Opening
      <4> QED BY <2>3, <4>1, <4>2
    <3>3. \A x \in Workers : WorkerInUse(x)'
      BY <2>3, <3>1, <3>2, GotoFrame, WorkerFrame
    <3>4. (\A r \in reports : Solicited(r))'
      BY <2>1, <3>1, ReportsFrame DEF slaveVars
    <3>5. \A t \in TransIds : trans'[t].listed => t < nextTrans'
      BY <2>1, MaxTransAssumption DEF MasterType, IInv, IdsInUse
    <3>6. \A t \in TransIds, s \in Slaves :
            handler'[t][s].st # "none" => t < nextTrans' /\ handler'[t][s].file \in Files
      BY <2>1, MaxTransAssumption DEF slaveVars, IInv, IdsInUse
    <3> QED BY <3>3, <3>4, <3>5, <3>6 DEF IdsInUse
  <2>8. OwnerCurrent'
    <3> SUFFICES ASSUME NEW x \in Workers, pc'[x] \in {"update", "unlock"}
                 PROVE  LET r == trans'[job'[x].report.trans]
                            o == job'[x].owner
                        IN r.file # NoFile => r.file = o.file /\ r.user = o.user /\ r.mode = o.mode
      BY DEF OwnerCurrent
    <3>1. x # w /\ pc'[x] = pc[x] /\ job'[x] = job[x]
      BY <2>3, GotoFrame
    <3>2. job[x].report.trans \in TransIds /\ job[x].report.trans < nextTrans
      BY <3>1 DEF WorkerType, ReportPC, ReportJob, Report, IInv, IdsInUse, WorkerInUse, Solicited
    <3> QED BY <3>1, <3>2, <2>6 DEF IInv, OwnerCurrent
  <2>9. KeysOwned'
    <3> SUFFICES ASSUME NEW g \in Files, NEW k \in LockKinds, NEW v \in Users, LockedBy(g, k, v)'
                 PROVE  \/ \E t \in TransIds : HoldsKey(t, g, k, v)'
                        \/ \E x \in Workers : AboutToList(x, g, k, v)'
      BY DEF KeysOwned
    <3>1. LockedBy(g, k, v)
      BY <2>1 DEF LockedBy
    <3>2. \A x \in Workers : pc'[x] = "retire" => pc[x] = "retire" /\ job'[x] = job[x]
      BY <2>3, GotoFrame
    <3>3. CASE \E t \in TransIds : HoldsKey(t, g, k, v)
      <4>1. PICK t \in TransIds : HoldsKey(t, g, k, v)
        BY <3>3
      <4>2. t < nextTrans
        BY <4>1 DEF HoldsKey, IInv, IdsInUse
      <4>3. HoldsKey(t, g, k, v)'
        BY <4>1, <4>2, <2>6, <3>2 DEF HoldsKey
      <4> QED BY <4>3
    <3>4. CASE AboutToList(w, g, k, v)
      <4> PICK n \in TransIds : n = nextTrans
        BY <2>1
      <4>1. trans'[n] = tr
        BY <2>1 DEF MasterType
      <4>2. tr.listed /\ tr.file = g /\ tr.user = v /\ k \in tr.mode
        BY <3>4, <2>2 DEF AboutToList, NewTransaction
      <4>3. \A x \in Workers : pc'[x] = "retire" => job'[x].report.trans # n
        BY <3>2, MaxTransAssumption
          DEF IInv, IdsInUse, WorkerInUse, Solicited, ReportPC, WorkerType, ReportJob, Report
      <4>4. HoldsKey(n, g, k, v)'
        BY <4>1, <4>2, <4>3 DEF HoldsKey
      <4> QED BY <4>4
    <3>5. CASE \E x \in Workers \ {w} : AboutToList(x, g, k, v)
      <4>1. PICK x \in Workers \ {w} : AboutToList(x, g, k, v)
        BY <3>5
      <4>2. AboutToList(x, g, k, v)'
        BY <4>1, <2>3, GotoFrame DEF AboutToList
      <4> QED BY <4>2
    <3> QED BY <3>1, <3>3, <3>4, <3>5 DEF IInv, KeysOwned
  <2> QED BY <2>5, <2>7, <2>8, <2>9 DEF IInv
<1>8. ASSUME Rpc(w) \/ RpcFails(w) PROVE IInv'
  <2> DEFINE j == job[w]
             h == NewHandler(j)
             s == j.addr[j.next]
  <2>1. pc[w] = "rpc" /\ Goto(w, "addSlave", j)
        /\ UNCHANGED <<meta, locks, trans, nextTrans, disk, reports, deletions>>
    BY <1>8 DEF Rpc, RpcFails, slaveVars
  <2>2. /\ j \in OpenJob /\ j.mode \in SUBSET ModeFlags
        /\ j.trans \in TransIds /\ j.trans < nextTrans /\ j.next \in 1 .. Len(j.addr)
    BY <2>1, ModesAssumption DEF WorkerType, OpenPC, OpenJob, IInv, IdsInUse, WorkerInUse
  <2>3. h \in Handler /\ h.file \in Files /\ s \in Slaves
    <3>1. \A i \in 1 .. Len(j.addr) : j.addr[i] \in Slaves
      BY <2>2 DEF OpenJob
    <3>2. h.src \in Slaves \cup {NoSlave} /\ h.dst \in Slaves \cup {NoSlave}
      BY <2>2, <3>1 DEF NewHandler
    <3> QED BY <2>2, <3>1, <3>2 DEF NewHandler, Handler, HandlerStates, OpenJob
  <2>4. handler' = handler \/ handler' = [handler EXCEPT ![j.trans][s] = h]
    BY <1>8 DEF Rpc, RpcFails, slaveVars
  <2>5. TypeOK'
    <3>1. WorkerType'
      BY <2>1, <2>2, GotoType DEF OpenPC
    <3>2. handler' \in [TransIds -> [Slaves -> Handler]]
      BY <2>3, <2>4 DEF SlaveType
    <3> QED BY <2>1, <3>1, <3>2 DEF TypeOK, MasterType, SlaveType
  <2>6. IdsInUse'
    <3>1. \A t \in TransIds, x \in Slaves :
            handler'[t][x].st # "none" => t < nextTrans /\ handler'[t][x].file \in Files
      <4> HIDE DEF j, h, s
      <4> SUFFICES ASSUME NEW t \in TransIds, NEW x \in Slaves, handler'[t][x].st # "none"
                   PROVE  t < nextTrans /\ handler'[t][x].file \in Files
        OBVIOUS
      <4>1. CASE handler'[t][x] = handler[t][x]
        BY <4>1 DEF IInv, IdsInUse
      <4>2. CASE handler'[t][x] # handler[t][x]
        <5>1. t = j.trans /\ handler'[t][x] = h
          BY ZenonT(60), <4>2, <2>2, <2>3, <2>4 DEF SlaveType
        <5> QED BY <5>1, <2>2, <2>3 DEF j
      <4> QED BY <4>1, <4>2
    <3>2. NoneForgotten
      <4>1. h.st = "started"
        BY DEF NewHandler
      <4> HIDE DEF j, h, s
      <4>2. ASSUME NEW t \in TransIds, NEW x \in Slaves
            PROVE  handler'[t][x] = handler[t][x] \/ handler'[t][x] = h
        <5>1. CASE handler' = handler
          BY <5>1
        <5>2. CASE handler' = [handler EXCEPT ![j.trans][s] = h]
          BY <5>2, <2>2, <2>3 DEF SlaveType
        <5> QED BY <5>1, <5>2, <2>4
      <4> QED BY <4>1, <4>2 DEF NoneForgotten
    <3>3. WorkerInUse(w)'
      BY <2>1, <2>2, GotoFrame DEF WorkerInUse, Opening, ReportPC
    <3>4. \A x \in Workers : WorkerInUse(x)'
      BY <2>1, <3>2, <3>3, GotoFrame, WorkerFrame
    <3>5. (\A r \in reports : Solicited(r))'
      BY <2>1, <3>2, ReportsFrame
    <3>6. \A t \in TransIds : trans'[t].listed => t < nextTrans'
      BY <2>1 DEF IInv, IdsInUse
    <3> HIDE DEF j, s, h
    <3> QED BY <2>1, <3>1, <3>4, <3>5, <3>6 DEF IdsInUse
  <2>7. OwnerCurrent' /\ KeysOwned'
    BY <2>1, OwnerFrame, KeysFrame
  <2> QED BY <2>5, <2>6, <2>7 DEF IInv
<1>9. CASE AddSlave(w)
  <2> DEFINE j == job[w]
             s == j.addr[j.next]
             old == trans[j.trans]
  <2>1. /\ pc[w] = "addSlave"
        /\ trans' = [trans EXCEPT ![j.trans] = addSlave(@, s)]
        /\ UNCHANGED <<meta, locks, nextTrans, slaveVars>>
    BY <1>9 DEF AddSlave
  <2>2. /\ j \in OpenJob /\ j.trans \in TransIds /\ j.trans < nextTrans
        /\ j.next \in 1 .. Len(j.addr)
    BY <2>1 DEF WorkerType, OpenPC, IInv, IdsInUse, WorkerInUse
  <2>3. \/ Goto(w, "idle", NoJob)
        \/ Goto(w, "rpc", [j EXCEPT !.next = @ + 1]) /\ j.next # Len(j.addr)
    BY <1>9 DEF AddSlave, Finish
  <2>4. s \in Slaves /\ old \in Transaction
    BY <2>2 DEF OpenJob, MasterType
  <2>5. TypeOK'
    <3>1. [j EXCEPT !.next = @ + 1] \in OpenJob
      BY <2>2 DEF OpenJob
    <3>2. WorkerType'
      BY <2>3, <3>1, GotoType DEF OpenPC
    <3>3. addSlave(old, s) \in Transaction
      BY <2>4 DEF addSlave, Transaction
    <3>4. trans' \in [TransIds -> Transaction]
      BY <2>1, <3>3 DEF MasterType
    <3> QED BY <2>1, <3>2, <3>4 DEF TypeOK, MasterType, SlaveType, slaveVars
  <2>6. ASSUME NEW t \in TransIds
        PROVE  /\ trans'[t].file = trans[t].file /\ trans'[t].user = trans[t].user
               /\ trans'[t].mode = trans[t].mode
               /\ trans[t].listed => trans'[t].listed
               /\ trans'[t].listed => trans[t].listed \/ t = j.trans
    <3>1. CASE t = j.trans
      BY <3>1, <2>1, <2>4 DEF MasterType, addSlave, Transaction
    <3>2. CASE t # j.trans
      BY <3>2, <2>1 DEF MasterType
    <3> QED BY <3>1, <3>2
  <2>7. IdsInUse'
    <3>1. WorkerInUse(w)'
      <4>1. CASE Goto(w, "idle", NoJob)
        BY <4>1, GotoFrame DEF WorkerInUse, Opening, ReportPC
      <4>2. CASE Goto(w, "rpc", [j EXCEPT !.next = @ + 1]) /\ j.next # Len(j.addr)
        <5>1. pc'[w] = "rpc" /\ job'[w] = [j EXCEPT !.next = @ + 1]
          BY <4>2, GotoFrame
        <5>2. job'[w].trans = j.trans /\ job'[w].next = j.next + 1 /\ job'[w].addr = j.addr
          BY <5>1, <2>2 DEF OpenJob
        <5>3. Len(j.addr) \in Nat
          BY <2>2 DEF OpenJob
        <5> QED BY <4>2, <5>1, <5>2, <5>3, <2>1, <2>2 DEF WorkerInUse, Opening, ReportPC
      <4> QED BY <2>3, <4>1, <4>2
    <3>2. NoneForgotten /\ nextTrans' \in {nextTrans, nextTrans + 1}
      BY <2>1 DEF slaveVars, NoneForgotten
    <3>3. \A x \in Workers : WorkerInUse(x)'
      BY <2>3, <3>1, <3>2, GotoFrame, WorkerFrame
    <3>4. (\A r \in reports : Solicited(r))'
      BY <2>1, <3>2, ReportsFrame DEF slaveVars
    <3>5. \A t \in TransIds : trans'[t].listed => t < nextTrans
      BY <2>2, <2>6 DEF IInv, IdsInUse
    <3> QED BY <2>1, <3>3, <3>4, <3>5 DEF IInv, IdsInUse, slaveVars
  <2>8. OwnerCurrent'
    <3> SUFFICES ASSUME NEW x \in Workers, pc'[x] \in {"update", "unlock"}
                 PROVE  LET r == trans'[job'[x].report.trans]
                            o == job'[x].owner
                        IN r.file # NoFile => r.file = o.file /\ r.user = o.user /\ r.mode = o.mode
      BY DEF OwnerCurrent
    <3>1. x # w /\ pc'[x] = pc[x] /\ job'[x] = job[x]
      BY <2>3, GotoFrame
    <3>2. job[x].report.trans \in TransIds
      BY <3>1 DEF WorkerType, ReportPC, ReportJob, Report
    <3> QED BY <3>1, <3>2, <2>6 DEF IInv, OwnerCurrent
  <2>9. KeysOwned'
    <3> SUFFICES ASSUME NEW g \in Files, NEW k \in LockKinds, NEW v \in Users, LockedBy(g, k, v)'
                 PROVE  \/ \E t \in TransIds : HoldsKey(t, g, k, v)'
                        \/ \E x \in Workers : AboutToList(x, g, k, v)'
      BY DEF KeysOwned
    <3>1. LockedBy(g, k, v)
      BY <2>1 DEF LockedBy
    <3>2. CASE \E t \in TransIds : HoldsKey(t, g, k, v)
      <4>1. PICK t \in TransIds : HoldsKey(t, g, k, v)
        BY <3>2
      <4>2. \A x \in Workers : pc'[x] = "retire" => pc[x] = "retire" /\ job'[x] = job[x]
        BY <2>3, GotoFrame
      <4>3. HoldsKey(t, g, k, v)'
        BY <4>1, <4>2, <2>6 DEF HoldsKey
      <4> QED BY <4>3
    <3>3. CASE \E x \in Workers : AboutToList(x, g, k, v)
      <4>1. PICK x \in Workers : AboutToList(x, g, k, v)
        BY <3>3
      <4>2. x # w
        BY <4>1, <2>1 DEF AboutToList
      <4>3. AboutToList(x, g, k, v)'
        BY <4>1, <4>2, <2>3, GotoFrame DEF AboutToList
      <4> QED BY <4>3
    <3> QED BY <3>1, <3>2, <3>3 DEF IInv, KeysOwned
  <2> QED BY <2>5, <2>7, <2>8, <2>9 DEF IInv
<1> QED BY <1>3, <1>4, <1>5, <1>6, <1>7, <1>8, <1>9 DEF OpenStep

-----------------------------------------------------------------------------
(* The handler of a slave's report. *)

\* The answer to a report ends a handler that was there.
LEMMA AnsweredFrame ==
  ASSUME IInv, NEW r \in Report, Solicited(r), Answered(r), UNCHANGED nextTrans
  PROVE  /\ handler' \in [TransIds -> [Slaves -> Handler]] /\ NoneForgotten
         /\ (\A t \in TransIds, s \in Slaves :
               handler[t][s].st # "none" => t < nextTrans /\ handler[t][s].file \in Files)'
<1> DEFINE h == handler[r.trans][r.slave]
<1>1. handler \in [TransIds -> [Slaves -> Handler]] /\ r.trans \in TransIds /\ r.slave \in Slaves
  BY DEF IInv, TypeOK, SlaveType, Report
<1>2. h \in Handler /\ h.st # "none" /\ h.file \in Files /\ r.trans < nextTrans
  BY <1>1 DEF Solicited, IInv, IdsInUse
<1>3. [h EXCEPT !.st = "done"] \in Handler
  BY <1>2 DEF Handler, HandlerStates
<1>4. handler' = [handler EXCEPT ![r.trans][r.slave] = [h EXCEPT !.st = "done"]]
  BY DEF Answered
<1>5. handler' \in [TransIds -> [Slaves -> Handler]]
  BY <1>1, <1>3, <1>4
<1>6. ASSUME NEW t \in TransIds, NEW s \in Slaves
      PROVE  \/ handler'[t][s] = handler[t][s]
             \/ t = r.trans /\ s = r.slave /\ handler'[t][s] = [h EXCEPT !.st = "done"]
  BY <1>1, <1>4
<1>7. [h EXCEPT !.st = "done"].st = "done" /\ [h EXCEPT !.st = "done"].file = h.file
  BY <1>2 DEF Handler
<1>8. NoneForgotten
  BY <1>6, <1>7 DEF NoneForgotten
<1> HIDE DEF h
<1>9. ASSUME NEW t \in TransIds, NEW s \in Slaves, handler'[t][s].st # "none"
      PROVE  t < nextTrans /\ handler'[t][s].file \in Files
  <2>1. CASE handler'[t][s] = handler[t][s]
    BY <1>9, <2>1 DEF IInv, IdsInUse
  <2>2. CASE t = r.trans /\ s = r.slave /\ handler'[t][s] = [h EXCEPT !.st = "done"]
    BY <2>2, <1>2, <1>7
  <2> QED BY <1>6, <2>1, <2>2
<1> QED BY <1>5, <1>8, <1>9

\* Every step of the handler of a report keeps the invariant.
LEMMA ReportKeepsIInv ==
  ASSUME IInv, NEW w \in Workers, ReportStep(w)
  PROVE  IInv'
<1>1. MasterType /\ WorkerType /\ SlaveType /\ IdsInUse
  BY DEF IInv, TypeOK
<1> USE <1>1
<1>2. ASSUME NEW r \in reports, ReportRetrieve(w, r) PROVE IInv'
  <2> DEFINE jb == [report |-> r, owner |-> trans[r.trans]]
  <2>1. /\ pc[w] = "idle" /\ reports' = reports \ {r} /\ Goto(w, "update", jb)
        /\ UNCHANGED <<meta, locks, trans, nextTrans, handler, disk, deletions>>
    BY <1>2 DEF ReportRetrieve
  <2>2. r \in Report /\ Solicited(r) /\ r.trans \in TransIds
    BY DEF SlaveType, IdsInUse, Report
  <2>3. jb \in ReportJob
    BY <2>2 DEF ReportJob, MasterType
  <2>4. TypeOK'
    <3>1. WorkerType'
      BY <2>1, <2>3, GotoType DEF ReportPC
    <3> QED BY <2>1, <3>1 DEF TypeOK, MasterType, SlaveType
  <2>5. IdsInUse'
    <3>1. pc'[w] = "update" /\ job'[w].report = r
      BY <2>1, GotoFrame
    <3>2. WorkerInUse(w)'
      BY <2>1, <2>2, <3>1 DEF WorkerInUse, Opening, Solicited
    <3> QED BY <2>1, <3>2, IdsFrame
  <2>6. OwnerCurrent'
    <3>1. job'[w].report = r /\ job'[w].owner = trans[r.trans]
      BY <2>1, GotoFrame
    <3> QED BY <2>1, <3>1, GotoFrame DEF IInv, OwnerCurrent
  <2>7. KeysOwned'
    BY <2>1, KeysFrame
  <2> QED BY <2>4, <2>5, <2>6, <2>7 DEF IInv
<1>3. ASSUME NEW r \in reports, ReportUnknown(w, r) PROVE IInv'
  <2>1. Answered(r) /\ reports' = reports \ {r} /\ UNCHANGED <<masterVars, disk>>
    BY <1>3 DEF ReportUnknown
  <2>2. deletions' = deletions
    BY <1>3 DEF ReportUnknown
  <2>3. r \in Report /\ Solicited(r) /\ UNCHANGED nextTrans
    BY <2>1 DEF SlaveType, IdsInUse, masterVars
  <2>4. TypeOK'
    BY <2>1, <2>2, <2>3, AnsweredFrame DEF TypeOK, MasterType, WorkerType, SlaveType, masterVars
  <2>5. IdsInUse'
    <3>1. NoneForgotten /\ nextTrans' \in {nextTrans, nextTrans + 1}
      BY <2>1, <2>3, AnsweredFrame
    <3>2. \A x \in Workers : WorkerInUse(x)'
      BY <2>1, <3>1, WorkerFrame DEF masterVars
    <3>3. (\A x \in reports : Solicited(x))'
      BY <2>1, <3>1, ReportsFrame
    <3>4. (\A t \in TransIds : trans[t].listed => t < nextTrans)'
      BY <2>1 DEF IdsInUse, masterVars
    <3> QED BY <2>1, <2>3, <3>2, <3>3, <3>4, AnsweredFrame DEF IdsInUse
  <2>6. OwnerCurrent' /\ KeysOwned'
    BY <2>1 DEF IInv, OwnerCurrent, KeysOwned, LockedBy, HoldsKey, AboutToList, masterVars
  <2> QED BY <2>4, <2>5, <2>6 DEF IInv
<1>4. CASE ReportUpdate(w)
  <2> DEFINE r == job[w].report
  <2>1. /\ pc[w] = "update" /\ Goto(w, "unlock", job[w])
        /\ meta' = [meta EXCEPT ![r.file] = Updated(@, r.slave, r.stamp, r.change)]
        /\ UNCHANGED <<locks, trans, nextTrans, slaveVars>>
    BY <1>4 DEF ReportUpdate
  <2>2. job[w] \in ReportJob /\ r \in Report
    BY <2>1 DEF WorkerType, ReportPC, ReportJob
  <2>3. TypeOK'
    <3>1. WorkerType'
      BY <2>1, <2>2, GotoType DEF ReportPC
    <3>2. /\ r.file \in Files /\ meta[r.file] \in Entry /\ r.slave \in Slaves
          /\ r.stamp \in Stamps /\ r.change \in 0 .. 3
      BY <2>2 DEF Report, MasterType
    <3>3. Updated(meta[r.file], r.slave, r.stamp, r.change) \in Entry
      BY <3>2, EntryType
    <3>4. meta' \in [Files -> Entry]
      BY <2>1, <3>3 DEF MasterType
    <3> QED BY <2>1, <3>1, <3>4 DEF TypeOK, MasterType, SlaveType, slaveVars
  <2>4. IdsInUse'
    <3>1. pc'[w] = "unlock" /\ job'[w] = job[w]
      BY <2>1, GotoFrame
    <3>2. WorkerInUse(w)'
      BY <2>1, <3>1 DEF IdsInUse, WorkerInUse, Opening, Solicited, ReportPC, slaveVars
    <3> QED BY <2>1, <3>2, IdsFrame DEF slaveVars
  <2>5. OwnerCurrent'
    BY <2>1, GotoFrame DEF IInv, OwnerCurrent
  <2>6. KeysOwned'
    BY <2>1, KeysFrame
  <2> QED BY <2>3, <2>4, <2>5, <2>6 DEF IInv
<1>5. CASE ReportUnlock(w)
  <2> DEFINE o == job[w].owner
             id == job[w].report.trans
  <2>1. /\ pc[w] = "unlock" /\ Goto(w, "retire", job[w])
        /\ locks' = IF o.file = NoFile THEN locks
                    ELSE [locks EXCEPT ![o.file] = UnlockedBy(@, o.user, o.mode)]
        /\ UNCHANGED <<meta, trans, nextTrans, slaveVars>>
    BY <1>5 DEF ReportUnlock
  <2>2. /\ job[w] \in ReportJob /\ id \in TransIds
        /\ o.file \in Files \cup {NoFile} /\ o.mode \in SUBSET ModeFlags
        /\ o.file # NoFile => locks[o.file] \in LockSet
    BY <2>1 DEF WorkerType, ReportPC, ReportJob, Report, Transaction, MasterType
  <2>3. TypeOK'
    <3>1. WorkerType'
      BY <2>1, <2>2, GotoType DEF ReportPC
    <3>2. o.file # NoFile => UnlockedBy(locks[o.file], o.user, o.mode) \in LockSet
      BY <2>2 DEF UnlockedBy, LockSet, LockKinds
    <3>3. locks' \in [Files -> LockSet]
      BY <2>1, <2>2, <3>2 DEF MasterType
    <3> QED BY <2>1, <3>1, <3>3 DEF TypeOK, MasterType, SlaveType, slaveVars
  <2>4. IdsInUse'
    <3>1. pc'[w] = "retire" /\ job'[w] = job[w]
      BY <2>1, GotoFrame
    <3>2. WorkerInUse(w)'
      BY <2>1, <3>1 DEF IdsInUse, WorkerInUse, Opening, Solicited, ReportPC, slaveVars
    <3> QED BY <2>1, <3>2, IdsFrame DEF slaveVars
  <2>5. OwnerCurrent'
    BY <2>1, OwnerFrame
  <2>6. KeysOwned'
    <3> SUFFICES ASSUME NEW g \in Files, NEW k \in LockKinds, NEW v \in Users, LockedBy(g, k, v)'
                 PROVE  \/ \E t \in TransIds : HoldsKey(t, g, k, v)'
                        \/ \E x \in Workers : AboutToList(x, g, k, v)'
      BY DEF KeysOwned
    <3>1. LockedBy(g, k, v) /\ ~(o.file = g /\ o.user = v /\ k \in o.mode)
      <4>1. CASE o.file = g
        <5>1. v \in UnlockedBy(locks[g], o.user, o.mode)[k]
          BY <4>1, <2>1, NamesAssumption DEF LockedBy, MasterType
        <5>2. v \in locks[g][k] /\ ~(v = o.user /\ k \in o.mode)
          BY <5>1 DEF UnlockedBy
        <5> QED BY <5>2 DEF LockedBy
      <4>2. CASE o.file # g
        BY <4>2, <2>1, <2>2 DEF LockedBy, MasterType
      <4> QED BY <4>1, <4>2
    <3>2. CASE \E t \in TransIds : HoldsKey(t, g, k, v)
      <4>1. PICK t \in TransIds : HoldsKey(t, g, k, v)
        BY <3>2
      <4>2. t # id
        <5>1. trans[id].file # NoFile =>
                trans[id].file = o.file /\ trans[id].user = o.user /\ trans[id].mode = o.mode
          BY <2>1 DEF IInv, OwnerCurrent
        <5> QED BY <3>1, <4>1, <5>1, NamesAssumption DEF HoldsKey
      <4>3. HoldsKey(t, g, k, v)'
        BY <4>1, <4>2, <2>1, GotoFrame DEF HoldsKey
      <4> QED BY <4>3
    <3>3. CASE \E x \in Workers : AboutToList(x, g, k, v)
      <4>1. PICK x \in Workers : AboutToList(x, g, k, v)
        BY <3>3
      <4>2. AboutToList(x, g, k, v)'
        BY <4>1, <2>1, GotoFrame DEF AboutToList
      <4> QED BY <4>2
    <3> QED BY <3>1, <3>2, <3>3 DEF IInv, KeysOwned
  <2> QED BY <2>3, <2>4, <2>5, <2>6 DEF IInv
<1>6. CASE ReportRetire(w)
  <2> DEFINE r == job[w].report
  <2>1. /\ pc[w] = "retire" /\ Goto(w, "idle", NoJob) /\ Answered(r)
        /\ trans' = [trans EXCEPT ![r.trans] = updateSlave(@, r.slave)]
        /\ UNCHANGED <<meta, locks, nextTrans, disk, reports, deletions>>
    BY <1>6 DEF ReportRetire, Finish
  <2>2. job[w] \in ReportJob /\ r \in Report /\ Solicited(r)
    BY <2>1 DEF WorkerType, ReportPC, ReportJob, IdsInUse, WorkerInUse
  <2>3. r.trans \in TransIds /\ trans[r.trans] \in Transaction
    BY <2>2 DEF Report, MasterType
  <2>4. TypeOK'
    <3>1. WorkerType'
      BY <2>1, GotoType
    <3>2. updateSlave(trans[r.trans], r.slave) \in Transaction
      BY <2>3 DEF updateSlave, Unlisted, Transaction
    <3>3. trans' \in [TransIds -> Transaction]
      BY <2>1, <3>2 DEF MasterType
    <3>4. handler' \in [TransIds -> [Slaves -> Handler]]
      BY <2>1, <2>2, AnsweredFrame
    <3> QED BY <2>1, <3>1, <3>3, <3>4 DEF TypeOK, MasterType, SlaveType
  <2>5. ASSUME NEW t \in TransIds
        PROVE  /\ trans'[t] = Unlisted
                  \/ (/\ trans'[t].file = trans[t].file /\ trans'[t].user = trans[t].user
                      /\ trans'[t].mode = trans[t].mode /\ trans'[t].listed = trans[t].listed)
               /\ t # r.trans => trans'[t] = trans[t]
    <3>1. CASE t = r.trans
      BY <3>1, <2>1, <2>3 DEF MasterType, updateSlave, Transaction
    <3>2. CASE t # r.trans
      BY <3>2, <2>1 DEF MasterType
    <3> QED BY <3>1, <3>2
  <2>6. IdsInUse'
    <3>1. NoneForgotten /\ nextTrans' \in {nextTrans, nextTrans + 1}
      BY <2>1, <2>2, AnsweredFrame
    <3>2. WorkerInUse(w)'
      BY <2>1, GotoFrame DEF WorkerInUse, Opening, ReportPC
    <3>3. \A x \in Workers : WorkerInUse(x)'
      BY <2>1, <3>1, <3>2, GotoFrame, WorkerFrame
    <3>4. (\A x \in reports : Solicited(x))'
      BY <2>1, <3>1, ReportsFrame
    <3>5. (\A t \in TransIds : trans[t].listed => t < nextTrans)'
      BY <2>1, <2>5 DEF IdsInUse, Unlisted
    <3> QED BY <2>1, <2>2, <3>3, <3>4, <3>5, AnsweredFrame DEF IdsInUse
  <2>7. OwnerCurrent'
    <3> SUFFICES ASSUME NEW x \in Workers, pc'[x] \in {"update", "unlock"}
                 PROVE  LET tr == trans'[job'[x].report.trans]
                            o == job'[x].owner
                        IN tr.file # NoFile => tr.file = o.file /\ tr.user = o.user /\ tr.mode = o.mode
      BY DEF OwnerCurrent
    <3>1. x # w /\ pc'[x] = pc[x] /\ job'[x] = job[x]
      BY <2>1, GotoFrame
    <3>2. job[x].report.trans \in TransIds
      BY <3>1 DEF WorkerType, ReportPC, ReportJob, Report
    <3> QED BY <3>1, <3>2, <2>5 DEF IInv, OwnerCurrent, Unlisted
  <2>8. KeysOwned'
    <3> SUFFICES ASSUME NEW g \in Files, NEW k \in LockKinds, NEW v \in Users, LockedBy(g, k, v)'
                 PROVE  \/ \E t \in TransIds : HoldsKey(t, g, k, v)'
                        \/ \E x \in Workers : AboutToList(x, g, k, v)'
      BY DEF KeysOwned
    <3>1. LockedBy(g, k, v)
      BY <2>1 DEF LockedBy
    <3>2. CASE \E t \in TransIds : HoldsKey(t, g, k, v)
      <4>1. PICK t \in TransIds : HoldsKey(t, g, k, v)
        BY <3>2
      <4>2. t # r.trans
        BY <4>1, <2>1 DEF HoldsKey
      <4>3. \A x \in Workers : pc'[x] = "retire" => pc[x] = "retire" /\ job'[x] = job[x]
        BY <2>1, GotoFrame
      <4>4. HoldsKey(t, g, k, v)'
        BY <4>1, <4>2, <4>3, <2>5 DEF HoldsKey
      <4> QED BY <4>4
    <3>3. CASE \E x \in Workers : AboutToList(x, g, k, v)
      <4>1. PICK x \in Workers : AboutToList(x, g, k, v)
        BY <3>3
      <4>2. AboutToList(x, g, k, v)'
        BY <4>1, <2>1, GotoFrame DEF AboutToList
      <4> QED BY <4>2
    <3> QED BY <3>1, <3>2, <3>3 DEF IInv, KeysOwned
  <2> QED BY <2>4, <2>6, <2>7, <2>8 DEF IInv
<1> QED BY <1>2, <1>3, <1>4, <1>5, <1>6 DEF ReportStep

-----------------------------------------------------------------------------
(* The handler of delete. *)

\* Every step of the handler of delete keeps the invariant.
LEMMA DeleteKeepsIInv ==
  ASSUME IInv, NEW w \in Workers, DeleteStep(w)
  PROVE  IInv'
<1>1. MasterType /\ WorkerType /\ SlaveType
  BY DEF IInv, TypeOK
<1> USE <1>1
<1>2. ASSUME NEW f \in Files, DeleteLookup(w, f) PROVE IInv'
  <2>1. /\ pc[w] = "idle" /\ Goto(w, "remove", [file |-> f])
        /\ deletions' = deletions \cup (meta[f].locs \X {f})
        /\ UNCHANGED <<meta, locks, trans, nextTrans, handler, disk, reports>>
    BY <1>2 DEF DeleteLookup
  <2>2. TypeOK'
    <3>1. WorkerType'
      BY <2>1, GotoType DEF DeleteJob
    <3>2. deletions' \subseteq Slaves \X Files
      BY <2>1 DEF MasterType, SlaveType, Entry
    <3> QED BY <2>1, <3>1, <3>2 DEF TypeOK, MasterType, SlaveType
  <2>3. WorkerInUse(w)'
    BY <2>1, GotoFrame DEF WorkerInUse, Opening, ReportPC
  <2> QED BY <2>1, <2>2, <2>3, IdsFrame, OwnerFrame, KeysFrame DEF IInv
<1>3. CASE DeleteRemove(w)
  <2>1. /\ pc[w] = "remove" /\ Goto(w, "idle", NoJob)
        /\ meta' = [meta EXCEPT ![job[w].file] = Absent]
        /\ UNCHANGED <<locks, trans, nextTrans, slaveVars>>
    BY <1>3 DEF DeleteRemove, Finish
  <2>2. TypeOK'
    <3>1. WorkerType'
      BY <2>1, GotoType
    <3>2. meta' \in [Files -> Entry]
      BY <2>1 DEF MasterType, Absent, Entry
    <3> QED BY <2>1, <3>1, <3>2 DEF TypeOK, MasterType, SlaveType, slaveVars
  <2>3. WorkerInUse(w)'
    BY <2>1, GotoFrame DEF WorkerInUse, Opening, ReportPC
  <2> QED BY <2>1, <2>2, <2>3, IdsFrame, OwnerFrame, KeysFrame DEF IInv, slaveVars
<1> QED BY <1>2, <1>3 DEF DeleteStep

-----------------------------------------------------------------------------
(* The slaves. *)

\* No step of a file handler starts or forgets a handler, or changes its file.
HandlersKept ==
  \A t \in TransIds, s \in Slaves :
    /\ handler'[t][s].file = handler[t][s].file
    /\ handler'[t][s].st = "none" <=> handler[t][s].st = "none"

\* A step of a slave that keeps its handlers, and sends reports only of
\* handlers that run, keeps the invariant.
LEMMA SlaveFrame ==
  ASSUME IInv, UNCHANGED masterVars, SlaveType', HandlersKept,
         \A r \in reports' : r \in reports \/ handler[r.trans][r.slave].st # "none"
  PROVE  IInv'
<1>1. TypeOK'
  BY DEF IInv, TypeOK, MasterType, WorkerType, masterVars
<1>2. IdsInUse'
  <2>1. NoneForgotten /\ nextTrans' \in {nextTrans, nextTrans + 1}
    BY DEF HandlersKept, NoneForgotten, masterVars
  <2>2. \A x \in Workers : WorkerInUse(x)'
    BY <2>1, WorkerFrame DEF masterVars
  <2>3. \A t \in TransIds, s \in Slaves :
          handler'[t][s].st # "none" => t < nextTrans' /\ handler'[t][s].file \in Files
    BY DEF HandlersKept, masterVars, IInv, IdsInUse
  <2>4. ASSUME NEW r \in reports' PROVE Solicited(r)'
    <3>1. r \in Report /\ r.trans \in TransIds /\ r.slave \in Slaves
      BY DEF SlaveType, Report
    <3>2. handler[r.trans][r.slave].st # "none"
      BY DEF IInv, IdsInUse, Solicited
    <3> QED BY <3>1, <3>2, <2>3 DEF Solicited, HandlersKept
  <2>5. (\A t \in TransIds : trans[t].listed => t < nextTrans)'
    BY DEF IInv, IdsInUse, masterVars
  <2> QED BY <2>2, <2>3, <2>4, <2>5 DEF IdsInUse
<1>3. OwnerCurrent' /\ KeysOwned'
  BY DEF IInv, OwnerCurrent, KeysOwned, LockedBy, HoldsKey, AboutToList, masterVars
<1> QED BY <1>1, <1>2, <1>3 DEF IInv

\* Two handlers that are replaced by ones of the same file (d may be s).
LEMMA HandlersFrame ==
  ASSUME SlaveType, NEW t \in TransIds, NEW s \in Slaves, NEW d \in Slaves,
         NEW h \in Handler, NEW g \in Handler,
         handler' = [handler EXCEPT ![t][s] = h, ![t][d] = g],
         h.file = handler[t][s].file, h.st = "none" <=> handler[t][s].st = "none",
         g.file = handler[t][d].file, g.st = "none" <=> handler[t][d].st = "none"
  PROVE  handler' \in [TransIds -> [Slaves -> Handler]] /\ HandlersKept
<1>1. handler' \in [TransIds -> [Slaves -> Handler]]
  BY DEF SlaveType
<1>2. ASSUME NEW x \in TransIds, NEW y \in Slaves
      PROVE  handler'[x][y] = IF x = t /\ y = d THEN g
                              ELSE IF x = t /\ y = s THEN h ELSE handler[x][y]
  BY DEF SlaveType
<1> QED BY <1>1, <1>2 DEF HandlersKept

\* A handler that is replaced by one of the same file.
LEMMA HandlerFrame ==
  ASSUME SlaveType, NEW t \in TransIds, NEW s \in Slaves, NEW h \in Handler,
         handler' = [handler EXCEPT ![t][s] = h],
         h.file = handler[t][s].file, h.st = "none" <=> handler[t][s].st = "none"
  PROVE  handler' \in [TransIds -> [Slaves -> Handler]] /\ HandlersKept
<1>1. handler' \in [TransIds -> [Slaves -> Handler]]
  BY DEF SlaveType
<1>2. ASSUME NEW x \in TransIds, NEW y \in Slaves
      PROVE  handler'[x][y] = IF x = t /\ y = s THEN h ELSE handler[x][y]
  BY DEF SlaveType
<1> QED BY <1>1, <1>2 DEF HandlersKept

\* A slave that deletes its copy keeps the invariant.
LEMMA DeleteLocalKeepsIInv ==
  ASSUME IInv, NEW s \in Slaves, NEW f \in Files, DeleteLocal(s, f)
  PROVE  IInv'
<1>1. SlaveType'
  BY DEF DeleteLocal, IInv, TypeOK, SlaveType
<1>2. HandlersKept
  BY DEF DeleteLocal, HandlersKept
<1> QED BY <1>1, <1>2, SlaveFrame DEF DeleteLocal

\* Every step of a file handler keeps the invariant.
LEMMA HandlerKeepsIInv ==
  ASSUME IInv, NEW t \in TransIds, NEW s \in Slaves, HandlerStep(t, s)
  PROVE  IInv'
<1> DEFINE h == handler[t][s]
<1>1. SlaveType /\ h \in Handler /\ h.change \in 0 .. 2
  BY DEF IInv, TypeOK, SlaveType, Handler
<1> USE <1>1
<1>2. h.st # "none" => h.file \in Files
  BY DEF IInv, IdsInUse
\* A step to a label that changes neither the disk nor the reports.
<1>3. ASSUME NEW label \in HandlerStates \ {"none"}, NEW fwd \in BOOLEAN, h.st # "none",
             handler' = [handler EXCEPT ![t][s] = [h EXCEPT !.st = label, !.fwd = fwd]],
             UNCHANGED <<masterVars, disk, reports, deletions>>
      PROVE  IInv'
  <2>1. [h EXCEPT !.st = label, !.fwd = fwd] \in Handler
    BY DEF Handler
  <2>2. [h EXCEPT !.st = label, !.fwd = fwd].st = label /\ [h EXCEPT !.st = label, !.fwd = fwd].file = h.file
    BY DEF Handler
  <2>3. handler' \in [TransIds -> [Slaves -> Handler]] /\ HandlersKept
    BY <1>3, <2>1, <2>2, HandlerFrame
  <2>4. SlaveType'
    BY <1>3, <2>3 DEF SlaveType
  <2> QED BY <1>3, <2>3, <2>4, SlaveFrame
<1>4. \A fwd \in BOOLEAN, label \in HandlerStates : h.fwd = fwd =>
        [h EXCEPT !.st = label, !.fwd = fwd] = [h EXCEPT !.st = label]
  BY DEF Handler
<1>5. h.fwd \in BOOLEAN
  BY DEF Handler
<1>6. CASE ConnectFails(t, s) \/ CommandFails(t, s) \/ ReportNothing(t, s) \/ CloseAcked(t, s) \/ Close(t, s)
  <2>1. h.st \in {"started", "serving", "stopped", "closing"}
    BY <1>6 DEF ConnectFails, CommandFails, ReportNothing, CloseAcked, Close, ClientReady, Ready
  <2>2. PICK label \in {"done", "stopped", "closing"} : handler' = [handler EXCEPT ![t][s] = [h EXCEPT !.st = label]]
    BY <1>6 DEF ConnectFails, CommandFails, ReportNothing, CloseAcked, Close
  <2>3. UNCHANGED <<masterVars, disk, reports, deletions>>
    BY <1>6 DEF ConnectFails, CommandFails, ReportNothing, CloseAcked, Close
  <2>4. label \in HandlerStates \ {"none"}
    BY DEF HandlerStates
  <2> QED BY <2>1, <2>2, <2>3, <2>4, <1>3, <1>4, <1>5
<1>7. CASE Disconnect(t, s)
  <2>1. handler' = [handler EXCEPT ![t][s] = [h EXCEPT !.st = "stopped", !.fwd = FALSE]]
    BY <1>7 DEF Disconnect
  <2> QED BY <1>7, <2>1, <1>3 DEF Disconnect, HandlerStates
<1>8. ASSUME NEW x \in Handler
      PROVE  Taken(x) \in Handler /\ Taken(x).file = x.file /\ Taken(x).st = x.st
  <2>1. (IF x.change = 1 THEN 1 ELSE 2) \in 0 .. 2 /\ (x.dst # NoSlave) \in BOOLEAN
    OBVIOUS
  <2> QED BY <2>1 DEF Handler, Taken
<1>9. ASSUME NEW y \in Slaves, NEW x, x.file \in Files, Overwrite(y, x)
      PROVE  disk' \in [Slaves -> [Files -> Stamps \cup {0}]]
  <2>1. PICK v \in Stamps : disk' = [disk EXCEPT ![y][x.file] = v]
    BY <1>9 DEF Overwrite
  <2> QED BY <1>9, <2>1 DEF SlaveType
<1>10. CASE Connect(t, s)
  <2>1. h.st = "started" /\ h.file \in Files /\ UNCHANGED <<masterVars, reports, deletions>>
    BY <1>10, <1>2 DEF Connect
  <2>2. CASE UNCHANGED disk /\ handler' = [handler EXCEPT ![t][s] = [h EXCEPT !.st = "serving"]]
    <3>1. "serving" \in HandlerStates \ {"none"}
      BY DEF HandlerStates
    <3> QED BY <2>1, <2>2, <3>1, <1>3, <1>4, <1>5
  <2>3. CASE /\ Overwrite(s, h)
             /\ handler' = [handler EXCEPT ![t][s] = [h EXCEPT !.st = "serving", !.change = 1]]
    <3> DEFINE g == [h EXCEPT !.st = "serving", !.change = 1]
    <3>1. g \in Handler /\ g.file = h.file /\ g.st = "serving"
      <4>1. ASSUME NEW x \in Handler, NEW y, y = [x EXCEPT !.st = "serving", !.change = 1]
            PROVE  y \in Handler /\ y.file = x.file /\ y.st = "serving"
        <5>1. "serving" \in HandlerStates /\ 1 \in 0 .. 2
          BY DEF HandlerStates
        <5>2. y = [st |-> "serving", file |-> x.file, mode |-> x.mode, src |-> x.src,
                   dst |-> x.dst, change |-> 1, fwd |-> x.fwd]
          BY <4>1 DEF Handler
        <5> QED BY <5>1, <5>2 DEF Handler
      <4> QED BY <4>1
    <3>2. handler' = [handler EXCEPT ![t][s] = g]
      BY <2>3
    <3> HIDE DEF g
    <3>3. handler' \in [TransIds -> [Slaves -> Handler]] /\ HandlersKept
      BY <2>1, <3>1, <3>2, HandlerFrame
    <3>4. disk' \in [Slaves -> [Files -> Stamps \cup {0}]]
      BY <2>1, <2>3, <1>9
    <3>5. SlaveType'
      BY <2>1, <3>3, <3>4 DEF SlaveType
    <3> QED BY <2>1, <3>3, <3>5, SlaveFrame
  <2>4. \/ UNCHANGED disk /\ handler' = [handler EXCEPT ![t][s] = [h EXCEPT !.st = "serving"]]
        \/ /\ Overwrite(s, h)
           /\ handler' = [handler EXCEPT ![t][s] = [h EXCEPT !.st = "serving", !.change = 1]]
    BY <1>10 DEF Connect
  <2> QED BY <2>2, <2>3, <2>4
<1>11. CASE ClientWrite(t, s)
  <2>1. /\ h.st = "serving" /\ h.file \in Files /\ UNCHANGED <<masterVars, reports, deletions>>
        /\ Overwrite(s, h) /\ handler' = [handler EXCEPT ![t][s] = Taken(h)]
    BY <1>11, <1>2 DEF ClientWrite, ClientReady, Ready
  <2>2. handler' \in [TransIds -> [Slaves -> Handler]] /\ HandlersKept
    BY <2>1, <1>8, HandlerFrame
  <2>3. SlaveType'
    BY <2>1, <2>2, <1>9 DEF SlaveType
  <2> QED BY <2>1, <2>2, <2>3, SlaveFrame
<1>12. ASSUME NEW x \in Handler
       PROVE  /\ Passed(x) \in Handler /\ Passed(x).file = x.file /\ Passed(x).st = x.st
              /\ x.dst \in Slaves \cup {NoSlave}
  BY DEF Handler, Passed
<1>13. CASE Forward(t, s)
  <2> DEFINE d == h.dst
             g == handler[t][d]
  <2>1. /\ d \in Slaves /\ g.st = "serving" /\ g \in Handler
        /\ Overwrite(d, g)
        /\ handler' = [handler EXCEPT ![t][s] = Passed(h), ![t][d] = Taken(g)]
        /\ UNCHANGED <<masterVars, reports, deletions>>
    BY <1>12, <1>13 DEF Forward, Ready, SlaveType
  <2>2. g.file \in Files
    BY <2>1 DEF IInv, IdsInUse
  <2>3. /\ Passed(h) \in Handler /\ Passed(h).file = h.file /\ Passed(h).st = h.st
        /\ Taken(g) \in Handler /\ Taken(g).file = g.file /\ Taken(g).st = g.st
    BY <2>1, <1>8, <1>12
  <2>4. handler' \in [TransIds -> [Slaves -> Handler]] /\ HandlersKept
    BY <2>1, <2>3, HandlersFrame
  <2>5. SlaveType'
    BY <2>1, <2>2, <2>4, <1>9 DEF SlaveType
  <2> QED BY <2>1, <2>4, <2>5, SlaveFrame
<1>14. CASE ForwardFails(t, s)
  <2> DEFINE d == h.dst
             g == handler[t][d]
             stopped == [g EXCEPT !.st = "stopped"]
  <2>1. d \in Slaves /\ UNCHANGED <<masterVars, disk, reports, deletions>>
    BY <1>12, <1>14 DEF ForwardFails
  <2>2. Passed(h) \in Handler /\ Passed(h).file = h.file /\ Passed(h).st = h.st
    BY <1>12
  <2>3. stopped \in Handler /\ stopped.file = g.file /\ stopped.st = "stopped"
    <3>1. ASSUME NEW x \in Handler
          PROVE  [x EXCEPT !.st = "stopped"] \in Handler /\ [x EXCEPT !.st = "stopped"].file = x.file
                 /\ [x EXCEPT !.st = "stopped"].st = "stopped"
      BY DEF Handler, HandlerStates
    <3>2. g \in Handler
      BY <2>1 DEF SlaveType
    <3> QED BY <3>1, <3>2
  <2>4. \/ handler' = [handler EXCEPT ![t][s] = Passed(h)]
        \/ g.st = "serving" /\ handler' = [handler EXCEPT ![t][s] = Passed(h), ![t][d] = stopped]
    BY <1>14 DEF ForwardFails, Ready
  <2> HIDE DEF stopped
  <2>5. handler' \in [TransIds -> [Slaves -> Handler]] /\ HandlersKept
    BY <2>1, <2>2, <2>3, <2>4, HandlerFrame, HandlersFrame
  <2>6. SlaveType'
    BY <2>1, <2>5 DEF SlaveType
  <2> QED BY <2>1, <2>5, <2>6, SlaveFrame
<1>15. CASE SendReport(t, s)
  <2> DEFINE r == [trans |-> t, slave |-> s, file |-> h.file, change |-> h.change, stamp |-> disk[s][h.file]]
             g == [h EXCEPT !.st = "reporting"]
  <2>1. /\ h.st = "stopped" /\ disk[s][h.file] # 0 /\ reports' = reports \cup {r}
        /\ handler' = [handler EXCEPT ![t][s] = g]
        /\ UNCHANGED <<masterVars, disk, deletions>>
    BY <1>15 DEF SendReport
  <2>2. g \in Handler /\ g.file = h.file /\ g.st = "reporting"
    BY DEF Handler, HandlerStates
  <2>3. handler' \in [TransIds -> [Slaves -> Handler]] /\ HandlersKept
    BY <2>1, <2>2, HandlerFrame
  <2>4. r \in Report
    <3>1. h.file \in Files /\ disk[s][h.file] \in Stamps
      BY <1>2, <2>1 DEF SlaveType
    <3> QED BY <3>1 DEF Report
  <2>5. SlaveType'
    BY <2>1, <2>3, <2>4 DEF SlaveType
  <2>6. \A x \in reports' : x \in reports \/ handler[x.trans][x.slave].st # "none"
    BY <2>1
  <2> QED BY <2>1, <2>3, <2>5, <2>6, SlaveFrame
<1> QED BY <1>6, <1>7, <1>10, <1>11, <1>13, <1>14, <1>15 DEF HandlerStep

-----------------------------------------------------------------------------
(* The theorems. *)

\* Every step keeps the invariant: it is inductive.
LEMMA NextKeepsIInv == IInv /\ [Next]_vars => IInv'
<1> SUFFICES ASSUME IInv, [Next]_vars PROVE IInv'
  OBVIOUS
<1>1. ASSUME NEW w \in Workers, OpenStep(w) \/ ReportStep(w) \/ DeleteStep(w) PROVE IInv'
  BY <1>1, OpenKeepsIInv, ReportKeepsIInv, DeleteKeepsIInv
<1>2. ASSUME NEW s \in Slaves, NEW f \in Files, DeleteLocal(s, f) PROVE IInv'
  BY <1>2, DeleteLocalKeepsIInv
<1>3. ASSUME NEW t \in TransIds, NEW s \in Slaves, HandlerStep(t, s) PROVE IInv'
  BY <1>3, HandlerKeepsIInv
<1>4. CASE UNCHANGED vars
  <2>1. TypeOK'
    BY <1>4 DEF IInv, TypeOK, MasterType, WorkerType, SlaveType, vars
  <2>2. IdsInUse'
    BY <1>4 DEF IInv, IdsInUse, WorkerInUse, Opening, Solicited, vars
  <2>3. OwnerCurrent' /\ KeysOwned'
    BY <1>4 DEF IInv, OwnerCurrent, KeysOwned, LockedBy, HoldsKey, AboutToList, vars
  <2> QED BY <2>1, <2>2, <2>3 DEF IInv
<1> QED BY <1>1, <1>2, <1>3, <1>4 DEF Next

\* The invariant holds in every reachable state.
THEOREM InductiveInvariant == Spec => []IInv
<1> QED BY InitIInv, NextKeepsIInv, PTL DEF Spec

\* The master, its workers and the slaves keep their types; in particular a
\* worker that is between two calls of the open handler always has a next
\* slave in its chain to start.
THEOREM TypeCorrect == Spec => []TypeOK
<1>1. IInv => TypeOK
  BY DEF IInv
<1> QED BY <1>1, InductiveInvariant, PTL

\* No key is left behind in a lock set: whatever fails, a key has a listed
\* transaction, or an open about to list one, that a report can release.
THEOREM KeysHaveOwners == Spec => []LockHasOwner
<1>1. IInv => LockHasOwner
  BY DEF IInv, KeysOwned, LockHasOwner, HoldsKey, AboutToList
<1> QED BY <1>1, InductiveInvariant, PTL

-----------------------------------------------------------------------------
(* Files with one copy: what a step leaves alone. *)

\* The types that the proofs below use.
LEMMA Typed ==
  ASSUME IInv
  PROVE  /\ MasterType /\ WorkerType /\ SlaveType
         /\ \A t \in TransIds, s \in Slaves :
              /\ handler[t][s] \in Handler
              /\ handler[t][s].st # "none" => handler[t][s].file \in Files /\ t < nextTrans
         /\ \A f \in Files : meta[f] \in Entry
         /\ \A r \in reports : r \in Report
         /\ \A w \in Workers :
              /\ pc[w] \in OpenPC => job[w] \in OpenJob /\ job[w].file \in Files
              /\ pc[w] \in ReportPC => job[w].report \in Report
              /\ pc[w] \in {"rpc", "addSlave"} => job[w].trans \in TransIds /\ job[w].trans < nextTrans
<1>1. MasterType /\ WorkerType /\ SlaveType /\ IdsInUse
  BY DEF IInv, TypeOK
<1>2. \A t \in TransIds, s \in Slaves :
        /\ handler[t][s] \in Handler
        /\ handler[t][s].st # "none" => handler[t][s].file \in Files /\ t < nextTrans
  BY <1>1 DEF SlaveType, IdsInUse
<1>3. (\A f \in Files : meta[f] \in Entry) /\ (\A r \in reports : r \in Report)
  BY <1>1 DEF MasterType, SlaveType
<1>4. \A w \in Workers :
        /\ pc[w] \in OpenPC => job[w] \in OpenJob /\ job[w].file \in Files
        /\ pc[w] \in ReportPC => job[w].report \in Report
        /\ pc[w] \in {"rpc", "addSlave"} => job[w].trans \in TransIds /\ job[w].trans < nextTrans
  BY <1>1 DEF WorkerType, IdsInUse, WorkerInUse, OpenJob, ReportJob
<1> QED BY <1>1, <1>2, <1>3, <1>4

\* The fields of a report.
LEMMA ReportFields ==
  ASSUME NEW r \in Report
  PROVE  r.trans \in TransIds /\ r.slave \in Slaves /\ r.file \in Files /\ r.change \in 0 .. 2
  BY DEF Report

\* A step of one worker that moves no copy.
LEMMA CopiesFrame ==
  ASSUME IInv, CopiesStay, NEW w \in Workers, NEW label, NEW j, Goto(w, label, j),
         UNCHANGED <<disk, deletions>>,
         \A f \in Files : meta'[f].exists = meta[f].exists /\ meta'[f].locs = meta[f].locs,
         label \notin {"create", "lockNew", "remove"},
         label \in {"lock", "begin", "rpc", "addSlave"} => j.file \in Files,
         label = "lock" => j.locs = meta[j.file].locs,
         label \in {"begin", "rpc", "addSlave"} =>
           \E s \in Slaves : meta[j.file].locs = {s} /\ j.addr = <<s>>
  PROVE  CopiesStay'
<1>1. WorkerType
  BY Typed
<1>2. \A f \in Files : \E s \in Slaves : CopyAt(f, s)'
  BY DEF CopiesStay, CopyAt
<1>3. FindsCopy(w)'
  BY <1>1, GotoFrame DEF FindsCopy
<1>4. ASSUME NEW x \in Workers \ {w} PROVE FindsCopy(x)'
  <2>1. pc'[x] = pc[x] /\ job'[x] = job[x] /\ FindsCopy(x)
    BY <1>1, GotoFrame DEF CopiesStay
  <2>2. pc[x] \in {"lock", "begin", "rpc", "addSlave"} => job[x].file \in Files
    BY Typed DEF OpenPC
  <2> QED BY <2>1, <2>2 DEF FindsCopy
<1> QED BY <1>2, <1>3, <1>4 DEF CopiesStay

\* A step of one worker that starts no handler, and lists every transaction that is listed
\* as it was.
LEMMA HandlersStay ==
  ASSUME IInv, OneHandler, NEW w \in Workers, NEW label, NEW j, Goto(w, label, j), label # "rpc",
         UNCHANGED handler,
         \A f \in Files : meta'[f].locs = meta[f].locs,
         \A t \in TransIds : trans[t].listed =>
           trans'[t].listed /\ trans'[t].file = trans[t].file /\ trans'[t].mode = trans[t].mode
  PROVE  OneHandler'
<1>1. WorkerType
  BY Typed
<1>2. ASSUME NEW t \in TransIds, NEW s \in Slaves, handler[t][s].st # "none"
      PROVE  /\ Alone(handler[t][s]) /\ meta'[handler[t][s].file].locs = {s}
             /\ \A s2 \in Slaves : handler[t][s2].st # "none" => s2 = s
             /\ AtWork(t, s)' => Listed(t, handler[t][s].file, handler[t][s].mode)'
  <2>1. handler[t][s].file \in Files
    BY <1>2, Typed
  <2> QED BY <1>2, <2>1 DEF OneHandler, AtWork, Listed
<1>3. ASSUME NEW x \in Workers, pc'[x] = "rpc"
      PROVE  /\ pc[x] = "rpc" /\ job'[x] = job[x] /\ job[x].trans \in TransIds
             /\ Listed(job[x].trans, job[x].file, job[x].mode)'
             /\ \A s \in Slaves : handler[job[x].trans][s].st = "none"
             /\ \A w2 \in Workers : pc'[w2] = "rpc" /\ job'[w2].trans = job'[x].trans => w2 = x
  <2>1. \A y \in Workers : pc'[y] = "rpc" => pc[y] = "rpc" /\ job'[y] = job[y]
    BY <1>1, GotoFrame
  <2>2. pc[x] = "rpc" /\ job'[x] = job[x] /\ job[x].trans \in TransIds
    BY <1>3, <2>1, Typed
  <2> QED BY <2>1, <2>2 DEF OneHandler, Listed
<1>4. (\A t \in TransIds, s \in Slaves : handler[t][s].st # "none" =>
         /\ Alone(handler[t][s]) /\ meta[handler[t][s].file].locs = {s}
         /\ \A s2 \in Slaves : handler[t][s2].st # "none" => s2 = s
         /\ AtWork(t, s) => Listed(t, handler[t][s].file, handler[t][s].mode))'
  BY <1>2 DEF Alone
<1>5. (\A x \in Workers : pc[x] = "rpc" =>
         /\ Listed(job[x].trans, job[x].file, job[x].mode)
         /\ \A s \in Slaves : handler[job[x].trans][s].st = "none"
         /\ \A w2 \in Workers : pc[w2] = "rpc" /\ job[w2].trans = job[x].trans => w2 = x)'
  BY <1>3
<1> QED BY <1>4, <1>5 DEF OneHandler

\* A step of one worker that has no report at hand and takes none, or goes on with it.
LEMMA ReportsStay ==
  ASSUME IInv, OneReport, NEW w \in Workers, NEW label, NEW j, Goto(w, label, j),
         UNCHANGED <<handler, disk, reports>>,
         \/ pc[w] \notin ReportPC /\ label \notin ReportPC
         \/ pc[w] \in ReportPC /\ label \in {"unlock", "retire"} /\ j = job[w]
  PROVE  OneReport'
<1>1. WorkerType
  BY Typed
<1>2. \A x \in Workers : pc'[x] \in ReportPC =>
        pc[x] \in ReportPC /\ job'[x] = job[x] /\ (pc'[x] = "update" => pc[x] = "update")
  BY <1>1, GotoFrame DEF ReportPC
<1>3. \A x \in Workers, t \in TransIds : Handles(x, t, ReportPC)' => Handles(x, t, ReportPC)
  BY <1>2 DEF Handles
<1>4. ASSUME NEW r \in reports
      PROVE  /\ ReportTrue(r)' /\ StampTrue(r)'
             /\ \A r2 \in reports : r2.trans = r.trans => r2 = r
             /\ \A x \in Workers : ~Handles(x, r.trans, ReportPC)'
  <2>1. r.trans \in TransIds
    BY Typed, ReportFields
  <2> QED BY <1>3, <2>1 DEF OneReport, ReportTrue, StampTrue
<1>5. ASSUME NEW x \in Workers, pc'[x] \in ReportPC
      PROVE  /\ ReportTrue(job[x].report)' /\ OwnerTrue(job[x].owner, job[x].report)'
             /\ pc'[x] = "update" => StampTrue(job[x].report)'
             /\ \A w2 \in Workers : Handles(w2, job[x].report.trans, ReportPC)' => w2 = x
  <2>1. pc[x] \in ReportPC /\ job'[x] = job[x] /\ (pc'[x] = "update" => pc[x] = "update")
    BY <1>2, <1>5
  <2>2. job[x].report.trans \in TransIds
    BY <2>1, Typed, ReportFields
  <2>3. /\ ReportTrue(job[x].report) /\ OwnerTrue(job[x].owner, job[x].report)
        /\ pc'[x] = "update" => StampTrue(job[x].report)
    BY <2>1 DEF OneReport
  <2>4. ReportTrue(job[x].report)' /\ OwnerTrue(job[x].owner, job[x].report)'
    BY <2>1, <2>3 DEF ReportTrue, OwnerTrue
  <2>5. pc'[x] = "update" => StampTrue(job[x].report)'
    BY <2>1, <2>3 DEF StampTrue
  <2>6. \A w2 \in Workers : Handles(w2, job[x].report.trans, ReportPC)' => w2 = x
    BY <1>3, <2>1, <2>2 DEF OneReport
  <2> QED BY <2>4, <2>5, <2>6
<1>6. ASSUME NEW x \in Workers, pc'[x] \in ReportPC PROVE job'[x] = job[x]
  BY <1>2, <1>6
<1> QED BY <1>4, <1>5, <1>6 DEF OneReport, ReportTrue, StampTrue, OwnerTrue

\* A step after which no worker and no transaction writes that did not before.
LEMMA NoMoreWriters ==
  ASSUME WritersExclude,
         \A f \in Files, w \in Workers : OpensToWrite(w, f)' => OpensToWrite(w, f),
         \A f \in Files, t \in TransIds : Writes(t, f)' => Writes(t, f),
         \A f \in Files : locks[f]["WRITE"] # {} => locks'[f]["WRITE"] # {}
  PROVE  WritersExclude'
  BY DEF WritersExclude

\* A step after which all is unreported that was before.
LEMMA StillReported ==
  ASSUME WritesReported, UNCHANGED disk,
         \A f \in Files : meta'[f].locs = meta[f].locs /\ meta'[f].stamp = meta[f].stamp,
         \A t \in TransIds, s \in Slaves, f \in Files : Unreported(t, s, f) => Unreported(t, s, f)'
  PROVE  WritesReported'
  BY DEF WritesReported

\* A worker without a report at hand that takes none: what is written is as unreported as
\* before.
LEMMA NoReportMoves ==
  ASSUME IInv, NEW w \in Workers, NEW label, NEW j, Goto(w, label, j), UNCHANGED handler,
         pc[w] \notin ReportPC, label \notin ReportPC
  PROVE  /\ \A t \in TransIds, f \in Files : Writes(t, f)' => Writes(t, f)
         /\ \A t \in TransIds, s \in Slaves, f \in Files : Unreported(t, s, f) => Unreported(t, s, f)'
<1>1. WorkerType
  BY Typed
<1>2. \A x \in Workers, t \in TransIds, places \in SUBSET ReportPC : Handles(x, t, places)' <=> Handles(x, t, places)
  BY <1>1, GotoFrame DEF Handles
<1>3. {"retire"} \in SUBSET ReportPC /\ {"unlock", "retire"} \in SUBSET ReportPC
  BY DEF ReportPC
<1> QED BY <1>2, <1>3 DEF Writes, Unreported, AtWork

-----------------------------------------------------------------------------
(* The handler of open. *)

\* A step of the handler of open that leaves files, locks and handlers alone, lists what
\* was listed, and starts no writer.
LEMMA OpenStays ==
  ASSUME IInv, OneCopyInv, NEW w \in Workers, NEW label, NEW j, Goto(w, label, j),
         UNCHANGED <<meta, locks, handler, disk, reports, deletions>>,
         \A t \in TransIds : trans[t].listed =>
           trans'[t].listed /\ trans'[t].file = trans[t].file /\ trans'[t].mode = trans[t].mode,
         pc[w] \notin ReportPC,
         label \in {"idle", "lock", "addSlave"},
         label \in {"lock", "addSlave"} => j.file \in Files,
         label = "lock" => j.locs = meta[j.file].locs,
         label = "addSlave" => \E s \in Slaves : meta[j.file].locs = {s} /\ j.addr = <<s>>
  PROVE  OneCopyInv'
<1>1. CopiesStay'
  BY CopiesFrame DEF OneCopyInv
<1>2. OneHandler'
  BY HandlersStay DEF OneCopyInv
<1>3. label \notin ReportPC
  BY DEF ReportPC
<1>4. OneReport'
  BY <1>3, ReportsStay DEF OneCopyInv
<1>5. \A f \in Files, x \in Workers : OpensToWrite(x, f)' => OpensToWrite(x, f)
  BY GotoFrame, Typed DEF OpensToWrite
<1>6. WritersExclude'
  BY <1>3, <1>5, NoReportMoves, NoMoreWriters DEF OneCopyInv
<1>7. WritesReported'
  BY <1>3, NoReportMoves, StillReported DEF OneCopyInv
<1> QED BY <1>1, <1>2, <1>4, <1>6, <1>7 DEF OneCopyInv

\* An open finds the file, for it is there.
LEMMA OpenExistingKeeps ==
  ASSUME IInv, OneCopyInv, NEW w \in Workers, NEW u \in Users, NEW f \in Files, NEW mode \in Modes,
         OpenNew(w, u, f, mode) \/ OpenExisting(w, u, f, mode)
  PROVE  OneCopyInv'
<1> DEFINE jb == NewOpenJob(u, f, mode)
<1>1. meta[f].exists
  BY DEF OneCopyInv, CopiesStay, CopyAt
<1>2. /\ pc[w] = "idle" /\ Goto(w, "lock", jb)
      /\ UNCHANGED <<meta, locks, trans, handler, disk, reports, deletions>>
  BY <1>1 DEF OpenNew, OpenExisting, slaveVars
<1>3. jb.file = f /\ jb.locs = meta[f].locs
  BY DEF NewOpenJob
<1>4. pc[w] \notin ReportPC
  BY <1>2 DEF ReportPC
<1> HIDE DEF jb
<1> QED BY <1>2, <1>3, <1>4, OpenStays

LEMMA LockBusyKeeps ==
  ASSUME IInv, OneCopyInv, NEW w \in Workers, LockBusy(w)
  PROVE  OneCopyInv'
<1>1. pc[w] \notin ReportPC /\ Goto(w, "idle", NoJob)
  BY DEF LockBusy, Finish, ReportPC
<1>2. UNCHANGED <<meta, locks, trans, handler, disk, reports, deletions>>
  BY DEF LockBusy, slaveVars
<1> QED BY <1>1, <1>2, OpenStays

LEMMA RpcFailsKeeps ==
  ASSUME IInv, OneCopyInv, NEW w \in Workers, RpcFails(w)
  PROVE  OneCopyInv'
<1>1. pc[w] = "rpc" /\ pc[w] \notin ReportPC /\ Goto(w, "addSlave", job[w])
  BY DEF RpcFails, ReportPC
<1>2. UNCHANGED <<meta, locks, trans, handler, disk, reports, deletions>>
  BY DEF RpcFails, slaveVars
<1>3. job[w].file \in Files /\ \E s \in Slaves : meta[job[w].file].locs = {s} /\ job[w].addr = <<s>>
  BY <1>1, Typed DEF OpenPC, OneCopyInv, CopiesStay, FindsCopy
<1> QED BY <1>1, <1>2, <1>3, OpenStays

\* There is one slave to start, so the open is over.
LEMMA AddSlaveKeeps ==
  ASSUME IInv, OneCopyInv, NEW w \in Workers, AddSlave(w)
  PROVE  OneCopyInv'
<1>1. pc[w] = "addSlave" /\ pc[w] \notin ReportPC
  BY DEF AddSlave, ReportPC
<1>2. PICK s \in Slaves : job[w].addr = <<s>>
  BY <1>1 DEF OneCopyInv, CopiesStay, FindsCopy
<1>3. job[w].next \in 1 .. Len(job[w].addr) /\ job[w].trans \in TransIds
  BY <1>1 DEF IInv, IdsInUse, WorkerInUse
<1>4. job[w].next = 1 /\ Len(job[w].addr) = 1
  BY <1>2, <1>3
<1>5. Goto(w, "idle", NoJob)
  BY <1>4 DEF AddSlave, Finish
<1>6. /\ trans' = [trans EXCEPT ![job[w].trans] = addSlave(@, job[w].addr[job[w].next])]
      /\ UNCHANGED <<meta, locks, handler, disk, reports, deletions>>
  BY DEF AddSlave, slaveVars
<1>7. ASSUME NEW t \in TransIds, trans[t].listed
      PROVE  trans'[t].listed /\ trans'[t].file = trans[t].file /\ trans'[t].mode = trans[t].mode
  <2>1. trans[t] \in Transaction
    BY Typed DEF MasterType
  <2>2. trans'[t] = trans[t] \/ trans'[t] = addSlave(trans[t], job[w].addr[job[w].next])
    BY <1>3, <1>6, Typed DEF MasterType
  <2> QED BY <1>7, <2>1, <2>2 DEF addSlave, Transaction
<1> QED BY <1>1, <1>5, <1>6, <1>7, OpenStays

\* A lock on a file with one copy leads to that copy.
LEMMA OneCopyChosen ==
  ASSUME NEW s \in Slaves, NEW mode, NEW q \in chooseIONode({s}, mode)
  PROVE  q = <<s>>
<1>1. Cardinality({s}) = 1
  BY FS_Singleton
<1>2. CASE "WRITE" \notin mode
  BY <1>2 DEF chooseIONode, HolderChains
<1>3. CASE "WRITE" \in mode
  <2>1. q \in [1 .. 1 -> {s}]
    BY <1>1, <1>3 DEF chooseIONode, HolderChains, InjectiveChains
  <2>2. <<s>> \in [1 .. 1 -> {s}]
    OBVIOUS
  <2>3. q[1] = s /\ <<s>>[1] = s
    BY <2>1
  <2>4. \A i \in 1 .. 1 : q[i] = <<s>>[i]
    BY <2>3
  <2> QED BY <2>1, <2>2, <2>4
<1> QED BY <1>2, <1>3

\* The write lock is given to one open at a time, and never while there is a writer.
LEMMA LockKeeps ==
  ASSUME IInv, OneCopyInv, NEW w \in Workers, Lock(w)
  PROVE  OneCopyInv'
<1> DEFINE j == job[w]
           f == j.file
<1>1. /\ pc[w] = "lock" /\ LockGranted(locks[f], j.mode) /\ f \in Files /\ j \in OpenJob
      /\ locks' = [locks EXCEPT ![f] = Locked(@, j.user, j.mode)]
      /\ UNCHANGED <<meta, trans, handler, disk, reports, deletions>>
  BY Typed DEF Lock, OpenPC, slaveVars
<1>2. PICK s \in Slaves : meta[f].locs = {s} /\ j.locs = {s}
  BY <1>1 DEF OneCopyInv, CopiesStay, CopyAt, FindsCopy
<1>3. PICK q \in chooseIONode(j.locs, j.mode) : Goto(w, "begin", [j EXCEPT !.addr = q])
  BY DEF Lock
<1>4. q = <<s>>
  BY <1>2, <1>3, OneCopyChosen
<1> DEFINE jb == [j EXCEPT !.addr = q]
<1>5. jb.file = f /\ jb.mode = j.mode /\ jb.addr = <<s>>
  BY <1>1, <1>4 DEF OpenJob
<1>6. Goto(w, "begin", jb)
  BY <1>3
<1> HIDE DEF jb
<1>7. WorkerType /\ pc[w] \notin ReportPC /\ "begin" \notin ReportPC
  BY <1>1, Typed DEF ReportPC
<1>8. CopiesStay'
  BY <1>1, <1>2, <1>5, <1>6, CopiesFrame DEF OneCopyInv
<1>9. OneHandler'
  BY <1>1, <1>6, HandlersStay DEF OneCopyInv
<1>10. OneReport'
  BY <1>1, <1>6, <1>7, ReportsStay DEF OneCopyInv
<1>11. WritesReported'
  BY <1>1, <1>6, <1>7, NoReportMoves, StillReported DEF OneCopyInv
<1>12. \A g \in Files \ {f} : locks'[g]["WRITE"] = locks[g]["WRITE"]
  BY <1>1, Typed DEF MasterType
<1>13. \A g \in Files, t \in TransIds : Writes(t, g)' => Writes(t, g)
  BY <1>1, <1>6, <1>7, NoReportMoves
<1>14. ASSUME NEW x \in Workers, NEW g \in Files, OpensToWrite(x, g)'
       PROVE  OpensToWrite(x, g) \/ (x = w /\ g = f /\ "WRITE" \in j.mode)
  BY <1>5, <1>6, <1>7, <1>14, GotoFrame DEF OpensToWrite
<1>15. locks'[f] = Locked(locks[f], j.user, j.mode)
  BY <1>1, Typed DEF MasterType
<1>16. CASE "WRITE" \notin j.mode
  <2>1. locks'[f]["WRITE"] = locks[f]["WRITE"]
    BY <1>15, <1>16, Typed DEF Locked, LockKinds, MasterType, LockSet
  <2> QED BY <1>12, <1>13, <1>14, <1>16, <2>1, <1>8, <1>9, <1>10, <1>11, NoMoreWriters DEF OneCopyInv
<1>17. CASE "WRITE" \in j.mode
  <2>1. locks[f]["WRITE"] = {}
    BY <1>1, <1>17 DEF LockGranted
  <2>2. locks'[f]["WRITE"] # {}
    BY <1>1, <1>15, <1>17, Typed DEF Locked, LockKinds
  <2>3. (\A x \in Workers : ~OpensToWrite(x, f)) /\ (\A t \in TransIds : ~Writes(t, f))
    BY <2>1, <1>1 DEF OneCopyInv, WritersExclude
  <2>4. WritersExclude'
    BY <1>12, <1>13, <1>14, <2>2, <2>3 DEF OneCopyInv, WritersExclude
  <2> QED BY <2>4, <1>8, <1>9, <1>10, <1>11 DEF OneCopyInv
<1> QED BY <1>16, <1>17

\* The transaction that an open lists has a number of its own.
LEMMA BeginKeeps ==
  ASSUME IInv, OneCopyInv, NEW w \in Workers, Begin(w)
  PROVE  OneCopyInv'
<1> DEFINE j == job[w]
           n == nextTrans
           new == NewTransaction(j.file, j.user, j.mode)
           jb == [j EXCEPT !.trans = n]
<1>1. /\ pc[w] = "begin" /\ n \in TransIds /\ j.file \in Files /\ j \in OpenJob
      /\ trans' = [trans EXCEPT ![n] = new]
      /\ UNCHANGED <<meta, locks, handler, disk, reports, deletions>>
  BY Typed DEF Begin, OpenPC, slaveVars
<1>2. PICK s \in Slaves : meta[j.file].locs = {s} /\ j.addr = <<s>>
  BY <1>1 DEF OneCopyInv, CopiesStay, FindsCopy
<1>3. Goto(w, "rpc", jb)
  <2>1. j.addr # <<>>
    BY <1>2
  <2> QED BY <2>1 DEF Begin
<1>4. jb.file = j.file /\ jb.mode = j.mode /\ jb.addr = <<s>> /\ jb.trans = n
  BY <1>1, <1>2 DEF OpenJob
<1>5. new.listed /\ new.file = j.file /\ new.mode = j.mode
  BY DEF NewTransaction
<1>6. trans'[n] = new /\ \A t \in TransIds \ {n} : trans'[t] = trans[t]
  BY <1>1, Typed DEF MasterType
<1> HIDE DEF jb, new
<1>7. WorkerType /\ pc[w] \notin ReportPC /\ "rpc" \notin ReportPC
  BY <1>1, Typed DEF ReportPC
<1>8. CopiesStay'
  BY <1>1, <1>2, <1>3, <1>4, CopiesFrame DEF OneCopyInv
<1>9. OneReport'
  BY <1>1, <1>3, <1>7, ReportsStay DEF OneCopyInv
<1>10. WritesReported'
  BY <1>1, <1>3, <1>7, NoReportMoves, StillReported DEF OneCopyInv
<1>11. WritersExclude'
  <2>1. \A g \in Files, t \in TransIds : Writes(t, g)' => Writes(t, g)
    BY <1>1, <1>3, <1>7, NoReportMoves
  <2>2. \A g \in Files, x \in Workers : OpensToWrite(x, g)' => OpensToWrite(x, g)
    BY <1>1, <1>3, <1>4, <1>7, GotoFrame DEF OpensToWrite
  <2> QED BY <1>1, <2>1, <2>2, NoMoreWriters DEF OneCopyInv
<1>12. \A t \in TransIds, y \in Slaves : handler[t][y].st # "none" => t # n
  BY <1>1, Typed, MaxTransAssumption
<1>13. ASSUME NEW t \in TransIds, NEW y \in Slaves, handler[t][y].st # "none"
       PROVE  /\ Alone(handler[t][y]) /\ meta[handler[t][y].file].locs = {y}
              /\ \A s2 \in Slaves : handler[t][s2].st # "none" => s2 = y
              /\ AtWork(t, y) => Listed(t, handler[t][y].file, handler[t][y].mode)'
  BY <1>1, <1>6, <1>12, <1>13 DEF OneCopyInv, OneHandler, Listed
<1>14. ASSUME NEW x \in Workers, pc'[x] = "rpc"
       PROVE  /\ Listed(job[x].trans, job[x].file, job[x].mode)'
              /\ \A y \in Slaves : handler[job'[x].trans][y].st = "none"
              /\ \A w2 \in Workers : pc'[w2] = "rpc" /\ job'[w2].trans = job'[x].trans => w2 = x
  <2>1. job'[w] = jb
    BY <1>3, <1>7, GotoFrame
  <2>2. \A y \in Workers \ {w} : pc'[y] = "rpc" => pc[y] = "rpc" /\ job'[y] = job[y] /\ job[y].trans \in TransIds /\ job[y].trans # n
    BY <1>1, <1>3, <1>7, GotoFrame, Typed, MaxTransAssumption
  <2>3. CASE x = w
    <3>1. Listed(job[x].trans, job[x].file, job[x].mode)'
      BY <2>1, <2>3, <1>4, <1>5, <1>6 DEF Listed
    <3>2. \A y \in Slaves : handler[n][y].st = "none"
      BY <1>12, <1>1
    <3> QED BY <2>1, <2>2, <2>3, <3>1, <3>2, <1>4
  <2>4. CASE x # w
    <3>1. pc[x] = "rpc" /\ job'[x] = job[x] /\ job[x].trans \in TransIds /\ job[x].trans # n
      BY <2>2, <2>4, <1>14
    <3>2. Listed(job[x].trans, job[x].file, job[x].mode) /\ \A y \in Slaves : handler[job[x].trans][y].st = "none"
      BY <3>1 DEF OneCopyInv, OneHandler
    <3>3. Listed(job[x].trans, job[x].file, job[x].mode)'
      BY <3>1, <3>2, <1>6 DEF Listed
    <3>4. \A w2 \in Workers : pc'[w2] = "rpc" /\ job'[w2].trans = job'[x].trans => w2 = x
      BY <3>1, <2>1, <2>2, <1>4 DEF OneCopyInv, OneHandler
    <3> QED BY <3>1, <3>2, <3>3, <3>4
  <2> QED BY <2>3, <2>4
<1>15. OneHandler'
  <2>1. handler' = handler /\ meta' = meta
    BY <1>1
  <2>2. (\A t \in TransIds, y \in Slaves : handler[t][y].st # "none" =>
           /\ Alone(handler[t][y]) /\ meta[handler[t][y].file].locs = {y}
           /\ \A s2 \in Slaves : handler[t][s2].st # "none" => s2 = y
           /\ AtWork(t, y) => Listed(t, handler[t][y].file, handler[t][y].mode))'
    BY <2>1, <1>13 DEF Alone, AtWork
  <2>3. (\A x \in Workers : pc[x] = "rpc" =>
           /\ Listed(job[x].trans, job[x].file, job[x].mode)
           /\ \A y \in Slaves : handler[job[x].trans][y].st = "none"
           /\ \A w2 \in Workers : pc[w2] = "rpc" /\ job[w2].trans = job[x].trans => w2 = x)'
    BY <2>1, <1>14
  <2> QED BY <2>2, <2>3 DEF OneHandler
<1> QED BY <1>8, <1>9, <1>10, <1>11, <1>15 DEF OneCopyInv

\* One handler is replaced.
HandlerBecomes(t, s, g) ==
  \A x \in TransIds, y \in Slaves : handler'[x][y] = IF x = t /\ y = s THEN g ELSE handler[x][y]

LEMMA Becomes ==
  ASSUME IInv, NEW t \in TransIds, NEW s \in Slaves, NEW g, handler' = [handler EXCEPT ![t][s] = g]
  PROVE  HandlerBecomes(t, s, g)
  BY Typed DEF SlaveType, HandlerBecomes

\* A handler is started, once in a transaction: the open that was a writer becomes one.
LEMMA RpcKeeps ==
  ASSUME IInv, OneCopyInv, NEW w \in Workers, Rpc(w)
  PROVE  OneCopyInv'
<1> DEFINE j == job[w]
           n == j.trans
           f == j.file
<1>1. /\ pc[w] = "rpc" /\ n \in TransIds /\ f \in Files /\ j \in OpenJob /\ Goto(w, "addSlave", j)
      /\ UNCHANGED <<meta, locks, trans, disk, reports, deletions>>
  BY Typed DEF Rpc, OpenPC
<1>2. PICK s \in Slaves : meta[f].locs = {s} /\ j.addr = <<s>>
  BY <1>1 DEF OneCopyInv, CopiesStay, FindsCopy
<1>3. j.next = 1 /\ Len(j.addr) = 1
  <2>1. j.next \in 1 .. Len(j.addr)
    BY <1>1 DEF IInv, IdsInUse, WorkerInUse
  <2> QED BY <1>2, <2>1
<1> DEFINE g == NewHandler(j)
<1>4. /\ g.st = "started" /\ g.file = f /\ g.mode = j.mode /\ g.src = NoSlave /\ g.dst = NoSlave
      /\ g.change = 0 /\ g.fwd = FALSE
  BY <1>3 DEF NewHandler
<1>5. handler' = [handler EXCEPT ![n][s] = g]
  <2>1. j.addr[j.next] = s
    BY <1>2, <1>3
  <2> QED BY <2>1 DEF Rpc
<1> HIDE DEF g
<1>6. HandlerBecomes(n, s, g)
  BY <1>1, <1>5, Becomes
<1>7. WorkerType /\ pc[w] \notin ReportPC /\ "addSlave" \notin ReportPC
  BY <1>1, Typed DEF ReportPC
<1>8. /\ \A y \in Slaves : handler[n][y].st = "none"
      /\ Listed(n, f, j.mode)
      /\ \A x \in Workers : pc[x] = "rpc" /\ job[x].trans = n => x = w
  BY <1>1 DEF OneCopyInv, OneHandler
<1>9. CopiesStay'
  BY <1>1, <1>2, CopiesFrame DEF OneCopyInv
<1>10. \A x \in Workers : pc'[x] # "addSlave" => x # w
  BY <1>1, <1>7, GotoFrame
<1>11. \A x \in Workers \ {w} : pc'[x] = pc[x] /\ job'[x] = job[x]
  BY <1>1, <1>7, GotoFrame
<1>12. pc'[w] = "addSlave" /\ job'[w] = j
  BY <1>1, <1>7, GotoFrame
\* No report is about the new handler.
<1>13. \A r \in Report : ReportTrue(r) => r.trans # n /\ handler'[r.trans][r.slave] = handler[r.trans][r.slave]
  BY <1>6, <1>8, ReportFields DEF ReportTrue, HandlerBecomes
<1>14. OneReport'
  <2>1. \A x \in Workers, t \in TransIds : Handles(x, t, ReportPC)' <=> Handles(x, t, ReportPC)
    BY <1>7, <1>11, <1>12 DEF Handles
  <2>2. ASSUME NEW r \in reports
        PROVE  /\ ReportTrue(r)' /\ StampTrue(r)'
               /\ \A r2 \in reports : r2.trans = r.trans => r2 = r
               /\ \A x \in Workers : ~Handles(x, r.trans, ReportPC)'
    <3>1. r \in Report /\ r.trans \in TransIds
      BY Typed, ReportFields
    <3>2. ReportTrue(r) /\ StampTrue(r)
      BY DEF OneCopyInv, OneReport
    <3>3. handler'[r.trans][r.slave] = handler[r.trans][r.slave]
      BY <3>1, <3>2, <1>13
    <3>4. ReportTrue(r)' /\ StampTrue(r)'
      BY <3>2, <3>3, <1>1 DEF ReportTrue, StampTrue
    <3> QED BY <3>1, <3>4, <2>1 DEF OneCopyInv, OneReport
  <2>3. ASSUME NEW x \in Workers, pc'[x] \in ReportPC
        PROVE  /\ ReportTrue(job[x].report)' /\ OwnerTrue(job[x].owner, job[x].report)'
               /\ pc'[x] = "update" => StampTrue(job[x].report)'
               /\ \A w2 \in Workers : Handles(w2, job[x].report.trans, ReportPC)' => w2 = x
    <3>1. pc'[x] = pc[x] /\ job'[x] = job[x]
      BY <2>3, <1>7, <1>11, <1>12
    <3> DEFINE r == job[x].report
    <3>2. r \in Report /\ r.trans \in TransIds
      BY <2>3, <3>1, Typed, ReportFields
    <3>3. ReportTrue(r) /\ OwnerTrue(job[x].owner, r) /\ (pc[x] = "update" => StampTrue(r))
      BY <2>3, <3>1 DEF OneCopyInv, OneReport
    <3>4. handler'[r.trans][r.slave] = handler[r.trans][r.slave]
      BY <3>2, <3>3, <1>13
    <3>5. ReportTrue(job[x].report)' /\ OwnerTrue(job[x].owner, job[x].report)'
      BY <3>1, <3>3, <3>4 DEF ReportTrue, OwnerTrue
    <3>6. pc'[x] = "update" => StampTrue(job[x].report)'
      BY <3>1, <3>3, <1>1 DEF StampTrue
    <3>7. \A w2 \in Workers : Handles(w2, job[x].report.trans, ReportPC)' => w2 = x
      BY <3>1, <3>2, <2>1, <2>3 DEF OneCopyInv, OneReport
    <3> QED BY <3>1, <3>5, <3>6, <3>7
  <2> QED BY <1>1, <2>2, <2>3 DEF OneReport
<1>15. OneHandler'
  <2>1. ASSUME NEW t \in TransIds, NEW y \in Slaves, handler'[t][y].st # "none"
        PROVE  /\ Alone(handler'[t][y]) /\ meta[handler'[t][y].file].locs = {y}
               /\ \A s2 \in Slaves : handler'[t][s2].st # "none" => s2 = y
               /\ AtWork(t, y)' => Listed(t, handler'[t][y].file, handler'[t][y].mode)
    <3>1. CASE t = n
      <4>1. y = s /\ handler'[t][y] = g
        BY <3>1, <2>1, <1>6, <1>8 DEF HandlerBecomes
      <4>2. Alone(g)
        BY <1>4 DEF Alone
      <4>3. \A s2 \in Slaves : handler'[t][s2].st # "none" => s2 = y
        BY <4>1, <3>1, <1>6, <1>8 DEF HandlerBecomes
      <4> QED BY <4>1, <4>2, <4>3, <3>1, <1>2, <1>4, <1>8
    <3>2. CASE t # n
      <4>1. \A z \in Slaves : handler'[t][z] = handler[t][z]
        BY <3>2, <1>6 DEF HandlerBecomes
      <4> QED BY <4>1, <2>1 DEF OneCopyInv, OneHandler, AtWork
    <3> QED BY <3>1, <3>2
  <2>2. (\A t \in TransIds, y \in Slaves : handler[t][y].st # "none" =>
           /\ Alone(handler[t][y]) /\ meta[handler[t][y].file].locs = {y}
           /\ \A s2 \in Slaves : handler[t][s2].st # "none" => s2 = y
           /\ AtWork(t, y) => Listed(t, handler[t][y].file, handler[t][y].mode))'
    BY <2>1, <1>1 DEF Alone, Listed
  <2>3. \A x \in Workers : pc'[x] = "rpc" => pc[x] = "rpc" /\ job'[x] = job[x] /\ job[x].trans \in TransIds /\ job[x].trans # n
    BY <1>8, <1>11, <1>12, Typed
  <2>4. ASSUME NEW x \in Workers, pc'[x] = "rpc"
        PROVE  /\ Listed(job[x].trans, job[x].file, job[x].mode)'
               /\ \A y \in Slaves : handler'[job'[x].trans][y].st = "none"
               /\ \A w2 \in Workers : pc'[w2] = "rpc" /\ job'[w2].trans = job'[x].trans => w2 = x
    <3>1. pc[x] = "rpc" /\ job'[x] = job[x] /\ job[x].trans \in TransIds /\ job[x].trans # n
      BY <2>3, <2>4
    <3>2. /\ Listed(job[x].trans, job[x].file, job[x].mode)
          /\ \A y \in Slaves : handler[job[x].trans][y].st = "none"
          /\ \A w2 \in Workers : pc[w2] = "rpc" /\ job[w2].trans = job[x].trans => w2 = x
      BY <3>1 DEF OneCopyInv, OneHandler
    <3>3. \A y \in Slaves : handler'[job[x].trans][y] = handler[job[x].trans][y]
      BY <3>1, <1>6 DEF HandlerBecomes
    <3> QED BY <3>1, <3>2, <3>3, <2>3, <1>1 DEF Listed
  <2> QED BY <2>2, <2>4 DEF OneHandler
<1>16. \A x \in Workers, t \in TransIds, places \in SUBSET ReportPC : Handles(x, t, places)' <=> Handles(x, t, places)
  BY <1>7, <1>11, <1>12 DEF Handles
<1>17. {"retire"} \in SUBSET ReportPC /\ {"unlock", "retire"} \in SUBSET ReportPC
  BY DEF ReportPC
<1>18. WritesReported'
  <2>1. ASSUME NEW t \in TransIds, NEW y \in Slaves, NEW e \in Files, Unreported(t, y, e)
        PROVE  Unreported(t, y, e)'
    <3>1. handler'[t][y] = handler[t][y]
      BY <2>1, <1>6, <1>8 DEF Unreported, AtWork, HandlerBecomes
    <3> QED BY <2>1, <3>1, <1>16, <1>17 DEF Unreported, AtWork
  <2> QED BY <2>1, <1>1, StillReported DEF OneCopyInv
<1>19. WritersExclude'
  <2>1. ASSUME NEW t \in TransIds, NEW e \in Files, Writes(t, e)'
        PROVE  Writes(t, e) \/ (t = n /\ e = f /\ OpensToWrite(w, f))
    <3>1. PICK y \in Slaves : AtWork(t, y)' /\ handler'[t][y].file = e /\ "WRITE" \in handler'[t][y].mode
      BY <2>1 DEF Writes
    <3>2. CASE t = n /\ y = s
      BY <3>1, <3>2, <1>1, <1>4, <1>6 DEF HandlerBecomes, OpensToWrite
    <3>3. CASE ~(t = n /\ y = s)
      <4>1. handler'[t][y] = handler[t][y]
        BY <3>3, <1>6 DEF HandlerBecomes
      <4> QED BY <4>1, <3>1, <2>1, <1>16, <1>17 DEF Writes, AtWork
    <3> QED BY <3>2, <3>3
  <2>2. \A x \in Workers, e \in Files : OpensToWrite(x, e)' => OpensToWrite(x, e) /\ x # w
    BY <1>11, <1>12 DEF OpensToWrite
  <2> QED BY <2>1, <2>2, <1>1 DEF OneCopyInv, WritersExclude
<1> QED BY <1>9, <1>14, <1>15, <1>18, <1>19 DEF OneCopyInv

-----------------------------------------------------------------------------
(* The handler of a report. *)

\* A report that is taken is of a transaction that is listed as it was made.
LEMMA RetrieveKeeps ==
  ASSUME IInv, OneCopyInv, NEW w \in Workers, NEW r \in reports, ReportRetrieve(w, r)
  PROVE  OneCopyInv'
<1> DEFINE jb == [report |-> r, owner |-> trans[r.trans]]
<1>1. /\ pc[w] = "idle" /\ reports' = reports \ {r} /\ Goto(w, "update", jb)
      /\ UNCHANGED <<meta, locks, trans, handler, disk, deletions>>
  BY DEF ReportRetrieve
<1>2. jb.report = r /\ jb.owner = trans[r.trans]
  OBVIOUS
<1> HIDE DEF jb
<1>3. WorkerType /\ r \in Report /\ r.trans \in TransIds /\ r.slave \in Slaves
  BY Typed, ReportFields
<1>4. pc'[w] = "update" /\ job'[w] = jb /\ \A x \in Workers \ {w} : pc'[x] = pc[x] /\ job'[x] = job[x]
  BY <1>1, <1>3, GotoFrame
<1>5. CopiesStay'
  BY <1>1, CopiesFrame DEF OneCopyInv
<1>6. OneHandler'
  BY <1>1, HandlersStay DEF OneCopyInv
<1>7. ReportTrue(r) /\ StampTrue(r) /\ \A x \in Workers : ~Handles(x, r.trans, ReportPC)
  BY DEF OneCopyInv, OneReport
<1>8. OwnerTrue(trans[r.trans], r)
  <2>1. AtWork(r.trans, r.slave)
    BY <1>7 DEF ReportTrue, AtWork
  <2> QED BY <2>1, <1>3 DEF OneCopyInv, OneHandler, Listed, AtWork, OwnerTrue
<1>9. \A x \in Workers, t \in TransIds : Handles(x, t, ReportPC)' => Handles(x, t, ReportPC) \/ (x = w /\ t = r.trans)
  BY <1>2, <1>4 DEF Handles
<1>10. OneReport'
  <2>1. ASSUME NEW q \in reports'
        PROVE  /\ ReportTrue(q)' /\ StampTrue(q)'
               /\ \A q2 \in reports' : q2.trans = q.trans => q2 = q
               /\ \A x \in Workers : ~Handles(x, q.trans, ReportPC)'
    <3>1. q \in reports /\ q # r /\ q.trans \in TransIds
      BY <1>1, Typed, ReportFields
    <3>2. q.trans # r.trans
      BY <3>1 DEF OneCopyInv, OneReport
    <3> QED BY <3>1, <3>2, <1>1, <1>9 DEF OneCopyInv, OneReport, ReportTrue, StampTrue
  <2>2. ASSUME NEW x \in Workers, pc'[x] \in ReportPC
        PROVE  /\ ReportTrue(job[x].report)' /\ OwnerTrue(job[x].owner, job[x].report)'
               /\ pc'[x] = "update" => StampTrue(job[x].report)'
               /\ \A w2 \in Workers : Handles(w2, job[x].report.trans, ReportPC)' => w2 = x
    <3>1. CASE x = w
      <4>1. ReportTrue(job[x].report)' /\ OwnerTrue(job[x].owner, job[x].report)' /\ StampTrue(job[x].report)'
        BY <3>1, <1>1, <1>2, <1>4, <1>7, <1>8 DEF ReportTrue, OwnerTrue, StampTrue
      <4>2. \A w2 \in Workers : Handles(w2, job[x].report.trans, ReportPC)' => w2 = x
        BY <3>1, <1>2, <1>3, <1>4, <1>7, <1>9
      <4> QED BY <4>1, <4>2
    <3>2. CASE x # w
      <4>1. pc'[x] = pc[x] /\ job'[x] = job[x] /\ pc[x] \in ReportPC
        BY <3>2, <2>2, <1>4
      <4>2. job[x].report \in Report /\ job[x].report.trans \in TransIds
        BY <4>1, Typed, ReportFields
      <4>3. job[x].report.trans # r.trans
        BY <4>1, <1>7 DEF Handles
      <4>4. \A w2 \in Workers : Handles(w2, job[x].report.trans, ReportPC)' => w2 = x
        BY <4>1, <4>2, <4>3, <1>9 DEF OneCopyInv, OneReport
      <4>5. ReportTrue(job[x].report) /\ OwnerTrue(job[x].owner, job[x].report) /\ (pc[x] = "update" => StampTrue(job[x].report))
        BY <4>1 DEF OneCopyInv, OneReport
      <4> QED BY <4>1, <4>4, <4>5, <1>1 DEF ReportTrue, OwnerTrue, StampTrue
    <3> QED BY <3>1, <3>2
  <2> QED BY <2>1, <2>2 DEF OneReport
<1>11. \A x \in Workers, t \in TransIds, places \in SUBSET {"unlock", "retire"} :
         Handles(x, t, places)' <=> Handles(x, t, places)
  BY <1>1, <1>4 DEF Handles
<1>12. WritersExclude'
  <2>1. \A f \in Files, t \in TransIds : Writes(t, f)' => Writes(t, f)
    BY <1>1, <1>11 DEF Writes, AtWork
  <2>2. \A f \in Files, x \in Workers : OpensToWrite(x, f)' => OpensToWrite(x, f)
    BY <1>4 DEF OpensToWrite
  <2> QED BY <1>1, <2>1, <2>2, NoMoreWriters DEF OneCopyInv
<1>13. WritesReported'
  <2>1. \A t \in TransIds, s \in Slaves, f \in Files : Unreported(t, s, f) => Unreported(t, s, f)'
    BY <1>1, <1>11 DEF Unreported, AtWork
  <2> QED BY <1>1, <2>1, StillReported DEF OneCopyInv
<1> QED BY <1>5, <1>6, <1>10, <1>12, <1>13 DEF OneCopyInv

\* No report is of a transaction that is not listed.
LEMMA NoneUnknown ==
  ASSUME IInv, OneCopyInv, NEW w \in Workers, NEW r \in reports
  PROVE  ~ReportUnknown(w, r)
<1>1. r.trans \in TransIds /\ r.slave \in Slaves
  BY Typed, ReportFields
<1>2. handler[r.trans][r.slave].st = "reporting"
  BY DEF OneCopyInv, OneReport, ReportTrue
<1>3. trans[r.trans].listed
  BY <1>1, <1>2 DEF OneCopyInv, OneHandler, AtWork, Listed
<1> QED BY <1>3 DEF ReportUnknown

\* What a worker with a report at hand knows.
LEMMA AtHand ==
  ASSUME IInv, OneCopyInv, NEW w \in Workers, pc[w] \in ReportPC
  PROVE  LET r == job[w].report
             h == handler[r.trans][r.slave]
         IN /\ r \in Report /\ r.trans \in TransIds /\ r.slave \in Slaves /\ r.file \in Files
            /\ h.st = "reporting" /\ h.file = r.file /\ h.change = r.change /\ Alone(h)
            /\ job[w].owner.file = r.file /\ job[w].owner.mode = h.mode
            /\ meta[r.file].exists /\ meta[r.file].locs = {r.slave}
            /\ \A s2 \in Slaves : handler[r.trans][s2].st # "none" => s2 = r.slave
            /\ \A x \in Workers : Handles(x, r.trans, ReportPC) => x = w
            /\ \A q \in reports : q.trans # r.trans
<1> DEFINE r == job[w].report
           h == handler[r.trans][r.slave]
<1>1. r \in Report /\ r.trans \in TransIds /\ r.slave \in Slaves /\ r.file \in Files
  BY Typed, ReportFields
<1>2. ReportTrue(r) /\ OwnerTrue(job[w].owner, r) /\ \A x \in Workers : Handles(x, r.trans, ReportPC) => x = w
  BY DEF OneCopyInv, OneReport
<1>3. h.st = "reporting" /\ h.file = r.file /\ h.change = r.change
  BY <1>2 DEF ReportTrue
<1>4. Alone(h) /\ meta[r.file].locs = {r.slave} /\ \A s2 \in Slaves : handler[r.trans][s2].st # "none" => s2 = r.slave
  <2>1. OneHandler
    BY DEF OneCopyInv
  <2>2. PICK q \in Report : q = r /\ q.trans \in TransIds /\ q.slave \in Slaves
    BY <1>1
  <2>3. h = handler[q.trans][q.slave] /\ h.st # "none" /\ h.file = q.file
    BY <2>2, <1>3
  <2> HIDE DEF r, h
  <2>4. /\ Alone(h) /\ meta[h.file].locs = {q.slave}
        /\ \A s2 \in Slaves : handler[q.trans][s2].st # "none" => s2 = q.slave
    BY <2>1, <2>2, <2>3 DEF OneHandler
  <2> QED BY <2>2, <2>3, <2>4
<1>5. meta[r.file].exists
  BY <1>1 DEF OneCopyInv, CopiesStay, CopyAt
<1>6. \A q \in reports : q.trans # r.trans
  BY DEF OneCopyInv, OneReport, Handles
<1> QED BY <1>1, <1>2, <1>3, <1>4, <1>5, <1>6 DEF OwnerTrue

\* The entry becomes what the copy is, if it was written.
LEMMA UpdateKeeps ==
  ASSUME IInv, OneCopyInv, NEW w \in Workers, ReportUpdate(w)
  PROVE  OneCopyInv'
<1> DEFINE r == job[w].report
           t == r.trans
           e == meta[r.file]
<1>1. /\ pc[w] = "update" /\ Goto(w, "unlock", job[w])
      /\ meta' = [meta EXCEPT ![r.file] = Updated(@, r.slave, r.stamp, r.change)]
      /\ UNCHANGED <<locks, trans, handler, disk, reports, deletions>>
  BY DEF ReportUpdate, slaveVars
<1>2. pc[w] \in ReportPC /\ WorkerType
  BY <1>1, Typed DEF ReportPC
<1>3. /\ t \in TransIds /\ r.file \in Files /\ r.slave \in Slaves /\ e.exists /\ e.locs = {r.slave}
      /\ handler[t][r.slave].change = r.change /\ handler[t][r.slave].file = r.file
      /\ r.change \in {0, 2} /\ e \in Entry
  BY <1>2, AtHand, Typed DEF Alone
<1>4. /\ \A f \in Files \ {r.file} : meta'[f] = meta[f]
      /\ meta'[r.file] = Updated(e, r.slave, r.stamp, r.change)
  BY <1>1, <1>3, Typed DEF MasterType
<1>5. Updated(e, r.slave, r.stamp, r.change) =
        IF r.change = 2 /\ e.stamp # r.stamp THEN [e EXCEPT !.stamp = r.stamp, !.locs = @ \cup {r.slave}] ELSE e
  <2>1. e.exists
    BY <1>3
  <2>2. CASE r.change = 0
    BY <2>1, <2>2 DEF Updated
  <2>3. CASE r.change = 2
    BY <2>1, <2>3 DEF Updated
  <2> QED BY <1>3, <2>2, <2>3
<1>6. /\ meta'[r.file].exists = e.exists /\ meta'[r.file].locs = e.locs
      /\ meta'[r.file].stamp = IF r.change = 2 THEN r.stamp ELSE e.stamp
  <2>1. CASE r.change = 2 /\ e.stamp # r.stamp
    <3>1. meta'[r.file] = [e EXCEPT !.stamp = r.stamp, !.locs = @ \cup {r.slave}]
      BY <2>1, <1>4, <1>5
    <3> HIDE DEF e
    <3>2. meta'[r.file].exists = e.exists /\ meta'[r.file].stamp = r.stamp /\ meta'[r.file].locs = e.locs \cup {r.slave}
      BY <3>1, <1>3 DEF Entry
    <3> QED BY <3>2, <2>1, <1>3
  <2>2. CASE ~(r.change = 2 /\ e.stamp # r.stamp)
    <3>1. meta'[r.file] = e
      BY <2>2, <1>4, <1>5
    <3> HIDE DEF e
    <3> QED BY <3>1, <2>2
  <2> QED BY <2>1, <2>2
<1>7. \A f \in Files : meta'[f].exists = meta[f].exists /\ meta'[f].locs = meta[f].locs
  BY <1>4, <1>6
<1> HIDE DEF e
<1>8. CopiesStay'
  BY <1>1, <1>7, CopiesFrame DEF OneCopyInv
<1>9. OneHandler'
  BY <1>1, <1>7, HandlersStay DEF OneCopyInv
<1>10. OneReport'
  BY <1>1, <1>2, ReportsStay DEF OneCopyInv
<1>11. pc'[w] = "unlock" /\ job'[w] = job[w] /\ \A x \in Workers \ {w} : pc'[x] = pc[x] /\ job'[x] = job[x]
  BY <1>1, <1>2, GotoFrame
<1>12. WritersExclude'
  <2>1. \A f \in Files, n \in TransIds : Writes(n, f)' => Writes(n, f)
    BY <1>1, <1>11 DEF Writes, AtWork, Handles
  <2>2. \A f \in Files, x \in Workers : OpensToWrite(x, f)' => OpensToWrite(x, f)
    BY <1>11 DEF OpensToWrite
  <2> QED BY <1>1, <2>1, <2>2, NoMoreWriters DEF OneCopyInv
<1>13. WritesReported'
  <2>1. ASSUME NEW f \in Files, NEW s \in Slaves, NEW n \in TransIds, Unreported(n, s, f), n # t
        PROVE  Unreported(n, s, f)'
    BY <2>1, <1>1, <1>11 DEF Unreported, AtWork, Handles
  <2>2. ASSUME NEW f \in Files, NEW s \in Slaves, s \in meta[f].locs
        PROVE  disk'[s][f] = meta'[f].stamp \/ \E n \in TransIds : Unreported(n, s, f)'
    <3>1. CASE f = r.file /\ r.change = 2
      <4>1. StampTrue(r)
        BY <1>1, <1>2 DEF OneCopyInv, OneReport
      <4>2. s = r.slave
        BY <2>2, <3>1, <1>3 DEF e
      <4> QED BY <3>1, <4>1, <4>2, <1>1, <1>6 DEF StampTrue
    <3>2. CASE ~(f = r.file /\ r.change = 2)
      <4>1. meta'[f].stamp = meta[f].stamp
        BY <3>2, <1>4, <1>6 DEF e
      <4>2. CASE disk[s][f] = meta[f].stamp
        BY <4>1, <4>2, <1>1
      <4>3. CASE \E n \in TransIds : Unreported(n, s, f)
        <5>1. PICK n \in TransIds : Unreported(n, s, f)
          BY <4>3
        <5>2. n # t
          <6>1. SUFFICES ASSUME n = t PROVE FALSE
            OBVIOUS
          <6>2. handler[t][s].st # "none" /\ handler[t][s].file = f /\ handler[t][s].change = 2
            BY <5>1, <6>1 DEF Unreported, AtWork
          <6>3. s = r.slave
            BY <6>2, <1>2, AtHand
          <6> QED BY <6>2, <6>3, <3>2, <1>3
        <5> QED BY <5>1, <5>2, <2>1
      <4> QED BY <4>2, <4>3, <2>2 DEF OneCopyInv, WritesReported
    <3> QED BY <3>1, <3>2
  <2> QED BY <2>2, <1>7 DEF WritesReported
<1> QED BY <1>8, <1>9, <1>10, <1>12, <1>13 DEF OneCopyInv

\* The write lock is given back by the writer, and by nobody else.
LEMMA UnlockKeeps ==
  ASSUME IInv, OneCopyInv, NEW w \in Workers, ReportUnlock(w)
  PROVE  OneCopyInv'
<1> DEFINE r == job[w].report
           o == job[w].owner
           t == r.trans
           f == r.file
<1>1. /\ pc[w] = "unlock" /\ Goto(w, "retire", job[w])
      /\ UNCHANGED <<meta, trans, handler, disk, reports, deletions>>
  BY DEF ReportUnlock, slaveVars
<1>2. pc[w] \in ReportPC /\ WorkerType
  BY <1>1, Typed DEF ReportPC
<1>3. /\ t \in TransIds /\ f \in Files /\ r.slave \in Slaves /\ o.file = f
      /\ handler[t][r.slave].st = "reporting" /\ handler[t][r.slave].file = f /\ handler[t][r.slave].mode = o.mode
      /\ \A s2 \in Slaves : handler[t][s2].st # "none" => s2 = r.slave
      /\ \A x \in Workers : Handles(x, t, ReportPC) => x = w
  BY <1>2, AtHand
<1>4. locks' = [locks EXCEPT ![f] = UnlockedBy(@, o.user, o.mode)]
  BY <1>3, NamesAssumption DEF ReportUnlock
<1>5. (\A g \in Files \ {f} : locks'[g] = locks[g]) /\ locks'[f] = UnlockedBy(locks[f], o.user, o.mode)
  BY <1>3, <1>4, Typed DEF MasterType
<1>6. CopiesStay'
  BY <1>1, CopiesFrame DEF OneCopyInv
<1>7. OneHandler'
  BY <1>1, HandlersStay DEF OneCopyInv
<1>8. OneReport'
  BY <1>1, <1>2, ReportsStay DEF OneCopyInv
<1>9. pc'[w] = "retire" /\ job'[w] = job[w] /\ \A x \in Workers \ {w} : pc'[x] = pc[x] /\ job'[x] = job[x]
  BY <1>1, <1>2, GotoFrame
<1>10. WritesReported'
  <2>1. \A n \in TransIds, s \in Slaves, g \in Files : Unreported(n, s, g) => Unreported(n, s, g)'
    BY <1>1, <1>9 DEF Unreported, AtWork, Handles
  <2> QED BY <1>1, <2>1, StillReported DEF OneCopyInv
<1>11. \A g \in Files, n \in TransIds : Writes(n, g)' => Writes(n, g) /\ n # t
  BY <1>1, <1>9 DEF Writes, AtWork, Handles
<1>12. \A g \in Files, x \in Workers : OpensToWrite(x, g)' => OpensToWrite(x, g)
  BY <1>9 DEF OpensToWrite
<1>13. WritersExclude'
  <2>1. CASE "WRITE" \notin o.mode
    <3>1. locks'[f]["WRITE"] = locks[f]["WRITE"]
      BY <2>1, <1>5 DEF UnlockedBy, LockKinds
    <3> QED BY <3>1, <1>5, <1>11, <1>12, NoMoreWriters DEF OneCopyInv
  <2>2. CASE "WRITE" \in o.mode
    <3>1. Writes(t, f)
      <4>1. AtWork(t, r.slave)
        BY <1>3 DEF AtWork
      <4>2. \A x \in Workers : ~Handles(x, t, {"retire"})
        BY <1>1, <1>3 DEF Handles, ReportPC
      <4> QED BY <4>1, <4>2, <2>2, <1>3 DEF Writes
    <3>2. (\A x \in Workers : ~OpensToWrite(x, f)) /\ \A n \in TransIds : Writes(n, f) => n = t
      BY <3>1, <1>3 DEF OneCopyInv, WritersExclude
    <3>3. \A g \in Files : g = f =>
            (\A x \in Workers : ~OpensToWrite(x, g)') /\ (\A n \in TransIds : ~Writes(n, g)')
      BY <3>2, <1>3, <1>11, <1>12
    <3> QED BY <3>3, <1>5, <1>11, <1>12 DEF OneCopyInv, WritersExclude
  <2> QED BY <2>1, <2>2
<1> QED BY <1>6, <1>7, <1>8, <1>10, <1>13 DEF OneCopyInv

\* The transaction goes off the list when its handler has its answer.
LEMMA RetireKeeps ==
  ASSUME IInv, OneCopyInv, NEW w \in Workers, ReportRetire(w)
  PROVE  OneCopyInv'
<1> USE DEF ReportPC
<1>1. PICK r : r = job[w].report
  OBVIOUS
<1> DEFINE t == r.trans
           g == [handler[t][r.slave] EXCEPT !.st = "done"]
<1>2. /\ pc[w] = "retire" /\ Goto(w, "idle", NoJob)
      /\ trans' = [trans EXCEPT ![t] = updateSlave(@, r.slave)]
      /\ handler' = [handler EXCEPT ![t][r.slave] = g]
      /\ UNCHANGED <<meta, locks, disk, reports, deletions>>
  BY <1>1 DEF ReportRetire, Finish, Answered
<1>3. WorkerType /\ pc[w] \in ReportPC
  BY <1>2, Typed
<1>4. /\ t \in TransIds /\ r.slave \in Slaves /\ r.file \in Files
      /\ handler[t][r.slave].st = "reporting" /\ Alone(handler[t][r.slave])
      /\ \A s2 \in Slaves : handler[t][s2].st # "none" => s2 = r.slave
      /\ \A x \in Workers : Handles(x, t, ReportPC) => x = w
      /\ \A q \in reports : q.trans # t
  BY <1>1, <1>3, AtHand
<1>5. g.st = "done" /\ g.file = handler[t][r.slave].file /\ Alone(g)
  BY <1>4, Typed DEF Handler, Alone
<1> HIDE DEF g
<1>6. HandlerBecomes(t, r.slave, g)
  BY <1>2, <1>4, Becomes
<1>7. \A n \in TransIds \ {t} : trans'[n] = trans[n] /\ \A s \in Slaves : handler'[n][s] = handler[n][s]
  BY <1>2, <1>6, Typed DEF MasterType, HandlerBecomes
<1>8. pc'[w] = "idle" /\ \A x \in Workers \ {w} : pc'[x] = pc[x] /\ job'[x] = job[x]
  BY <1>2, <1>3, GotoFrame
<1>9. CopiesStay'
  BY <1>2, CopiesFrame DEF OneCopyInv
<1>10. \A x \in Workers : pc'[x] \in ReportPC =>
         pc[x] \in ReportPC /\ job'[x] = job[x] /\ pc'[x] = pc[x] /\ job[x].report \in Report /\ job[x].report.trans # t
  BY <1>3, <1>4, <1>8, Typed DEF Handles
<1>11. OneReport'
  <2>1. \A x \in Workers, n \in TransIds : Handles(x, n, ReportPC)' => Handles(x, n, ReportPC)
    BY <1>10 DEF Handles
  <2>2. ASSUME NEW q \in reports
        PROVE  /\ ReportTrue(q)' /\ StampTrue(q)'
               /\ \A q2 \in reports : q2.trans = q.trans => q2 = q
               /\ \A x \in Workers : ~Handles(x, q.trans, ReportPC)'
    <3>1. q.trans \in TransIds /\ q.slave \in Slaves /\ q.trans # t
      BY <1>4, Typed, ReportFields
    <3>2. handler'[q.trans][q.slave] = handler[q.trans][q.slave]
      BY <3>1, <1>7
    <3> QED BY <3>1, <3>2, <2>1, <1>2 DEF OneCopyInv, OneReport, ReportTrue, StampTrue
  <2>3. ASSUME NEW x \in Workers, pc'[x] \in ReportPC
        PROVE  /\ ReportTrue(job[x].report)' /\ OwnerTrue(job[x].owner, job[x].report)'
               /\ pc'[x] = "update" => StampTrue(job[x].report)'
               /\ \A w2 \in Workers : Handles(w2, job[x].report.trans, ReportPC)' => w2 = x
    <3>1. PICK q \in Report : q = job[x].report /\ q = job'[x].report /\ q.trans # t /\ job'[x] = job[x]
                              /\ pc'[x] = pc[x] /\ pc[x] \in ReportPC
      BY <2>3, <1>10
    <3>2. handler'[q.trans][q.slave] = handler[q.trans][q.slave] /\ q.trans \in TransIds
      BY <3>1, <1>7, ReportFields
    <3>3. \A w2 \in Workers : Handles(w2, q.trans, ReportPC)' => w2 = x
      BY <3>1, <3>2, <2>1 DEF OneCopyInv, OneReport
    <3>4. ReportTrue(q) /\ OwnerTrue(job[x].owner, q) /\ (pc[x] = "update" => StampTrue(q))
      BY <3>1 DEF OneCopyInv, OneReport
    <3> QED BY <3>1, <3>2, <3>3, <3>4, <1>2 DEF ReportTrue, OwnerTrue, StampTrue
  <2> QED BY <1>2, <2>2, <2>3 DEF OneReport
<1>12. OneHandler'
  <2>1. ASSUME NEW n \in TransIds, NEW s \in Slaves, handler'[n][s].st # "none"
        PROVE  /\ Alone(handler'[n][s]) /\ meta[handler'[n][s].file].locs = {s}
               /\ \A s2 \in Slaves : handler'[n][s2].st # "none" => s2 = s
               /\ AtWork(n, s)' => Listed(n, handler[n][s].file, handler[n][s].mode)'
    <3>1. CASE n = t
      <4>1. \A s2 \in Slaves : handler'[n][s2].st # "none" => s2 = r.slave
        BY <3>1, <1>4, <1>6 DEF HandlerBecomes
      <4>2. s = r.slave /\ handler'[n][s] = g
        BY <4>1, <3>1, <2>1, <1>6 DEF HandlerBecomes
      <4>3. meta[g.file].locs = {s}
        BY <4>2, <1>4, <1>5 DEF OneCopyInv, OneHandler
      <4> QED BY <4>1, <4>2, <4>3, <1>5 DEF AtWork
    <3>2. CASE n # t
      <4>1. \A z \in Slaves : handler'[n][z] = handler[n][z]
        BY <3>2, <1>7
      <4> QED BY <3>2, <4>1, <2>1, <1>7 DEF OneCopyInv, OneHandler, AtWork, Listed
    <3> QED BY <3>1, <3>2
  <2>2. (\A n \in TransIds, s \in Slaves : handler[n][s].st # "none" =>
           /\ Alone(handler[n][s]) /\ meta[handler[n][s].file].locs = {s}
           /\ \A s2 \in Slaves : handler[n][s2].st # "none" => s2 = s
           /\ AtWork(n, s) => Listed(n, handler[n][s].file, handler[n][s].mode))'
    <3>1. meta' = meta
      BY <1>2
    <3> QED BY <2>1, <3>1 DEF Alone
  <2>3. \A x \in Workers : pc'[x] = "rpc" => pc[x] = "rpc" /\ job'[x] = job[x] /\ job[x].trans \in TransIds /\ job[x].trans # t
    <3>1. \A x \in Workers : pc[x] = "rpc" => job[x].trans # t
      BY <1>4 DEF OneCopyInv, OneHandler
    <3> QED BY <3>1, <1>8, Typed
  <2>4. ASSUME NEW x \in Workers, pc'[x] = "rpc"
        PROVE  /\ Listed(job[x].trans, job[x].file, job[x].mode)'
               /\ \A y \in Slaves : handler'[job'[x].trans][y].st = "none"
               /\ \A w2 \in Workers : pc'[w2] = "rpc" /\ job'[w2].trans = job'[x].trans => w2 = x
    <3>1. pc[x] = "rpc" /\ job'[x] = job[x] /\ job[x].trans \in TransIds /\ job[x].trans # t
      BY <2>3, <2>4
    <3>2. /\ Listed(job[x].trans, job[x].file, job[x].mode)
          /\ \A y \in Slaves : handler[job[x].trans][y].st = "none"
          /\ \A w2 \in Workers : pc[w2] = "rpc" /\ job[w2].trans = job[x].trans => w2 = x
      BY <3>1 DEF OneCopyInv, OneHandler
    <3> QED BY <3>1, <3>2, <2>3, <1>7 DEF Listed
  <2> QED BY <2>2, <2>4 DEF OneHandler
<1>13. \A n \in TransIds, s \in Slaves : AtWork(n, s)' => n # t /\ AtWork(n, s)
  BY <1>4, <1>5, <1>6, <1>7 DEF AtWork, HandlerBecomes
<1>14. \A x \in Workers, n \in TransIds \ {t}, places \in SUBSET ReportPC : Handles(x, n, places)' <=> Handles(x, n, places)
  BY <1>1, <1>8 DEF Handles
<1>15. {"retire"} \in SUBSET ReportPC /\ {"unlock", "retire"} \in SUBSET ReportPC
  OBVIOUS
<1>16. WritersExclude'
  <2>1. \A f \in Files, n \in TransIds : Writes(n, f)' => Writes(n, f)
    BY <1>7, <1>13, <1>14, <1>15 DEF Writes
  <2>2. \A f \in Files, x \in Workers : OpensToWrite(x, f)' => OpensToWrite(x, f)
    BY <1>8 DEF OpensToWrite
  <2> QED BY <1>2, <2>1, <2>2, NoMoreWriters DEF OneCopyInv
<1>17. WritesReported'
  <2>1. ASSUME NEW n \in TransIds, NEW s \in Slaves, NEW f \in Files, Unreported(n, s, f)
        PROVE  Unreported(n, s, f)'
    <3>1. n # t
      BY <2>1, <1>1, <1>2 DEF Unreported, Handles
    <3> QED BY <3>1, <2>1, <1>7, <1>14, <1>15 DEF Unreported, AtWork
  <2> QED BY <2>1, <1>2, StillReported DEF OneCopyInv
<1> QED BY <1>9, <1>11, <1>12, <1>16, <1>17 DEF OneCopyInv

-----------------------------------------------------------------------------
(* The file handler on a slave. *)

\* A handler at work that is replaced by one of the same file and mode.
HandlerGoesOn(t, s, g) ==
  /\ UNCHANGED masterVars
  /\ HandlerBecomes(t, s, g)
  /\ AtWork(t, s) /\ g.st # "none" /\ handler[t][s].st # "reporting"
  /\ g.file = handler[t][s].file /\ g.mode = handler[t][s].mode /\ Alone(g)

\* It stays the one handler of its transaction, and is no new writer.
LEMMA GoesOn ==
  ASSUME IInv, OneCopyInv, NEW t \in TransIds, NEW s \in Slaves, NEW g, HandlerGoesOn(t, s, g)
  PROVE  OneHandler' /\ WritersExclude'
<1>1. UNCHANGED masterVars /\ HandlerBecomes(t, s, g) /\ handler[t][s].st # "none"
  BY DEF HandlerGoesOn, AtWork
<1>2. \A n \in TransIds, y \in Slaves :
        /\ handler'[n][y].st # "none" <=> handler[n][y].st # "none"
        /\ handler'[n][y].file = handler[n][y].file /\ handler'[n][y].mode = handler[n][y].mode
        /\ AtWork(n, y)' => AtWork(n, y)
        /\ Alone(handler[n][y]) => Alone(handler'[n][y])
  BY DEF HandlerGoesOn, HandlerBecomes, AtWork
<1>3. OneHandler'
  <2>1. (\A n \in TransIds, y \in Slaves : handler[n][y].st # "none" =>
           /\ Alone(handler[n][y]) /\ meta[handler[n][y].file].locs = {y}
           /\ \A s2 \in Slaves : handler[n][s2].st # "none" => s2 = y
           /\ AtWork(n, y) => Listed(n, handler[n][y].file, handler[n][y].mode))'
    <3>1. ASSUME NEW n \in TransIds, NEW y \in Slaves, handler'[n][y].st # "none"
          PROVE  /\ Alone(handler'[n][y]) /\ meta[handler'[n][y].file].locs = {y}
                 /\ \A s2 \in Slaves : handler'[n][s2].st # "none" => s2 = y
                 /\ AtWork(n, y)' => Listed(n, handler'[n][y].file, handler'[n][y].mode)
      BY <3>1, <1>2 DEF OneCopyInv, OneHandler
    <3> QED BY <3>1, <1>1 DEF masterVars, Listed, Alone
  <2>2. (\A x \in Workers : pc[x] = "rpc" =>
           /\ Listed(job[x].trans, job[x].file, job[x].mode)
           /\ \A y \in Slaves : handler[job[x].trans][y].st = "none"
           /\ \A w2 \in Workers : pc[w2] = "rpc" /\ job[w2].trans = job[x].trans => w2 = x)'
    <3>1. ASSUME NEW x \in Workers, pc[x] = "rpc"
          PROVE  /\ Listed(job[x].trans, job[x].file, job[x].mode)
                 /\ \A y \in Slaves : handler'[job[x].trans][y].st = "none"
                 /\ \A w2 \in Workers : pc[w2] = "rpc" /\ job[w2].trans = job[x].trans => w2 = x
      <4>1. job[x].trans \in TransIds
        BY <3>1, Typed
      <4> QED BY <3>1, <4>1, <1>2 DEF OneCopyInv, OneHandler
    <3> QED BY <3>1, <1>1 DEF masterVars, Listed
  <2> QED BY <2>1, <2>2 DEF OneHandler
<1>4. WritersExclude'
  <2>1. \A f \in Files, n \in TransIds : Writes(n, f)' => Writes(n, f)
    BY <1>1, <1>2 DEF Writes, Handles, masterVars
  <2>2. \A f \in Files, x \in Workers : OpensToWrite(x, f)' => OpensToWrite(x, f)
    BY <1>1 DEF OpensToWrite, masterVars
  <2> QED BY <1>1, <2>1, <2>2, NoMoreWriters DEF OneCopyInv, masterVars
<1> QED BY <1>3, <1>4

\* The reports on their way and at hand are of other handlers.
LEMMA OthersReported ==
  ASSUME IInv, OneCopyInv, NEW t \in TransIds, NEW s \in Slaves, NEW g, HandlerGoesOn(t, s, g),
         NEW r \in Report, ReportTrue(r)
  PROVE  /\ handler'[r.trans][r.slave] = handler[r.trans][r.slave]
         /\ r.trans # t /\ ReportTrue(r)'
<1>1. r.trans \in TransIds /\ r.slave \in Slaves /\ handler[r.trans][r.slave].st = "reporting"
  BY ReportFields DEF ReportTrue
<1>2. handler[t][s].st \notin {"none", "reporting"} /\ HandlerBecomes(t, s, g)
  BY DEF HandlerGoesOn, AtWork
<1>3. r.trans # t
  BY <1>1, <1>2 DEF OneCopyInv, OneHandler
<1>4. handler'[r.trans][r.slave] = handler[r.trans][r.slave]
  BY <1>1, <1>2, <1>3 DEF HandlerBecomes
<1> QED BY <1>3, <1>4 DEF ReportTrue

\* So the reports stay true, if the stamps that they carry do.
LEMMA GoesOnReports ==
  ASSUME IInv, OneCopyInv, NEW t \in TransIds, NEW s \in Slaves, NEW g, HandlerGoesOn(t, s, g),
         UNCHANGED reports,
         \A r \in Report : ReportTrue(r) /\ StampTrue(r) =>
           StampTrue(r)' \/ (r \notin reports /\ \A w \in Workers : pc[w] = "update" => job[w].report # r)
  PROVE  OneReport'
<1>1. pc' = pc /\ job' = job
  BY DEF HandlerGoesOn, masterVars
<1>2. \A x \in Workers, n \in TransIds : Handles(x, n, ReportPC)' <=> Handles(x, n, ReportPC)
  BY <1>1 DEF Handles
<1>3. ASSUME NEW r \in reports
      PROVE  /\ ReportTrue(r)' /\ StampTrue(r)'
             /\ \A r2 \in reports : r2.trans = r.trans => r2 = r
             /\ \A w \in Workers : ~Handles(w, r.trans, ReportPC)'
  <2>1. r \in Report /\ r.trans \in TransIds
    BY Typed, ReportFields
  <2>2. ReportTrue(r) /\ StampTrue(r)
    BY DEF OneCopyInv, OneReport
  <2>3. ReportTrue(r)' /\ StampTrue(r)'
    BY <2>1, <2>2, OthersReported
  <2> QED BY <2>1, <2>3, <1>2 DEF OneCopyInv, OneReport
<1>4. ASSUME NEW w \in Workers, pc[w] \in ReportPC
      PROVE  /\ ReportTrue(job[w].report)' /\ OwnerTrue(job[w].owner, job[w].report)'
             /\ pc[w] = "update" => StampTrue(job[w].report)'
             /\ \A w2 \in Workers : Handles(w2, job[w].report.trans, ReportPC)' => w2 = w
  <2>1. PICK r \in Report : r = job[w].report
    BY <1>4, Typed
  <2>2. r.trans \in TransIds
    BY ReportFields
  <2>3. ReportTrue(r) /\ OwnerTrue(job[w].owner, r) /\ (pc[w] = "update" => StampTrue(r))
    BY <1>4, <2>1 DEF OneCopyInv, OneReport
  <2>4. ReportTrue(r)' /\ handler'[r.trans][r.slave] = handler[r.trans][r.slave]
    BY <2>3, OthersReported
  <2>5. OwnerTrue(job[w].owner, r)'
    BY <2>3, <2>4, <1>1 DEF OwnerTrue
  <2>6. pc[w] = "update" => StampTrue(r)'
    BY <2>1, <2>3
  <2>7. \A w2 \in Workers : Handles(w2, r.trans, ReportPC)' => w2 = w
    BY <1>2, <1>4, <2>1, <2>2 DEF OneCopyInv, OneReport
  <2>8. job'[w] = job[w]
    BY <1>1
  <2> QED BY <2>1, <2>4, <2>5, <2>6, <2>7, <2>8 DEF ReportTrue, OwnerTrue, StampTrue
<1> QED BY <1>1, <1>3, <1>4 DEF OneReport

\* A step that changes the label of a handler, and no copy.
LEMMA LabelKeeps ==
  ASSUME IInv, OneCopyInv, NEW t \in TransIds, NEW s \in Slaves, NEW g, HandlerGoesOn(t, s, g),
         UNCHANGED <<disk, reports, deletions>>,
         g.change = handler[t][s].change, g.st = "done" => handler[t][s].change = 0
  PROVE  OneCopyInv'
<1>1. CopiesStay'
  BY DEF OneCopyInv, CopiesStay, CopyAt, FindsCopy, HandlerGoesOn, masterVars
<1>2. OneReport'
  <2>1. \A r \in Report : StampTrue(r) => StampTrue(r)'
    BY DEF StampTrue
  <2> QED BY <2>1, GoesOnReports
<1>3. WritesReported'
  <2>1. ASSUME NEW n \in TransIds, NEW y \in Slaves, NEW f \in Files, Unreported(n, y, f)
        PROVE  Unreported(n, y, f)'
    <3>1. /\ AtWork(n, y)' /\ handler'[n][y].file = handler[n][y].file
          /\ handler'[n][y].change = handler[n][y].change
      BY <2>1 DEF HandlerGoesOn, HandlerBecomes, AtWork, Unreported
    <3> QED BY <2>1, <3>1 DEF Unreported, Handles, HandlerGoesOn, masterVars
  <2> QED BY <2>1, StillReported DEF OneCopyInv, HandlerGoesOn, masterVars
<1> QED BY <1>1, <1>2, <1>3, GoesOn DEF OneCopyInv

\* The client writes the copy: nobody else has it open for writing or has a report of it
\* under way.
LEMMA ClientWriteKeeps ==
  ASSUME IInv, OneCopyInv, NEW t \in TransIds, NEW s \in Slaves, ClientWrite(t, s)
  PROVE  OneCopyInv'
<1> DEFINE h == handler[t][s]
           g == Taken(h)
<1>1. /\ h.st = "serving" /\ "WRITE" \in h.mode /\ handler' = [handler EXCEPT ![t][s] = g]
      /\ UNCHANGED <<masterVars, reports, deletions>>
  BY DEF ClientWrite, ClientReady, Ready
<1>2. PICK f \in Files : f = h.file
  BY <1>1, Typed
<1>3. PICK v \in Stamps : disk' = [disk EXCEPT ![s][f] = v]
  BY <1>2 DEF ClientWrite, Overwrite
<1>4. /\ meta[f].locs = {s} /\ Alone(h) /\ h \in Handler
      /\ \A s2 \in Slaves : handler[t][s2].st # "none" => s2 = s
  BY <1>1, <1>2, Typed DEF OneCopyInv, OneHandler
<1>5. g.st = "serving" /\ g.file = f /\ g.mode = h.mode /\ g.change = 2 /\ Alone(g)
  BY <1>1, <1>2, <1>4 DEF Taken, Alone, Handler
<1> HIDE DEF g
<1>6. HandlerBecomes(t, s, g)
  BY <1>1, Becomes
<1>7. HandlerGoesOn(t, s, g)
  BY <1>1, <1>2, <1>5, <1>6 DEF HandlerGoesOn, AtWork
<1>8. /\ disk'[s][f] = v /\ v # 0
      /\ \A y \in Slaves, e \in Files : y # s \/ e # f => disk'[y][e] = disk[y][e]
  BY <1>3, Typed, StampsAssumption DEF SlaveType
<1>9. pc' = pc /\ job' = job /\ meta' = meta /\ deletions' = deletions
  BY <1>1 DEF masterVars
<1>10. CopiesStay'
  <2>1. \A e \in Files : \E y \in Slaves : CopyAt(e, y)'
    <3>1. ASSUME NEW e \in Files, NEW y \in Slaves, CopyAt(e, y) PROVE CopyAt(e, y)'
      BY <3>1, <1>8, <1>9 DEF CopyAt
    <3> QED BY <3>1 DEF OneCopyInv, CopiesStay
  <2> QED BY <2>1, <1>9 DEF OneCopyInv, CopiesStay, FindsCopy
\* The handler that writes is the writer of the file.
<1>11. Writes(t, f)
  <2>1. \A w \in Workers : ~Handles(w, t, {"retire"})
    BY <1>1, <1>4, AtHand DEF Handles, ReportPC
  <2> QED BY <2>1, <1>1, <1>2 DEF Writes, AtWork
<1>12. \A w \in Workers : ~Handles(w, t, ReportPC)
  BY <1>1, <1>4, AtHand DEF Handles
<1>13. OneReport'
  <2>1. ASSUME NEW r \in Report, ReportTrue(r), StampTrue(r),
               r \in reports \/ \E w \in Workers : pc[w] = "update" /\ job[w].report = r
        PROVE  StampTrue(r)'
    <3>1. r.trans \in TransIds /\ r.slave \in Slaves /\ r.file \in Files
      BY ReportFields
    <3>2. CASE r.change = 2 /\ r.slave = s /\ r.file = f
      <4>1. /\ handler[r.trans][r.slave].st = "reporting" /\ handler[r.trans][r.slave].file = f
            /\ handler[r.trans][r.slave].change = 2
        BY <2>1, <3>2 DEF ReportTrue
      <4>2. "WRITE" \in handler[r.trans][r.slave].mode
        BY <3>1, <4>1 DEF OneCopyInv, OneHandler, Alone
      <4>3. \A x \in Workers : ~Handles(x, r.trans, {"retire"})
        <5>1. CASE r \in reports
          BY <5>1 DEF OneCopyInv, OneReport, Handles, ReportPC
        <5>2. CASE \E w \in Workers : pc[w] = "update" /\ job[w].report = r
          BY <5>2 DEF OneCopyInv, OneReport, Handles, ReportPC
        <5> QED BY <2>1, <5>1, <5>2
      <4>4. Writes(r.trans, f)
        BY <3>1, <4>1, <4>2, <4>3 DEF Writes, AtWork
      <4>5. r.trans = t
        BY <3>1, <4>4, <1>11 DEF OneCopyInv, WritersExclude
      <4> QED BY <4>1, <4>5, <3>2, <1>1
    <3>3. CASE ~(r.change = 2 /\ r.slave = s /\ r.file = f)
      BY <2>1, <3>1, <3>3, <1>8 DEF StampTrue
    <3> QED BY <3>2, <3>3
  <2> QED BY <2>1, <1>1, <1>7, GoesOnReports
<1>14. WritesReported'
  <2>1. Unreported(t, s, f)'
    <3>1. handler'[t][s] = g
      BY <1>6 DEF HandlerBecomes
    <3>2. \A w \in Workers : ~Handles(w, t, {"unlock", "retire"})'
      BY <1>9, <1>12 DEF Handles, ReportPC
    <3> QED BY <3>1, <3>2, <1>5 DEF Unreported, AtWork
  <2>2. ASSUME NEW n \in TransIds, NEW y \in Slaves, NEW e \in Files, Unreported(n, y, e)
        PROVE  Unreported(n, y, e)'
    <3>1. CASE n = t /\ y = s
      BY <3>1, <2>1, <2>2, <1>2 DEF Unreported
    <3>2. CASE ~(n = t /\ y = s)
      <4>1. handler'[n][y] = handler[n][y]
        BY <3>2, <1>6 DEF HandlerBecomes
      <4> QED BY <4>1, <2>2, <1>9 DEF Unreported, AtWork, Handles
    <3> QED BY <3>1, <3>2
  <2>3. ASSUME NEW e \in Files, NEW y \in Slaves, y \in meta[e].locs
        PROVE  disk'[y][e] = meta[e].stamp \/ \E n \in TransIds : Unreported(n, y, e)'
    <3>1. CASE y = s /\ e = f
      BY <3>1, <2>1
    <3>2. CASE ~(y = s /\ e = f)
      BY <3>2, <2>2, <2>3, <1>8 DEF OneCopyInv, WritesReported
    <3> QED BY <3>1, <3>2
  <2> QED BY <2>3, <1>9 DEF WritesReported
<1> QED BY <1>7, <1>10, <1>13, <1>14, GoesOn DEF OneCopyInv

\* The report that a handler sends is the only one of its transaction.
LEMMA SendReportKeeps ==
  ASSUME IInv, OneCopyInv, NEW t \in TransIds, NEW s \in Slaves, SendReport(t, s)
  PROVE  OneCopyInv'
<1> DEFINE h == handler[t][s]
           g == [h EXCEPT !.st = "reporting"]
           r == [trans |-> t, slave |-> s, file |-> h.file, change |-> h.change, stamp |-> disk[s][h.file]]
<1>1. /\ h.st = "stopped" /\ handler' = [handler EXCEPT ![t][s] = g]
      /\ UNCHANGED <<masterVars, disk, deletions>>
      /\ reports' = reports \cup {r}
  BY DEF SendReport
<1>2. PICK f \in Files : f = h.file
  BY <1>1, Typed
<1>3. PICK q : q = r
  OBVIOUS
<1>4. Alone(h) /\ h \in Handler /\ \A s2 \in Slaves : handler[t][s2].st # "none" => s2 = s
  BY <1>1, Typed DEF OneCopyInv, OneHandler
<1>5. g.st = "reporting" /\ g.file = f /\ g.mode = h.mode /\ g.change = h.change /\ Alone(g)
  BY <1>2, <1>4 DEF Alone, Handler
<1>6. HandlerBecomes(t, s, g)
  BY <1>1, Becomes
<1>7. q.trans = t /\ q.slave = s /\ q.file = f /\ q.change = h.change /\ q.stamp = disk[s][f] /\ reports' = reports \cup {q}
  BY <1>1, <1>2, <1>3
<1> HIDE DEF g, r
<1>8. HandlerGoesOn(t, s, g)
  BY <1>1, <1>2, <1>5, <1>6 DEF HandlerGoesOn, AtWork
<1>9. pc' = pc /\ job' = job /\ meta' = meta /\ disk' = disk /\ deletions' = deletions
  BY <1>1 DEF masterVars
<1>10. CopiesStay'
  BY <1>9 DEF OneCopyInv, CopiesStay, CopyAt, FindsCopy
<1>11. \A x \in Workers : ~Handles(x, t, ReportPC)
  BY <1>1, <1>4, AtHand DEF Handles
<1>12. \A x \in Workers, n \in TransIds : Handles(x, n, ReportPC)' <=> Handles(x, n, ReportPC)
  BY <1>9 DEF Handles
<1>13. handler'[t][s] = g
  BY <1>6 DEF HandlerBecomes
<1>14. OneReport'
  <2>1. ReportTrue(q)' /\ StampTrue(q)'
    BY <1>5, <1>7, <1>9, <1>13 DEF ReportTrue, StampTrue
  <2>2. ASSUME NEW x \in reports
        PROVE  /\ ReportTrue(x)' /\ StampTrue(x)' /\ x.trans # t
               /\ \A x2 \in reports : x2.trans = x.trans => x2 = x
               /\ \A w \in Workers : ~Handles(w, x.trans, ReportPC)'
    <3>1. x \in Report /\ x.trans \in TransIds /\ ReportTrue(x) /\ StampTrue(x)
      BY Typed, ReportFields DEF OneCopyInv, OneReport
    <3>2. ReportTrue(x)' /\ x.trans # t
      BY <3>1, <1>8, OthersReported
    <3> QED BY <3>1, <3>2, <1>9, <1>12 DEF OneCopyInv, OneReport, StampTrue
  <2>3. ASSUME NEW x \in reports'
        PROVE  /\ ReportTrue(x)' /\ StampTrue(x)'
               /\ \A x2 \in reports' : x2.trans = x.trans => x2 = x
               /\ \A w \in Workers : ~Handles(w, x.trans, ReportPC)'
    <3>1. CASE x = q
      BY <3>1, <2>1, <2>2, <1>7, <1>11, <1>12
    <3>2. CASE x \in reports
      BY <3>2, <2>2, <1>7
    <3> QED BY <3>1, <3>2, <1>7
  <2>4. ASSUME NEW w \in Workers, pc[w] \in ReportPC
        PROVE  /\ ReportTrue(job[w].report)' /\ OwnerTrue(job[w].owner, job[w].report)'
               /\ pc[w] = "update" => StampTrue(job[w].report)'
               /\ \A w2 \in Workers : Handles(w2, job[w].report.trans, ReportPC)' => w2 = w
    <3>1. PICK x \in Report : x = job[w].report
      BY <2>4, Typed
    <3>2. x.trans \in TransIds
      BY ReportFields
    <3>3. ReportTrue(x) /\ OwnerTrue(job[w].owner, x) /\ (pc[w] = "update" => StampTrue(x))
      BY <2>4, <3>1 DEF OneCopyInv, OneReport
    <3>4. ReportTrue(x)' /\ handler'[x.trans][x.slave] = handler[x.trans][x.slave]
      BY <3>3, <1>8, OthersReported
    <3>5. \A w2 \in Workers : Handles(w2, x.trans, ReportPC)' => w2 = w
      BY <2>4, <3>1, <3>2, <1>12 DEF OneCopyInv, OneReport
    <3>6. job'[w] = job[w]
      BY <1>9
    <3> QED BY <3>1, <3>3, <3>4, <3>5, <3>6, <1>9 DEF ReportTrue, OwnerTrue, StampTrue
  <2> QED BY <2>3, <2>4, <1>9 DEF OneReport
<1>15. WritesReported'
  <2>1. ASSUME NEW n \in TransIds, NEW y \in Slaves, NEW e \in Files, Unreported(n, y, e)
        PROVE  Unreported(n, y, e)'
    <3>1. CASE n = t /\ y = s
      BY <3>1, <2>1, <1>2, <1>5, <1>9, <1>13 DEF Unreported, AtWork, Handles
    <3>2. CASE ~(n = t /\ y = s)
      <4>1. handler'[n][y] = handler[n][y]
        BY <3>2, <1>6 DEF HandlerBecomes
      <4> QED BY <4>1, <2>1, <1>9 DEF Unreported, AtWork, Handles
    <3> QED BY <3>1, <3>2
  <2> QED BY <2>1, <1>9, StillReported DEF OneCopyInv
<1> QED BY <1>8, <1>10, <1>14, <1>15, GoesOn DEF OneCopyInv

\* A handler that takes a step has been started.
LEMMA UnstartedStays ==
  ASSUME Unstarted, NEW t \in TransIds, NEW s \in Slaves, NEW g, HandlerBecomes(t, s, g), g.st # "none"
  PROVE  Unstarted'
  BY DEF Unstarted, HandlerBecomes

\* With one copy a handler has nobody to pass data or a close on to, and it finds the copy.
LEMMA NobodyNext ==
  ASSUME IInv, OneCopyInv, Unstarted, NEW t \in TransIds, NEW s \in Slaves
  PROVE  /\ ~handler[t][s].fwd
         /\ handler[t][s].st # "none" =>
              /\ Alone(handler[t][s]) /\ handler[t][s] \in Handler
              /\ disk[s][handler[t][s].file] # 0
<1>1. handler[t][s].st # "none" => Alone(handler[t][s]) /\ meta[handler[t][s].file].locs = {s}
  BY DEF OneCopyInv, OneHandler
<1>2. ASSUME handler[t][s].st # "none" PROVE disk[s][handler[t][s].file] # 0
  <2>1. PICK y \in Slaves : CopyAt(handler[t][s].file, y)
    BY <1>2, Typed DEF OneCopyInv, CopiesStay
  <2> QED BY <2>1, <1>1, <1>2 DEF CopyAt
<1> QED BY <1>1, <1>2, Typed DEF Alone, Unstarted

\* Every step of a handler but a write and a report changes its label at most.
LEMMA LabelOnly ==
  ASSUME IInv, OneCopyInv, Unstarted, OneCopy, NEW t \in TransIds, NEW s \in Slaves,
         \/ Connect(t, s) \/ ConnectFails(t, s) \/ Forward(t, s) \/ ForwardFails(t, s)
         \/ CommandFails(t, s) \/ Close(t, s) \/ CloseAcked(t, s)
         \/ Disconnect(t, s) \/ ReportNothing(t, s)
  PROVE  \E label \in {"serving", "stopped", "done"} :
           /\ handler[t][s].st \in {"started", "serving"}
           /\ label = "done" => handler[t][s].st = "started"
           /\ handler' = [handler EXCEPT ![t][s].st = label]
           /\ UNCHANGED <<masterVars, disk, reports, deletions>>
<1> DEFINE h == handler[t][s]
<1>1. /\ ~h.fwd
      /\ h.st # "none" => Alone(h) /\ h \in Handler /\ disk[s][h.file] # 0
  BY NobodyNext
<1>2. ~Forward(t, s) /\ ~ForwardFails(t, s)
  BY <1>1 DEF Forward, ForwardFails
<1>3. ~CloseAcked(t, s)
  BY <1>1 DEF CloseAcked, Alone
<1>4. ~ReportNothing(t, s)
  BY <1>1 DEF ReportNothing, OneCopy
<1>5. CASE Connect(t, s)
  BY <1>1, <1>5 DEF Connect
<1>6. CASE ConnectFails(t, s)
  BY <1>6 DEF ConnectFails
<1>7. CASE CommandFails(t, s)
  BY <1>7 DEF CommandFails, ClientReady, Ready
<1>8. CASE Close(t, s)
  <2>1. h.st = "serving" /\ h.src = NoSlave /\ h.dst = NoSlave
    BY <1>1, <1>8 DEF Close, ClientReady, Ready, Alone
  <2> QED BY <2>1, <1>8 DEF Close
<1>9. CASE Disconnect(t, s)
  <2>1. h.st = "serving" /\ handler' = [handler EXCEPT ![t][s].st = "stopped", ![t][s].fwd = FALSE]
    BY <1>9 DEF Disconnect
  <2>2. handler \in [TransIds -> [Slaves -> Handler]]
    BY Typed DEF SlaveType
  <2>3. h.fwd = FALSE
    BY <1>1, <2>1 DEF Handler
  <2>4. [[h EXCEPT !.st = "stopped"] EXCEPT !.fwd = FALSE] = [h EXCEPT !.st = "stopped"]
    BY <1>1, <2>1, <2>3 DEF Handler
  <2>5. handler' = [handler EXCEPT ![t][s].st = "stopped"]
    BY <2>1, <2>2, <2>4
  <2> QED BY <1>9, <2>1, <2>5 DEF Disconnect
<1> QED BY <1>2, <1>3, <1>4, <1>5, <1>6, <1>7, <1>8, <1>9

LEMMA HandlerKeepsOneCopy ==
  ASSUME IInv, OneCopyInv, Unstarted, OneCopy, NEW t \in TransIds, NEW s \in Slaves, HandlerStep(t, s)
  PROVE  OneCopyInv' /\ Unstarted'
<1>1. CASE ClientWrite(t, s)
  <2>1. HandlerBecomes(t, s, Taken(handler[t][s])) /\ handler[t][s] \in Handler /\ handler[t][s].st = "serving"
    BY <1>1, Becomes, Typed DEF ClientWrite, ClientReady, Ready
  <2>2. Taken(handler[t][s]).st # "none"
    BY <2>1 DEF Taken, Handler
  <2> QED BY <1>1, <2>1, <2>2, ClientWriteKeeps, UnstartedStays
<1>2. CASE SendReport(t, s)
  <2> DEFINE g == [handler[t][s] EXCEPT !.st = "reporting"]
  <2>1. handler' = [handler EXCEPT ![t][s] = g]
    BY <1>2 DEF SendReport
  <2>2. g.st # "none"
    BY Typed DEF Handler
  <2> HIDE DEF g
  <2>3. HandlerBecomes(t, s, g)
    BY <2>1, Becomes
  <2> QED BY <1>2, <2>2, <2>3, SendReportKeeps, UnstartedStays
<1>3. CASE ~ClientWrite(t, s) /\ ~SendReport(t, s)
  <2>1. PICK label \in {"serving", "stopped", "done"} :
           /\ handler[t][s].st \in {"started", "serving"}
           /\ label = "done" => handler[t][s].st = "started"
           /\ handler' = [handler EXCEPT ![t][s].st = label]
           /\ UNCHANGED <<masterVars, disk, reports, deletions>>
    BY <1>3, LabelOnly DEF HandlerStep
  <2> DEFINE h == handler[t][s]
             g == [h EXCEPT !.st = label]
  <2>2. Alone(h) /\ h \in Handler
    BY <2>1, NobodyNext
  <2>3. /\ g.st = label /\ g.file = h.file /\ g.mode = h.mode /\ g.change = h.change
        /\ g.src = h.src /\ g.dst = h.dst /\ g.fwd = h.fwd
    BY <2>2 DEF Handler
  <2>4. handler' = [handler EXCEPT ![t][s] = g]
    BY <2>1
  <2> HIDE DEF g
  <2>5. HandlerBecomes(t, s, g) /\ Alone(g)
    BY <2>1, <2>2, <2>3, <2>4, Becomes DEF Alone
  <2>6. h.change = 2 => h.st # "started"
    BY <2>2 DEF Alone
  <2>7. h.change \in {0, 2}
    BY <2>2 DEF Alone
  <2>8. HandlerGoesOn(t, s, g)
    BY <2>1, <2>3, <2>5 DEF HandlerGoesOn, AtWork
  <2> QED BY <2>1, <2>3, <2>5, <2>6, <2>7, <2>8, LabelKeeps, UnstartedStays
<1> QED BY <1>1, <1>2, <1>3

-----------------------------------------------------------------------------
(* Files with one copy: the theorem. *)

\* At the start every file has its copy, and nothing is under way.
LEMMA InitOneCopy ==
  ASSUME OneCopy, Init
  PROVE  OneCopyInv /\ Unstarted
<1>1. \A f \in Files : \E s \in Slaves : CopyAt(f, s) /\ disk[s][f] = meta[f].stamp
  <2>1. ASSUME NEW f \in Files PROVE \E s \in Slaves : CopyAt(f, s) /\ disk[s][f] = meta[f].stamp
    <3>1. PICK H \in InitialHolders, v \in Stamps : meta[f] = Stored(H, v)
      BY DEF Init
    <3>2. PICK s \in Slaves : H = {s}
      BY DEF OneCopy
    <3>3. meta[f] = [exists |-> TRUE, stamp |-> v, locs |-> {s}]
      BY <3>1, <3>2 DEF Stored
    <3>4. meta[f].exists /\ meta[f].locs = {s} /\ meta[f].stamp = v /\ v # 0
      BY <3>3, StampsAssumption
    <3>5. disk[s][f] = v
      BY <3>4 DEF Init
    <3> QED BY <3>4, <3>5 DEF CopyAt
  <2> QED BY <2>1
<1>2. \A w \in Workers : pc[w] = "idle"
  BY DEF Init
<1>3. \A t \in TransIds, s \in Slaves : handler[t][s].st = "none" /\ ~handler[t][s].fwd
  BY DEF Init, NoHandler
<1>4. reports = {} /\ deletions = {}
  BY DEF Init
<1>5. CopiesStay
  BY <1>1, <1>2, <1>4 DEF CopiesStay, FindsCopy
<1>6. OneHandler /\ Unstarted
  BY <1>2, <1>3 DEF OneHandler, Unstarted
<1>7. OneReport
  BY <1>2, <1>4 DEF OneReport, ReportPC
<1>8. WritersExclude
  BY <1>2, <1>3 DEF WritersExclude, OpensToWrite, Writes, AtWork
<1>9. WritesReported
  BY <1>1 DEF WritesReported, CopyAt
<1> QED BY <1>5, <1>6, <1>7, <1>8, <1>9 DEF OneCopyInv

\* What a worker does leaves unstarted handlers blank.
LEMMA WorkerUnstarted ==
  ASSUME IInv, Unstarted, NEW w \in Workers, OpenStep(w) \/ ReportStep(w) \/ DeleteStep(w)
  PROVE  Unstarted'
<1>1. CASE UNCHANGED handler
  BY <1>1 DEF Unstarted
<1>2. CASE Rpc(w)
  <2>1. PICK j : j = job[w]
    OBVIOUS
  <2>2. j.trans \in TransIds /\ j.addr[j.next] \in Slaves
    BY <1>2, <2>1, Typed DEF Rpc, IInv, IdsInUse, WorkerInUse, OpenPC, OpenJob
  <2>3. handler' = [handler EXCEPT ![j.trans][j.addr[j.next]] = NewHandler(j)]
    BY <1>2, <2>1 DEF Rpc
  <2>4. NewHandler(j).st # "none"
    BY DEF NewHandler
  <2> QED BY <2>2, <2>3, <2>4, Becomes, UnstartedStays
<1>3. ASSUME NEW r \in Report, Answered(r) PROVE Unstarted'
  <2>1. r.trans \in TransIds /\ r.slave \in Slaves
    BY ReportFields
  <2> DEFINE g == [handler[r.trans][r.slave] EXCEPT !.st = "done"]
  <2>2. handler' = [handler EXCEPT ![r.trans][r.slave] = g]
    BY <1>3 DEF Answered
  <2>3. g.st # "none"
    BY <2>1, Typed DEF Handler
  <2> HIDE DEF g
  <2> QED BY <2>1, <2>2, <2>3, Becomes, UnstartedStays
<1>4. CASE ReportRetire(w)
  <2>1. job[w].report \in Report
    BY <1>4, Typed DEF ReportRetire, ReportPC
  <2> QED BY <1>3, <1>4, <2>1 DEF ReportRetire
<1>5. ASSUME NEW r \in reports, ReportUnknown(w, r) PROVE Unstarted'
  BY <1>3, <1>5, Typed DEF ReportUnknown
<1> QED
  BY <1>1, <1>2, <1>4, <1>5 DEF OpenStep, ReportStep, DeleteStep, OpenNew, OpenExisting, Create,
     LockNew, Lock, LockBusy, Begin, RpcFails, AddSlave, ReportRetrieve, ReportUpdate, ReportUnlock,
     DeleteLookup, DeleteRemove, slaveVars

\* Every step keeps the invariant of files with one copy.
LEMMA NextKeepsOneCopy ==
  ASSUME OneCopy, IInv, OneCopyInv, Unstarted, [Next]_vars
  PROVE  OneCopyInv' /\ Unstarted'
<1>1. ASSUME NEW w \in Workers, OpenStep(w) PROVE OneCopyInv'
  <2>1. ~Create(w) /\ ~LockNew(w)
    BY DEF OneCopyInv, CopiesStay, FindsCopy, Create, LockNew
  <2> QED BY <1>1, <2>1, OpenExistingKeeps, LockKeeps, LockBusyKeeps, BeginKeeps, RpcKeeps,
             RpcFailsKeeps, AddSlaveKeeps DEF OpenStep
<1>2. ASSUME NEW w \in Workers, ReportStep(w) PROVE OneCopyInv'
  BY <1>2, RetrieveKeeps, NoneUnknown, UpdateKeeps, UnlockKeeps, RetireKeeps DEF ReportStep
<1>3. \A w \in Workers : ~DeleteStep(w)
  BY DEF OneCopy, DeleteStep, DeleteLookup, DeleteRemove, OneCopyInv, CopiesStay, FindsCopy
<1>4. \A s \in Slaves, f \in Files : ~DeleteLocal(s, f)
  BY DEF DeleteLocal, OneCopyInv, CopiesStay
<1>5. CASE UNCHANGED vars
  <2>1. CopiesStay'
    BY <1>5 DEF vars, OneCopyInv, CopiesStay, CopyAt, FindsCopy
  <2>2. OneHandler' /\ Unstarted'
    BY <1>5 DEF vars, OneCopyInv, OneHandler, Unstarted, Alone, AtWork, Listed
  <2>3. OneReport'
    <3>1. UNCHANGED <<pc, job, handler, disk, reports>> /\ OneReport
      BY <1>5 DEF vars, OneCopyInv
    <3>2. \A r \in Report : (ReportTrue(r)' <=> ReportTrue(r)) /\ (StampTrue(r)' <=> StampTrue(r))
      BY <3>1 DEF ReportTrue, StampTrue
    <3>3. \A r \in Report, w \in Workers :
            /\ OwnerTrue(job[w].owner, r)' <=> OwnerTrue(job[w].owner, r)
            /\ \A t \in TransIds : Handles(w, t, ReportPC)' <=> Handles(w, t, ReportPC)
      BY <3>1 DEF OwnerTrue, Handles
    <3>4. ASSUME NEW r \in reports
          PROVE  /\ ReportTrue(r)' /\ StampTrue(r)'
                 /\ \A r2 \in reports : r2.trans = r.trans => r2 = r
                 /\ \A w \in Workers : ~Handles(w, r.trans, ReportPC)'
      <4>1. r \in Report /\ r.trans \in TransIds
        BY Typed, ReportFields
      <4> QED BY <4>1, <3>1, <3>2, <3>3 DEF OneReport
    <3>5. ASSUME NEW w \in Workers, pc[w] \in ReportPC
          PROVE  /\ ReportTrue(job[w].report)' /\ OwnerTrue(job[w].owner, job[w].report)'
                 /\ pc[w] = "update" => StampTrue(job[w].report)'
                 /\ \A w2 \in Workers : Handles(w2, job[w].report.trans, ReportPC)' => w2 = w
      <4>1. PICK r \in Report : r = job[w].report /\ r.trans \in TransIds
        BY <3>5, Typed, ReportFields
      <4>2. ReportTrue(r) /\ OwnerTrue(job[w].owner, r) /\ (pc[w] = "update" => StampTrue(r))
        BY <3>1, <3>5, <4>1 DEF OneReport
      <4>3. \A w2 \in Workers : Handles(w2, r.trans, ReportPC) => w2 = w
        BY <3>1, <3>5, <4>1 DEF OneReport
      <4> QED BY <4>1, <4>2, <4>3, <3>1, <3>2, <3>3 DEF ReportTrue, OwnerTrue, StampTrue
    <3> QED BY <3>1, <3>4, <3>5 DEF OneReport
  <2>4. WritersExclude'
    BY <1>5 DEF vars, OneCopyInv, WritersExclude, OpensToWrite, Writes, AtWork, Handles
  <2>5. WritesReported'
    BY <1>5 DEF vars, OneCopyInv, WritesReported, Unreported, AtWork, Handles
  <2> QED BY <2>1, <2>2, <2>3, <2>4, <2>5 DEF OneCopyInv
<1> QED BY <1>1, <1>2, <1>3, <1>4, <1>5, WorkerUnstarted, HandlerKeepsOneCopy DEF Next

\* A handler that serves a writer has not been unlocked: its report is not sent.
LEMMA ServingWrites ==
  ASSUME IInv, OneCopyInv, NEW t \in TransIds, NEW s \in Slaves, NEW f \in Files,
         Serving(t, s, f, "WRITE")
  PROVE  Writes(t, f)
<1>1. handler[t][s].st = "serving" /\ handler[t][s].file = f /\ "WRITE" \in handler[t][s].mode
  BY DEF Serving
<1>2. ASSUME NEW w \in Workers, Handles(w, t, {"retire"}) PROVE FALSE
  <2>1. pc[w] \in ReportPC /\ job[w].report.trans = t
    BY <1>2 DEF Handles, ReportPC
  <2>2. /\ handler[t][job[w].report.slave].st = "reporting"
        /\ handler[t][s].st # "none" => s = job[w].report.slave
    BY <2>1, AtHand
  <2> QED BY <1>1, <2>2
<1> QED BY <1>1, <1>2 DEF Writes, AtWork

\* What the invariant is for.
LEMMA OneCopyImplies ==
  ASSUME IInv, OneCopyInv, Unstarted
  PROVE  OneCopySafe
<1>1. OneWriter /\ WriterHoldsLock
  BY ServingWrites DEF OneWriter, WriterHoldsLock, OneCopyInv, WritersExclude
<1>2. ASSUME NEW f \in Files, Settled(f), NEW s \in meta[f].locs PROVE disk[s][f] = meta[f].stamp
  <2>1. s \in Slaves
    BY <1>2 DEF OneCopyInv, CopiesStay, CopyAt
  <2>2. \A t \in TransIds : ~Unreported(t, s, f)
    BY <1>2, <2>1 DEF Settled, Unreported, AtWork
  <2> QED BY <1>2, <2>1, <2>2 DEF OneCopyInv, WritesReported
<1> QED BY <1>1, <1>2 DEF OneCopySafe, SettledMetaAccurate

\* Where every file has one copy, nothing is deleted and reports come through, a file has
\* one writer at a time, which holds its write lock, and when all work on it is over the
\* master's entry is the copy's version: however many clients open and write it at once,
\* and whatever calls to slaves and connections fail.
THEOREM OneCopyIsSafe == ASSUME OneCopy PROVE Spec => []OneCopySafe
<1> DEFINE Inv == OneCopyInv /\ Unstarted
<1>1. Init => Inv
  BY InitOneCopy
<1>2. IInv /\ Inv /\ [Next]_vars => Inv'
  BY NextKeepsOneCopy
<1>3. IInv /\ Inv => OneCopySafe
  BY OneCopyImplies
<1> HIDE DEF Inv
<1> QED BY <1>1, <1>2, <1>3, InductiveInvariant, PTL DEF Spec

-----------------------------------------------------------------------------
(* Chains: the slaves stop serving from the tail. *)

\* chooseIONode returns chains.
LEMMA ChainChosen ==
  ASSUME Unbroken, NEW locs \in SUBSET Slaves, NEW mode \in Modes, NEW q \in chooseIONode(locs, mode)
  PROVE  IsChain(q, mode)
<1>1. Cardinality(locs) \in Nat /\ Cardinality(Slaves) \in Nat
  BY SlavesAssumption, FS_Subset, FS_CardinalityType
<1>2. ChainLength(Cardinality(Slaves)) \in Nat
  BY <1>1, ReplicaNumAssumption DEF ChainLength
<1>3. "WRITE" \in mode => LockKinds \subseteq mode
  BY DEF Unbroken, LockKinds
<1>4. ASSUME NEW S \in SUBSET Slaves, NEW n \in Nat, q \in InjectiveChains(n, S), "WRITE" \in mode
      PROVE  IsChain(q, mode)
  <2>1. q \in [1 .. n -> S] /\ \A i, j \in 1 .. n : i # j => q[i] # q[j]
    BY <1>4 DEF InjectiveChains
  <2>2. Len(q) = n
    BY <2>1
  <2> QED BY <1>3, <1>4, <2>1, <2>2 DEF IsChain
<1>5. ASSUME NEW n \in Slaves, q = <<n>> PROVE IsChain(q, mode)
  BY <1>5 DEF IsChain
<1>6. CASE locs # {} /\ "WRITE" \notin mode
  <2>1. \E n \in locs : q = <<n>>
    BY <1>6 DEF chooseIONode, HolderChains
  <2> QED BY <2>1, <1>5
<1>7. CASE locs # {} /\ "WRITE" \in mode
  <2>1. q \in InjectiveChains(Cardinality(locs), locs)
    BY <1>7 DEF chooseIONode, HolderChains
  <2> QED BY <2>1, <1>1, <1>4, <1>7
<1>8. CASE locs = {} /\ "WRITE" \notin mode
  <2>1. q = <<>>
    BY <1>8 DEF chooseIONode, NewFileChains
  <2> QED BY <2>1 DEF IsChain
<1>9. CASE locs = {} /\ "WRITE" \in mode /\ "HiRELIABLE" \notin mode
  <2>1. \E n \in Slaves : q = <<n>>
    BY <1>9 DEF chooseIONode, NewFileChains
  <2> QED BY <2>1, <1>5
<1>10. CASE locs = {} /\ "WRITE" \in mode /\ "HiRELIABLE" \in mode
  <2>1. q \in InjectiveChains(ChainLength(Cardinality(Slaves)), Slaves)
    BY <1>10 DEF chooseIONode, NewFileChains
  <2> QED BY <2>1, <1>2, <1>4, <1>10
<1> QED BY <1>6, <1>7, <1>8, <1>9, <1>10

\* What any step but the start of a handler does to a handler: its chain stays, it serves
\* when it has its file, and it stops when the one it passes data on to is done.
HandlersGoOn ==
  \A t \in TransIds, s \in Slaves :
    LET h == handler[t][s]
        g == handler'[t][s] IN
    /\ g.st = "none" <=> h.st = "none"
    /\ g.file = h.file /\ g.mode = h.mode /\ g.dst = h.dst
    /\ h.st = "done" => g.st = "done"
    /\ g.st = "serving" => h.st = "serving" \/ h.dst = NoSlave \/ disk'[s][h.file] # 0
    /\ g.st \in {"stopped", "reporting"} =>
         h.st \in {"stopped", "reporting"} \/ h.dst = NoSlave \/ handler[t][h.dst].st = "done"

CopiesKept == \A s \in Slaves, f \in Files : disk[s][f] # 0 => disk'[s][f] # 0

\* Such a step keeps what is known of the handlers.
LEMMA GoOnKeeps ==
  ASSUME IInv, ChainInv, HandlersGoOn, CopiesKept
  PROVE  ChainsServe' /\ ChainsClose'
<1>1. ASSUME NEW t \in TransIds, NEW s \in Slaves, handler'[t][s].st # "none", handler'[t][s].dst # NoSlave
      PROVE  /\ LockKinds \subseteq handler'[t][s].mode
             /\ handler'[t][handler'[t][s].dst].st # "none"
             /\ handler'[t][s].st = "serving" => disk'[s][handler'[t][s].file] # 0
             /\ handler'[t][s].st \in {"stopped", "reporting"} => handler'[t][handler'[t][s].dst].st = "done"
  <2> DEFINE h == handler[t][s]
  <2>1. h.st # "none" /\ handler'[t][s].dst = h.dst /\ handler'[t][s].mode = h.mode /\ handler'[t][s].file = h.file
    BY <1>1 DEF HandlersGoOn
  <2>2. h.dst \in Slaves /\ h.file \in Files
    BY <1>1, <2>1, Typed DEF Handler
  <2>3. LockKinds \subseteq h.mode /\ handler[t][h.dst].st # "none" /\ (h.st = "serving" => disk[s][h.file] # 0)
    BY <1>1, <2>1 DEF ChainInv, ChainsServe
  <2>4. handler'[t][h.dst].st # "none"
    BY <2>2, <2>3 DEF HandlersGoOn
  <2>5. handler'[t][s].st = "serving" => disk'[s][h.file] # 0
    BY <1>1, <2>1, <2>2, <2>3 DEF HandlersGoOn, CopiesKept
  <2>6. handler'[t][s].st \in {"stopped", "reporting"} => handler[t][h.dst].st = "done"
    BY <1>1, <2>1 DEF HandlersGoOn, ChainInv, ChainsClose, ClosesAfterNext
  <2>7. handler[t][h.dst].st = "done" => handler'[t][h.dst].st = "done"
    BY <2>2 DEF HandlersGoOn
  <2> QED BY <2>1, <2>3, <2>4, <2>5, <2>6, <2>7
<1>2. ChainsServe'
  BY <1>1 DEF ChainsServe
<1>3. ChainsClose'
  BY <1>1 DEF ChainsClose, ClosesAfterNext
<1> QED BY <1>2, <1>3

\* One handler goes on.
LEMMA OneGoesOn ==
  ASSUME NEW t \in TransIds, NEW s \in Slaves, NEW h, NEW g, h = handler[t][s], HandlerBecomes(t, s, g),
         h.st # "none", g.st # "none", g.file = h.file, g.mode = h.mode, g.dst = h.dst,
         h.st = "done" => g.st = "done",
         g.st = "serving" => h.st = "serving" \/ h.dst = NoSlave \/ disk'[s][h.file] # 0,
         g.st \in {"stopped", "reporting"} =>
           h.st \in {"stopped", "reporting"} \/ h.dst = NoSlave \/ handler[t][h.dst].st = "done"
  PROVE  HandlersGoOn
  BY DEF HandlersGoOn, HandlerBecomes

\* A copy that is written over is not lost.
LEMMA OverwriteKeeps ==
  ASSUME IInv, NEW s \in Slaves, NEW h, h.file \in Files, Overwrite(s, h)
  PROVE  CopiesKept /\ disk'[s][h.file] # 0
  BY StampsAssumption, Typed DEF Overwrite, CopiesKept, SlaveType

\* What a handler step does to the data alone.
SameRoles ==
  \A t \in TransIds, s \in Slaves :
    LET h == handler[t][s]
        g == handler'[t][s] IN
    g.st = h.st /\ g.file = h.file /\ g.mode = h.mode /\ g.dst = h.dst

LEMMA SameRolesGoOn ==
  ASSUME SameRoles
  PROVE  HandlersGoOn
  BY DEF SameRoles, HandlersGoOn

\* Passed and Taken change no role.
LEMMA DataRoles ==
  ASSUME NEW h \in Handler
  PROVE  /\ Passed(h) \in Handler /\ Passed(h).st = h.st /\ Passed(h).file = h.file
         /\ Passed(h).mode = h.mode /\ Passed(h).dst = h.dst
         /\ Taken(h).st = h.st /\ Taken(h).file = h.file /\ Taken(h).mode = h.mode /\ Taken(h).dst = h.dst
  BY DEF Passed, Taken, Handler

\* Every step of a handler, where nothing is broken: only the tail stops by itself, and
\* the others when the one behind them has had its answer.
LEMMA StepGoesOn ==
  ASSUME Unbroken, IInv, ChainInv, NEW t \in TransIds, NEW s \in Slaves, HandlerStep(t, s)
  PROVE  HandlersGoOn /\ CopiesKept
<1>1. PICK h \in Handler : h = handler[t][s] /\ (h.st # "none" => h.file \in Files)
  BY Typed
<1>2. ASSUME NEW label \in HandlerStates, handler' = [handler EXCEPT ![t][s].st = label],
             h.st # "none", label # "none", h.st = "done" => label = "done",
             label = "serving" => h.st = "serving" \/ h.dst = NoSlave \/ disk'[s][h.file] # 0,
             label \in {"stopped", "reporting"} =>
               h.st \in {"stopped", "reporting"} \/ h.dst = NoSlave \/ handler[t][h.dst].st = "done"
      PROVE  HandlersGoOn
  <2> DEFINE g == [h EXCEPT !.st = label]
  <2>1. handler' = [handler EXCEPT ![t][s] = g]
    BY <1>1, <1>2
  <2>2. g.st = label /\ g.file = h.file /\ g.mode = h.mode /\ g.dst = h.dst
    BY DEF Handler
  <2> HIDE DEF g
  <2>3. HandlerBecomes(t, s, g)
    BY <2>1, Becomes
  <2> QED BY <1>1, <1>2, <2>2, <2>3, OneGoesOn
<1>3. disk' = disk => CopiesKept
  BY DEF CopiesKept
\* A handler that serves a chain finds its file.
<1>4. h.st # "none" /\ h.dst # NoSlave => LockKinds \subseteq h.mode /\ (h.st = "serving" => disk[s][h.file] # 0)
  BY <1>1 DEF ChainInv, ChainsServe
<1>5. CASE Connect(t, s)
  <2>1. h.st = "started" /\ h.file \in Files
    BY <1>1, <1>5 DEF Connect
  <2>2. CASE h.mode # {"READ"} /\ disk[s][h.file] = 0
    <3> DEFINE g == [h EXCEPT !.st = "serving", !.change = 1]
    <3>1. Overwrite(s, h) /\ handler' = [handler EXCEPT ![t][s] = g]
      BY <1>1, <1>5, <2>2 DEF Connect
    <3>2. CopiesKept /\ disk'[s][h.file] # 0
      BY <2>1, <3>1, OverwriteKeeps
    <3>3. g.st = "serving" /\ g.file = h.file /\ g.mode = h.mode /\ g.dst = h.dst
      BY DEF Handler
    <3> HIDE DEF g
    <3> QED BY <1>1, <2>1, <3>1, <3>2, <3>3, Becomes, OneGoesOn
  <2>3. CASE ~(h.mode # {"READ"} /\ disk[s][h.file] = 0)
    <3>1. handler' = [handler EXCEPT ![t][s].st = "serving"] /\ disk' = disk
      BY <1>1, <1>5, <2>3 DEF Connect
    <3>2. h.dst = NoSlave \/ disk'[s][h.file] # 0
      BY <1>4, <2>1, <2>3, <3>1 DEF LockKinds
    <3> QED BY <1>2, <1>3, <2>1, <3>1, <3>2 DEF HandlerStates
  <2> QED BY <2>2, <2>3
<1>6. CASE ConnectFails(t, s)
  BY <1>1, <1>2, <1>3, <1>6 DEF ConnectFails, HandlerStates
<1>7. CASE ClientWrite(t, s)
  <2>1. h.st = "serving" /\ Overwrite(s, h) /\ handler' = [handler EXCEPT ![t][s] = Taken(h)]
    BY <1>1, <1>7 DEF ClientWrite, ClientReady, Ready
  <2>2. HandlerBecomes(t, s, Taken(h))
    BY <2>1, Becomes
  <2>3. SameRoles
    BY <1>1, <2>2, DataRoles DEF SameRoles, HandlerBecomes
  <2> QED BY <1>1, <2>1, <2>3, OverwriteKeeps, SameRolesGoOn
<1>8. CASE Forward(t, s)
  <2>1. PICK d \in Slaves : d = h.dst
    BY <1>1, <1>8 DEF Forward, Handler
  <2>2. PICK g \in Handler : g = handler[t][d] /\ (g.st # "none" => g.file \in Files)
    BY Typed
  <2>3. g.st = "serving" /\ Overwrite(d, g)
        /\ handler' = [handler EXCEPT ![t][s] = Passed(h), ![t][d] = Taken(g)]
    BY <1>1, <1>8, <2>1, <2>2 DEF Forward, Ready
  <2>4. ASSUME NEW x \in TransIds, NEW y \in Slaves
        PROVE  handler'[x][y] = IF x = t /\ y = d THEN Taken(g)
                                ELSE IF x = t /\ y = s THEN Passed(h) ELSE handler[x][y]
    BY <2>3, Typed DEF SlaveType
  <2>5. SameRoles
    BY <1>1, <2>2, <2>4, DataRoles DEF SameRoles
  <2> QED BY <2>2, <2>3, <2>5, OverwriteKeeps, SameRolesGoOn
<1>9. CASE ForwardFails(t, s)
  <2>1. PICK d \in Slaves : d = h.dst
    BY <1>1, <1>9 DEF ForwardFails, Handler
  <2>2. PICK g \in Handler : g = handler[t][d]
    BY Typed
  <2>3. CASE handler' = [handler EXCEPT ![t][s] = Passed(h)]
    <3>1. HandlerBecomes(t, s, Passed(h))
      BY <2>3, Becomes
    <3>2. SameRoles
      BY <1>1, <3>1, DataRoles DEF SameRoles, HandlerBecomes
    <3> QED BY <1>3, <1>9, <3>2, SameRolesGoOn DEF ForwardFails
  \* The next slave has lost its file, so it passes nothing on.
  <2>4. CASE /\ Ready(t, d) /\ disk[d][g.file] = 0
             /\ handler' = [handler EXCEPT ![t][s] = Passed(h), ![t][d] = [g EXCEPT !.st = "stopped"]]
    <3>1. g.st = "serving" /\ g.dst = NoSlave
      BY <2>2, <2>4 DEF Ready, ChainInv, ChainsServe
    <3> DEFINE e == [g EXCEPT !.st = "stopped"]
    <3>2. e.st = "stopped" /\ e.file = g.file /\ e.mode = g.mode /\ e.dst = g.dst
      BY DEF Handler
    <3>3. ASSUME NEW x \in TransIds, NEW y \in Slaves
          PROVE  handler'[x][y] = IF x = t /\ y = d THEN e
                                  ELSE IF x = t /\ y = s THEN Passed(h) ELSE handler[x][y]
      BY <2>4, Typed DEF SlaveType
    <3> HIDE DEF e
    <3>4. HandlersGoOn
      BY <1>1, <2>2, <3>1, <3>2, <3>3, DataRoles DEF HandlersGoOn
    <3> QED BY <1>3, <1>9, <3>4 DEF ForwardFails
  <2>5. "channel" \notin Faults
    BY DEF Unbroken
  <2> QED BY <1>1, <1>9, <2>1, <2>2, <2>3, <2>4, <2>5 DEF ForwardFails
<1>10. CASE CommandFails(t, s)
  <2>1. h.st = "serving" /\ h.dst = NoSlave /\ handler' = [handler EXCEPT ![t][s].st = "stopped"] /\ disk' = disk
    BY <1>1, <1>4, <1>10 DEF CommandFails, ClientReady, Ready
  <2> QED BY <1>2, <1>3, <2>1 DEF HandlerStates
<1>11. CASE Close(t, s)
  <2>1. h.st = "serving" /\ disk' = disk
    BY <1>1, <1>11 DEF Close, ClientReady, Ready
  <2>2. PICK label \in {"stopped", "closing"} :
          handler' = [handler EXCEPT ![t][s].st = label] /\ (label = "stopped" => h.dst = NoSlave)
    BY <1>1, <1>11 DEF Close
  <2> QED BY <1>2, <1>3, <2>1, <2>2 DEF HandlerStates
<1>12. CASE CloseAcked(t, s)
  <2>1. /\ h.st = "closing" /\ h.dst # NoSlave /\ handler[t][h.dst].st \in {"none", "done"}
        /\ handler' = [handler EXCEPT ![t][s].st = "stopped"] /\ disk' = disk
    BY <1>1, <1>12 DEF CloseAcked, Unbroken
  <2>2. handler[t][h.dst].st # "none"
    BY <1>1, <2>1 DEF ChainInv, ChainsServe
  <2> QED BY <1>2, <1>3, <2>1, <2>2 DEF HandlerStates
<1>13. ~Disconnect(t, s)
  BY DEF Disconnect, Unbroken
<1>14. CASE SendReport(t, s)
  BY <1>1, <1>2, <1>3, <1>14 DEF SendReport, HandlerStates
<1>15. CASE ReportNothing(t, s)
  BY <1>1, <1>2, <1>3, <1>15 DEF ReportNothing, HandlerStates
<1> QED
  BY <1>5, <1>6, <1>7, <1>8, <1>9, <1>10, <1>11, <1>12, <1>13, <1>14, <1>15 DEF HandlerStep

\* A step that starts no handler and of whose workers only w goes on, with a chain that
\* fits the handlers and a transaction that no other worker starts.
LEMMA StartedFrame ==
  ASSUME IInv, ChainInv, NEW w \in Workers, NEW label, NEW j, Goto(w, label, j),
         \A t \in TransIds, s \in Slaves : handler'[t][s].st = "none" <=> handler[t][s].st = "none",
         label \in {"lockNew", "begin", "rpc", "addSlave"} => IsChain(j.addr, j.mode),
         label \in {"rpc", "addSlave"} =>
           /\ j \in OpenJob /\ j.trans \in TransIds
           /\ \A i \in 1 .. Len(j.addr) :
                handler[j.trans][j.addr[i]].st = "none" <=> (i > j.next \/ (i = j.next /\ label = "rpc"))
           /\ \A x \in Workers \ {w} : pc[x] \in {"rpc", "addSlave"} => job[x].trans # j.trans
  PROVE  ChainsStarted'
<1>1. /\ pc'[w] = label /\ job'[w] = j
      /\ \A x \in Workers \ {w} : pc'[x] = pc[x] /\ job'[x] = job[x]
  BY Typed, GotoFrame
<1>2. ASSUME NEW x \in Workers
      PROVE  /\ pc'[x] \in {"lockNew", "begin", "rpc", "addSlave"} => IsChain(job'[x].addr, job'[x].mode)
             /\ pc'[x] \in {"rpc", "addSlave"} =>
                  \A i \in 1 .. Len(job'[x].addr) :
                    handler'[job'[x].trans][job'[x].addr[i]].st = "none" <=> StillToStart(x, i)'
  <2>1. CASE x = w
    <3>1. label \in {"rpc", "addSlave"} => \A i \in 1 .. Len(j.addr) : j.addr[i] \in Slaves
      BY DEF OpenJob
    <3> QED BY <1>1, <2>1, <3>1 DEF StillToStart
  <2>2. CASE x # w
    <3>1. pc'[x] = pc[x] /\ job'[x] = job[x]
      BY <1>1, <2>2
    <3>2. pc[x] \in {"rpc", "addSlave"} =>
            job[x].trans \in TransIds /\ \A i \in 1 .. Len(job[x].addr) : job[x].addr[i] \in Slaves
      BY Typed DEF OpenPC, OpenJob
    <3>3. /\ pc[x] \in {"lockNew", "begin", "rpc", "addSlave"} => IsChain(job[x].addr, job[x].mode)
          /\ pc[x] \in {"rpc", "addSlave"} =>
               \A i \in 1 .. Len(job[x].addr) :
                 handler[job[x].trans][job[x].addr[i]].st = "none" <=> StillToStart(x, i)
      BY DEF ChainInv, ChainsStarted
    <3> QED BY <3>1, <3>2, <3>3 DEF StillToStart
  <2> QED BY <2>1, <2>2
<1>3. ASSUME NEW x \in Workers, NEW y \in Workers, pc'[x] \in {"rpc", "addSlave"}, pc'[y] \in {"rpc", "addSlave"},
             job'[y].trans = job'[x].trans
      PROVE  y = x
  <2>1. CASE x # w /\ y # w
    BY <1>1, <1>3, <2>1 DEF ChainInv, ChainsStarted
  <2>2. CASE x = w \/ y = w
    BY <1>1, <1>3, <2>2
  <2> QED BY <2>1, <2>2
<1> QED BY <1>2, <1>3 DEF ChainsStarted

\* Steps without a worker, in particular those of the handlers.
LEMMA StartedStays ==
  ASSUME IInv, ChainInv, UNCHANGED <<pc, job>>,
         \A t \in TransIds, s \in Slaves : handler'[t][s].st = "none" <=> handler[t][s].st = "none"
  PROVE  ChainsStarted'
<1>1. ASSUME NEW x \in Workers
      PROVE  /\ pc[x] \in {"lockNew", "begin", "rpc", "addSlave"} => IsChain(job[x].addr, job[x].mode)
             /\ pc[x] \in {"rpc", "addSlave"} =>
                  \A i \in 1 .. Len(job[x].addr) :
                    handler'[job[x].trans][job[x].addr[i]].st = "none" <=> StillToStart(x, i)
  <2>1. pc[x] \in {"rpc", "addSlave"} =>
          job[x].trans \in TransIds /\ \A i \in 1 .. Len(job[x].addr) : job[x].addr[i] \in Slaves
    BY Typed DEF OpenPC, OpenJob
  <2> QED BY <2>1 DEF ChainInv, ChainsStarted
<1>2. \A x \in Workers, i \in Nat : StillToStart(x, i)' <=> StillToStart(x, i)
  BY DEF StillToStart
<1>3. \A x \in Workers : \A i \in 1 .. Len(job[x].addr) : i \in Nat
  OBVIOUS
<1>4. \A x, y \in Workers : pc[x] \in {"rpc", "addSlave"} /\ pc[y] \in {"rpc", "addSlave"} /\ job[y].trans = job[x].trans => y = x
  BY DEF ChainInv, ChainsStarted
<1> QED BY <1>1, <1>2, <1>3, <1>4 DEF ChainsStarted

\* The rpc of an open starts the next handler of its chain.
LEMMA RpcKeepsChains ==
  ASSUME IInv, ChainInv, NEW w \in Workers, Rpc(w)
  PROVE  ChainInv'
<1>1. PICK j \in OpenJob : j = job[w]
  BY Typed DEF Rpc, OpenPC
<1>2. /\ pc[w] = "rpc" /\ j.trans \in TransIds /\ j.next \in 1 .. Len(j.addr)
      /\ Goto(w, "addSlave", j) /\ UNCHANGED <<disk, deletions>>
  BY <1>1, Typed DEF Rpc, IInv, IdsInUse, WorkerInUse
<1>3. PICK n \in TransIds, a \in Slaves : n = j.trans /\ a = j.addr[j.next]
  BY <1>2 DEF OpenJob
<1>4. PICK g : g = NewHandler(j)
  OBVIOUS
<1>5. HandlerBecomes(n, a, g)
  <2>1. handler' = [handler EXCEPT ![n][a] = g]
    BY <1>1, <1>3, <1>4 DEF Rpc
  <2> QED BY <2>1, Becomes
<1>6. /\ pc'[w] = "addSlave" /\ job'[w] = j
      /\ \A x \in Workers \ {w} : pc'[x] = pc[x] /\ job'[x] = job[x]
  BY <1>2, Typed, GotoFrame
<1>7. /\ IsChain(j.addr, j.mode)
      /\ \A i \in 1 .. Len(j.addr) : handler[n][j.addr[i]].st = "none" <=> (i > j.next \/ i = j.next)
      /\ \A x \in Workers : pc[x] \in {"rpc", "addSlave"} /\ job[x].trans = n => x = w
  BY <1>1, <1>2, <1>3 DEF ChainInv, ChainsStarted, StillToStart
<1>8. handler[n][a].st = "none"
  BY <1>2, <1>3, <1>7
<1>9. g.st = "started" /\ g.mode = j.mode /\ g.dst = (IF j.next = 1 THEN NoSlave ELSE j.addr[j.next - 1])
  BY <1>4 DEF NewHandler
<1>10. ChainsStarted'
  <2>1. ASSUME NEW x \in Workers
        PROVE  /\ pc'[x] \in {"lockNew", "begin", "rpc", "addSlave"} => IsChain(job'[x].addr, job'[x].mode)
               /\ pc'[x] \in {"rpc", "addSlave"} =>
                    \A i \in 1 .. Len(job'[x].addr) :
                      handler'[job'[x].trans][job'[x].addr[i]].st = "none" <=> StillToStart(x, i)'
    <3>1. CASE x = w
      <4>1. ASSUME NEW i \in 1 .. Len(j.addr)
            PROVE  handler'[n][j.addr[i]].st = "none" <=> i > j.next
        <5>1. j.addr[i] \in Slaves /\ (i # j.next => j.addr[i] # a)
          BY <1>2, <1>3, <1>7 DEF OpenJob, IsChain
        <5> QED BY <1>2, <1>3, <1>5, <1>7, <1>9, <5>1 DEF HandlerBecomes
      <4> QED BY <1>3, <1>6, <1>7, <3>1, <4>1 DEF StillToStart
    <3>2. CASE x # w
      <4>1. pc'[x] = pc[x] /\ job'[x] = job[x]
        BY <1>6, <3>2
      <4>2. pc[x] \in {"rpc", "addSlave"} =>
              /\ job[x].trans \in TransIds /\ job[x].trans # n
              /\ \A i \in 1 .. Len(job[x].addr) : job[x].addr[i] \in Slaves
        BY <1>7, <3>2, Typed DEF OpenPC, OpenJob
      <4>3. /\ pc[x] \in {"lockNew", "begin", "rpc", "addSlave"} => IsChain(job[x].addr, job[x].mode)
            /\ pc[x] \in {"rpc", "addSlave"} =>
                 \A i \in 1 .. Len(job[x].addr) :
                   handler[job[x].trans][job[x].addr[i]].st = "none" <=> StillToStart(x, i)
        BY DEF ChainInv, ChainsStarted
      <4> QED BY <1>5, <4>1, <4>2, <4>3 DEF StillToStart, HandlerBecomes
    <3> QED BY <3>1, <3>2
  <2>2. ASSUME NEW x \in Workers, NEW y \in Workers, pc'[x] \in {"rpc", "addSlave"}, pc'[y] \in {"rpc", "addSlave"},
               job'[y].trans = job'[x].trans
        PROVE  y = x
    <3>1. \A z \in Workers : pc'[z] \in {"rpc", "addSlave"} => pc[z] \in {"rpc", "addSlave"} /\ job'[z] = job[z]
      BY <1>1, <1>2, <1>6
    <3> QED BY <2>2, <3>1 DEF ChainInv, ChainsStarted
  <2> QED BY <2>1, <2>2 DEF ChainsStarted
\* No handler passes data on to one that is not started yet.
<1>11. ASSUME NEW x \in TransIds, NEW y \in Slaves, ~(x = n /\ y = a),
              handler'[x][y].st # "none", handler'[x][y].dst # NoSlave
       PROVE  /\ handler'[x][y] = handler[x][y] /\ handler[x][y].dst \in Slaves
              /\ handler'[x][handler[x][y].dst] = handler[x][handler[x][y].dst]
  <2>1. handler'[x][y] = handler[x][y] /\ handler[x][y].dst \in Slaves
    BY <1>5, <1>11, Typed DEF HandlerBecomes, Handler
  <2>2. ~(x = n /\ handler[x][y].dst = a)
    BY <1>8, <1>11, <2>1 DEF ChainInv, ChainsServe
  <2> QED BY <1>5, <2>1, <2>2 DEF HandlerBecomes
<1>12. g.dst # NoSlave => LockKinds \subseteq g.mode /\ g.dst \in Slaves \ {a} /\ handler[n][g.dst].st # "none"
  <2>1. SUFFICES ASSUME g.dst # NoSlave
                 PROVE  LockKinds \subseteq g.mode /\ g.dst \in Slaves \ {a} /\ handler[n][g.dst].st # "none"
    OBVIOUS
  <2>2. PICK i \in 1 .. Len(j.addr) : i = j.next - 1 /\ g.dst = j.addr[i]
    BY <1>2, <1>9, <2>1 DEF OpenJob
  <2>3. LockKinds \subseteq j.mode /\ j.addr[i] # a /\ j.addr[i] \in Slaves
    BY <1>2, <1>3, <1>7, <2>2 DEF IsChain, OpenJob
  <2>4. handler[n][j.addr[i]].st # "none"
    BY <1>2, <1>7, <2>2
  <2> QED BY <1>9, <2>2, <2>3, <2>4
<1>13. handler'[n][a] = g /\ (g.dst # NoSlave => handler'[n][g.dst] = handler[n][g.dst])
  BY <1>5, <1>12 DEF HandlerBecomes
<1>14. ChainsServe'
  <2>1. ASSUME NEW x \in TransIds, NEW y \in Slaves, handler'[x][y].st # "none", handler'[x][y].dst # NoSlave
        PROVE  /\ LockKinds \subseteq handler'[x][y].mode
               /\ handler'[x][handler'[x][y].dst].st # "none"
               /\ handler'[x][y].st = "serving" => disk'[y][handler'[x][y].file] # 0
    <3>1. CASE x = n /\ y = a
      BY <1>9, <1>12, <1>13, <2>1, <3>1
    <3>2. CASE ~(x = n /\ y = a)
      BY <1>2, <1>11, <2>1, <3>2 DEF ChainInv, ChainsServe
    <3> QED BY <3>1, <3>2
  <2> QED BY <2>1 DEF ChainsServe
<1>15. ChainsClose'
  <2>1. ASSUME NEW x \in TransIds, NEW y \in Slaves,
               handler'[x][y].st \in {"stopped", "reporting"}, handler'[x][y].dst # NoSlave
        PROVE  handler'[x][handler'[x][y].dst].st = "done"
    <3>1. ~(x = n /\ y = a)
      BY <1>9, <1>13, <2>1
    <3> QED BY <1>11, <2>1, <3>1 DEF ChainInv, ChainsClose, ClosesAfterNext
  <2> QED BY <2>1 DEF ChainsClose, ClosesAfterNext
<1> QED BY <1>2, <1>10, <1>14, <1>15 DEF ChainInv

\* Nothing changes but the master's own state.
LEMMA HandlersStill ==
  ASSUME UNCHANGED <<handler, disk>>
  PROVE  HandlersGoOn /\ CopiesKept
<1>1. SameRoles /\ CopiesKept
  BY DEF SameRoles, CopiesKept
<1> QED BY <1>1, SameRolesGoOn

\* A slave that has its answer is done.
LEMMA AnsweredGoesOn ==
  ASSUME IInv, NEW r \in Report, handler[r.trans][r.slave].st # "none", Answered(r), UNCHANGED disk
  PROVE  HandlersGoOn /\ CopiesKept
<1>1. PICK t \in TransIds, s \in Slaves : t = r.trans /\ s = r.slave
  BY ReportFields
<1>2. PICK h \in Handler : h = handler[t][s]
  BY Typed
<1> DEFINE g == [h EXCEPT !.st = "done"]
<1>3. handler' = [handler EXCEPT ![t][s] = g]
  BY <1>1, <1>2 DEF Answered
<1>4. g.st = "done" /\ g.file = h.file /\ g.mode = h.mode /\ g.dst = h.dst
  BY DEF Handler
<1> HIDE DEF g
<1>5. HandlerBecomes(t, s, g)
  BY <1>3, Becomes
<1>6. HandlersGoOn
  BY <1>1, <1>2, <1>4, <1>5, OneGoesOn
<1> QED BY <1>6 DEF CopiesKept

LEMMA OpenKeepsChains ==
  ASSUME Unbroken, IInv, ChainInv, NEW w \in Workers, OpenStep(w)
  PROVE  ChainInv'
<1>1. ASSUME NEW label, NEW j, Goto(w, label, j), UNCHANGED slaveVars,
             label \in {"lockNew", "begin", "rpc", "addSlave"} => IsChain(j.addr, j.mode),
             label \in {"rpc", "addSlave"} =>
               /\ j \in OpenJob /\ j.trans \in TransIds
               /\ \A i \in 1 .. Len(j.addr) :
                    handler[j.trans][j.addr[i]].st = "none" <=> (i > j.next \/ (i = j.next /\ label = "rpc"))
               /\ \A x \in Workers \ {w} : pc[x] \in {"rpc", "addSlave"} => job[x].trans # j.trans
      PROVE  ChainInv'
  <2>1. UNCHANGED <<handler, disk, deletions>>
    BY <1>1 DEF slaveVars
  <2>2. ChainsStarted'
    BY <1>1, <2>1, StartedFrame
  <2> QED BY <2>1, <2>2, HandlersStill, GoOnKeeps DEF ChainInv
<1>2. pc[w] \in OpenPC => job[w] \in OpenJob
  BY Typed
<1>3. pc[w] \in {"lockNew", "begin", "rpc", "addSlave"} => IsChain(job[w].addr, job[w].mode)
  BY DEF ChainInv, ChainsStarted
<1>4. ASSUME NEW u \in Users, NEW f \in Files, NEW mode \in Modes,
             OpenNew(w, u, f, mode) \/ OpenExisting(w, u, f, mode)
      PROVE  ChainInv'
  <2>1. PICK label \in {"create", "lock"} : Goto(w, label, NewOpenJob(u, f, mode)) /\ UNCHANGED slaveVars
    BY <1>4 DEF OpenNew, OpenExisting
  <2> QED BY <1>1, <2>1
<1>5. CASE Create(w)
  <2>1. job[w] \in OpenJob
    BY <1>2, <1>5 DEF Create, OpenPC
  <2>2. PICK q \in chooseIONode({}, job[w].mode) : Goto(w, "lockNew", [job[w] EXCEPT !.addr = q])
    BY <1>5 DEF Create
  <2>3. IsChain(q, job[w].mode)
    BY <2>1, ChainChosen DEF OpenJob
  <2> DEFINE j == [job[w] EXCEPT !.addr = q]
  <2>4. IsChain(j.addr, j.mode)
    BY <2>1, <2>3 DEF OpenJob
  <2>5. Goto(w, "lockNew", j)
    BY <2>2
  <2> HIDE DEF j
  <2> QED BY <1>1, <1>5, <2>4, <2>5 DEF Create
<1>6. CASE LockNew(w)
  BY <1>1, <1>3, <1>6 DEF LockNew
<1>7. CASE Lock(w)
  <2>1. job[w] \in OpenJob
    BY <1>2, <1>7 DEF Lock, OpenPC
  <2>2. PICK q \in chooseIONode(job[w].locs, job[w].mode) : Goto(w, "begin", [job[w] EXCEPT !.addr = q])
    BY <1>7 DEF Lock
  <2>3. IsChain(q, job[w].mode)
    BY <2>1, ChainChosen DEF OpenJob
  <2> DEFINE j == [job[w] EXCEPT !.addr = q]
  <2>4. IsChain(j.addr, j.mode)
    BY <2>1, <2>3 DEF OpenJob
  <2>5. Goto(w, "begin", j)
    BY <2>2
  <2> HIDE DEF j
  <2> QED BY <1>1, <1>7, <2>4, <2>5 DEF Lock
<1>8. CASE LockBusy(w)
  BY <1>1, <1>8 DEF LockBusy, Finish
<1>9. CASE Begin(w)
  <2>1. pc[w] = "begin" /\ job[w] \in OpenJob /\ nextTrans \in TransIds /\ UNCHANGED slaveVars
    BY <1>2, <1>9 DEF Begin, OpenPC
  <2>2. CASE job[w].addr = <<>>
    BY <1>1, <1>9, <2>1, <2>2 DEF Begin, Finish
  <2>3. CASE job[w].addr # <<>>
    <3> DEFINE j == [job[w] EXCEPT !.trans = nextTrans]
    <3>1. Goto(w, "rpc", j)
      BY <1>9, <2>3 DEF Begin
    <3>2. nextTrans \in Nat
      BY <2>1, MaxTransAssumption DEF TransIds
    <3>3. /\ j.addr = job[w].addr /\ j.mode = job[w].mode /\ j.next = job[w].next /\ j.trans = nextTrans
          /\ j \in OpenJob
      BY <2>1, <3>2 DEF OpenJob
    <3> HIDE DEF j
    <3>4. j.next = 1
      BY <2>1, <3>3 DEF IInv, IdsInUse, WorkerInUse, Opening
    <3>5. \A s \in Slaves : handler[nextTrans][s].st = "none"
      BY <2>1, <3>2, Typed
    <3>6. \A i \in 1 .. Len(j.addr) : j.addr[i] \in Slaves
      BY <3>3 DEF OpenJob
    <3>7. \A i \in 1 .. Len(j.addr) : handler[j.trans][j.addr[i]].st = "none" <=> (i > j.next \/ i = j.next)
      BY <3>3, <3>4, <3>5, <3>6
    <3>8. \A x \in Workers : pc[x] \in {"rpc", "addSlave"} => job[x].trans # nextTrans
      BY <2>1, <3>2, Typed
    <3> QED BY <1>1, <1>3, <2>1, <3>1, <3>3, <3>7, <3>8
  <2> QED BY <2>2, <2>3
<1>10. CASE Rpc(w)
  BY <1>10, RpcKeepsChains
<1>11. ~RpcFails(w)
  BY DEF RpcFails, Unbroken
<1>12. CASE AddSlave(w)
  <2>1. PICK j \in OpenJob : j = job[w] /\ pc[w] = "addSlave" /\ UNCHANGED slaveVars
    BY <1>2, <1>12 DEF AddSlave, OpenPC
  <2>2. CASE j.next = Len(j.addr)
    BY <1>1, <1>12, <2>1, <2>2 DEF AddSlave, Finish
  <2>3. CASE j.next # Len(j.addr)
    <3> DEFINE k == [j EXCEPT !.next = @ + 1]
    <3>1. Goto(w, "rpc", k)
      BY <1>12, <2>1, <2>3 DEF AddSlave
    <3>2. k \in OpenJob /\ k.addr = j.addr /\ k.mode = j.mode /\ k.trans = j.trans /\ k.next = j.next + 1
      BY <2>1 DEF OpenJob
    <3> HIDE DEF k
    <3>3. /\ \A i \in 1 .. Len(j.addr) : handler[j.trans][j.addr[i]].st = "none" <=> i > j.next
          /\ \A x \in Workers : pc[x] \in {"rpc", "addSlave"} /\ job[x].trans = j.trans => x = w
      BY <2>1 DEF ChainInv, ChainsStarted, StillToStart
    <3>4. j.trans \in TransIds /\ j.next \in Nat
      BY <2>1, Typed DEF OpenJob
    <3>5. \A i \in 1 .. Len(k.addr) : handler[k.trans][k.addr[i]].st = "none" <=> (i > k.next \/ i = k.next)
      BY <3>2, <3>3, <3>4
    <3> QED BY <1>1, <1>3, <2>1, <3>1, <3>2, <3>3, <3>4, <3>5
  <2> QED BY <2>2, <2>3
<1> QED BY <1>4, <1>5, <1>6, <1>7, <1>8, <1>9, <1>10, <1>11, <1>12 DEF OpenStep

LEMMA ReportKeepsChains ==
  ASSUME IInv, ChainInv, NEW w \in Workers, ReportStep(w)
  PROVE  ChainInv'
<1>1. ASSUME NEW label \in {"idle", "update", "unlock", "retire"}, NEW j, Goto(w, label, j), UNCHANGED deletions,
             HandlersGoOn, CopiesKept
      PROVE  ChainInv'
  <2>1. ChainsStarted'
    BY <1>1, StartedFrame DEF HandlersGoOn
  <2> QED BY <1>1, <2>1, GoOnKeeps DEF ChainInv
<1>2. ASSUME NEW r \in reports, ReportRetrieve(w, r) PROVE ChainInv'
  BY <1>1, <1>2, HandlersStill DEF ReportRetrieve
<1>3. ASSUME NEW r \in reports, ReportUnknown(w, r) PROVE ChainInv'
  <2>1. r \in Report /\ handler[r.trans][r.slave].st # "none"
    BY Typed DEF IInv, IdsInUse, Solicited
  <2>2. HandlersGoOn /\ CopiesKept
    BY <1>3, <2>1, AnsweredGoesOn DEF ReportUnknown
  <2>3. ChainsStarted'
    BY <1>3, <2>2, StartedStays DEF HandlersGoOn, ReportUnknown, masterVars
  <2> QED BY <1>3, <2>2, <2>3, GoOnKeeps DEF ChainInv, ReportUnknown
<1>4. CASE ReportUpdate(w) \/ ReportUnlock(w)
  BY <1>1, <1>4, HandlersStill DEF ReportUpdate, ReportUnlock, slaveVars
<1>5. CASE ReportRetire(w)
  <2>1. job[w].report \in Report /\ handler[job[w].report.trans][job[w].report.slave].st # "none"
    BY <1>5, Typed DEF ReportRetire, ReportPC, IInv, IdsInUse, WorkerInUse, Solicited
  <2>2. HandlersGoOn /\ CopiesKept
    BY <1>5, <2>1, AnsweredGoesOn DEF ReportRetire
  <2> QED BY <1>1, <1>5, <2>2 DEF ReportRetire, Finish
<1> QED BY <1>2, <1>3, <1>4, <1>5 DEF ReportStep

\* Every step keeps the invariant of chains.
LEMMA NextKeepsChains ==
  ASSUME Unbroken, IInv, ChainInv, [Next]_vars
  PROVE  ChainInv'
<1>1. ASSUME NEW w \in Workers, DeleteStep(w) PROVE ChainInv'
  <2>1. DeleteRemove(w)
    BY <1>1 DEF DeleteStep, DeleteLookup, Unbroken
  <2>2. Goto(w, "idle", NoJob) /\ UNCHANGED <<handler, disk, deletions>>
    BY <2>1 DEF DeleteRemove, Finish, slaveVars
  <2>3. ChainsStarted'
    BY <2>2, StartedFrame
  <2> QED BY <2>2, <2>3, HandlersStill, GoOnKeeps DEF ChainInv
<1>2. \A s \in Slaves, f \in Files : ~DeleteLocal(s, f)
  BY DEF DeleteLocal, ChainInv
<1>3. ASSUME NEW t \in TransIds, NEW s \in Slaves, HandlerStep(t, s) PROVE ChainInv'
  <2>1. HandlersGoOn /\ CopiesKept
    BY <1>3, StepGoesOn
  <2>2. UNCHANGED <<pc, job, deletions>>
    BY <1>3 DEF HandlerStep, Connect, ConnectFails, ClientWrite, Forward, ForwardFails, CommandFails,
       Close, CloseAcked, Disconnect, SendReport, ReportNothing, masterVars
  <2>3. ChainsStarted'
    BY <2>1, <2>2, StartedStays DEF HandlersGoOn
  <2> QED BY <2>1, <2>2, <2>3, GoOnKeeps DEF ChainInv
<1>4. CASE UNCHANGED vars
  <2>1. UNCHANGED <<pc, job, handler, disk, deletions>>
    BY <1>4 DEF vars
  <2>2. ChainsStarted'
    BY <2>1, StartedStays
  <2> QED BY <2>1, <2>2, HandlersStill, GoOnKeeps DEF ChainInv
<1> QED BY <1>1, <1>2, <1>3, <1>4, OpenKeepsChains, ReportKeepsChains DEF Next

\* Where no channel breaks, every rpc reaches its slave, nothing is deleted and who writes
\* may read, a slave of a chain stops serving only after the one it passes data on to is
\* done, for chains of any length, whoever cannot be reached and whatever is not reported.
THEOREM ChainsCloseTailFirst == ASSUME Unbroken PROVE Spec => []ChainClosedTailFirst
<1>1. Init => ChainInv
  BY DEF Init, ChainInv, ChainsStarted, ChainsServe, ChainsClose, ClosesAfterNext, NoHandler
<1>2. IInv /\ ChainInv /\ [Next]_vars => ChainInv'
  BY NextKeepsChains
<1>3. ASSUME IInv, ChainInv PROVE ChainClosedTailFirst
  <2>1. DOMAIN handler = TransIds /\ \A t \in TransIds : DOMAIN handler[t] = Slaves
    BY <1>3, Typed DEF SlaveType
  <2> QED BY <1>3, <2>1 DEF ChainInv, ChainsClose, ChainClosedTailFirst
<1> QED BY <1>1, <1>2, <1>3, InductiveInvariant, PTL DEF Spec
=============================================================================
